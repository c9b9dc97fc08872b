-------------------------- MODULE PeerCxSerialProofs --------------------------
(***************************************************************************)
(* While no two invocations of one tenant overlap, the handshake           *)
(* implements PeerCxAgreement: proofs for any sets of invitations, IDs,    *)
(* terms, invocations and administrators.                                  *)
(***************************************************************************)
EXTENDS PeerCxSerial, PeerCxHandshakeProofs

\* What the handshake keeps however its invocations overlap.
Base ==
  /\ TypeOK /\ ActivationTraced
  /\ RecordsConsistent /\ IdNamesOneAgreement
  /\ TermsHeld

LEMMA BaseHolds == SerialSpec => Spec /\ []Base
<1>1. [SerialNext]_vars => [Next]_vars
  BY DEF SerialNext
<1>2. SerialSpec => Spec
  BY <1>1, PTL DEF SerialSpec, Spec
<1>3. Spec => []Base
  <2>1. /\ TypeOK /\ ActivationTraced /\ RecordsConsistent
        /\ IdNamesOneAgreement /\ TermsHeld
        => Base
    BY DEF Base
  <2>2. QED
    BY <2>1, InductiveInvariant, Consistency, OneAgreementPerId,
       TermsInductive, PTL
<1>4. QED
  BY <1>2, <1>3, PTL

Inv == OneWriterPerTenant /\ SerialInvariant

-----------------------------------------------------------------------------
(* The discipline: a writer is its tenant's only one.                      *)

Writing == {"nominating", "polling", "confirming"}

LEMMA SoleCall ==
  ASSUME OneWriterPerTenant, NEW b \in Call, call[b].step \in Writing
  PROVE  /\ \A x \in Call \ {b} : call[x].step \notin Writing
         /\ \A a \in Admin : ~(admin[a].busy /\ admin[a].site = "blue")
  BY DEF OneWriterPerTenant, Writing

LEMMA SoleHandler ==
  ASSUME OneWriterPerTenant, NEW b \in Call, handler[b].busy
  PROVE  /\ \A x \in Call \ {b} : ~handler[x].busy
         /\ \A a \in Admin : ~(admin[a].busy /\ admin[a].site = "green")
  BY DEF OneWriterPerTenant

LEMMA SoleAdmin ==
  ASSUME TypeOK, OneWriterPerTenant, NEW a \in Admin, admin[a].busy
  PROVE  /\ \A x \in Admin \ {a} : ~(admin[x].busy /\ admin[x].site = admin[a].site)
         /\ admin[a].site = "blue" => \A b \in Call : call[b].step \notin Writing
         /\ admin[a].site = "green" => \A b \in Call : ~handler[b].busy
<1>1. admin[a].site \in {"blue", "green"}
  BY DEF TypeOK, Site
<1>2. QED
  BY <1>1 DEF OneWriterPerTenant, Writing

-----------------------------------------------------------------------------
(* The ways in which a step moves what a tenant has stored.                *)

AnyStatus == NominationStatus \cup {"none"}

\* At one site, the record of one correlation goes from one status to another.
Moves(site, c, from, to) ==
  /\ \A other \in Site \ {site} : store'[other] = store[other]
  /\ \A d \in Corr \ {c} : On(store'[site], d) = On(store[site], d)
  /\ On(store[site], c).status = from
  /\ On(store'[site], c).status = to
  /\ from # "none" =>
       On(store'[site], c).peerCxId = On(store[site], c).peerCxId

KeepsPeerCxs(site) == store'[site].peerCxs = store[site].peerCxs

\* The PeerCX that the record of c names changes, and no other does.
SetsPeerCx(site, c, from, to) ==
  LET id == On(store[site], c).peerCxId IN
  /\ store[site].peerCxs[id] \in from
  /\ store'[site].peerCxs[id] = to
  /\ \A other \in PeerCxId \ {id} :
       store'[site].peerCxs[other] = store[site].peerCxs[other]

BlueConsents(c) ==
  /\ Moves("blue", c, "none", "awaiting-green-approval")
  /\ KeepsPeerCxs("blue")
BlueAccepts(c) ==
  /\ Moves("blue", c, "awaiting-green-approval", "awaiting-blue-confirmation")
  /\ KeepsPeerCxs("blue")
  /\ Approved(store["green"], c)
BlueActivates(c) ==
  /\ Moves("blue", c, "awaiting-blue-confirmation", "active")
  /\ SetsPeerCx("blue", c, {"none"}, "active")
  /\ Active(store["green"], c)
GreenRecords(c) ==
  /\ Moves("green", c, "none", "awaiting-green-approval")
  /\ KeepsPeerCxs("green")
  /\ Recorded(store["blue"], c)
  /\ On(store'["green"], c).peerCxId = On(store["blue"], c).peerCxId
GreenDecides(c) ==
  /\ \E to \in NominationStatus \ {"active"} :
       Moves("green", c, "awaiting-green-approval", to)
  /\ KeepsPeerCxs("green")
GreenActivates(c) ==
  /\ Moves("green", c, "awaiting-blue-confirmation", "active")
  /\ SetsPeerCx("green", c, {"none"}, "active")
  /\ Approved(store["blue"], c)
Revokes(site, c) ==
  /\ Moves(site, c, "active", "active")
  /\ SetsPeerCx(site, c, {"active", "revoked"}, "revoked")

StoreMoves(c) ==
  \/ BlueConsents(c) \/ BlueAccepts(c) \/ BlueActivates(c)
  \/ GreenRecords(c) \/ GreenDecides(c) \/ GreenActivates(c)
  \/ \E site \in Site : Revokes(site, c)

-----------------------------------------------------------------------------
(* What the transitions of PeerCxSetup write.                              *)

\* Both lists, at one correlation and its ID.
LEMMA ActivateWrites ==
  ASSUME NEW s \in PeerCxSetupState, NEW c \in Corr, Recorded(s, c)
  PROVE  LET next == Activate(s, c)
             id == On(s, c).peerCxId
         IN /\ \A d \in Corr \ {c} : On(next, d) = On(s, d)
            /\ On(next, c).status = "active" /\ On(next, c).peerCxId = id
            /\ id \in PeerCxId
            /\ next.peerCxs[id] = "active"
            /\ \A other \in PeerCxId \ {id} : next.peerCxs[other] = s.peerCxs[other]
<1>1. WithStatus(s, c, "active") \in PeerCxSetupState
  BY WithStatusType DEF NominationStatus
<1>2. On(s, c).peerCxId \in PeerCxId
  BY DEF Recorded, On, PeerCxSetupState, Nomination, NoNomination
<1>3. /\ WithStatus(s, c, "active").peerCxs = s.peerCxs
      /\ On(WithStatus(s, c, "active"), c).status = "active"
      /\ \A d \in Corr : On(WithStatus(s, c, "active"), d).peerCxId = On(s, d).peerCxId
      /\ \A d \in Corr \ {c} : On(WithStatus(s, c, "active"), d) = On(s, d)
  BY WithStatusEffect DEF NominationStatus
<1>4. \A d \in Corr : On(Activate(s, c), d) = On(WithStatus(s, c, "active"), d)
  BY ActivateKeeps
<1>5. Activate(s, c).peerCxs =
        [WithStatus(s, c, "active").peerCxs EXCEPT ![On(s, c).peerCxId] = "active"]
  BY <1>1 DEF Activate, PeerCxSetupState
<1>6. s.peerCxs \in [PeerCxId -> {"none", "active", "revoked"}]
  BY DEF PeerCxSetupState
<1>7. QED
  BY <1>2, <1>3, <1>4, <1>5, <1>6

\* An inactive record has no PeerCX yet, because its ID is its own.
LEMMA InactiveHasNone ==
  ASSUME Base, NEW site \in Site, NEW c \in Corr,
         Recorded(store[site], c), ~Active(store[site], c)
  PROVE  store[site].peerCxs[On(store[site], c).peerCxId] = "none"
<1> DEFINE id == On(store[site], c).peerCxId
<1>1. id \in PeerCxId
  BY DEF Base, TypeOK, Recorded, On, PeerCxSetupState, Nomination, NoNomination
<1>2. ASSUME HasPeerCx(store[site], id) PROVE FALSE
  <2>1. PICK d \in Corr : /\ On(store[site], d).status = "active"
                          /\ On(store[site], d).peerCxId = id
    BY <1>1, <1>2 DEF Base, RecordsConsistent
  <2>2. d = c
    BY <2>1 DEF Base, IdNamesOneAgreement, Recorded
  <2>3. QED
    BY <2>1, <2>2 DEF Active
<1>3. QED
  BY <1>2 DEF HasPeerCx

\* Blue's records are recorded, accepted or active; it refuses none.
LEMMA BlueStatuses ==
  ASSUME Base, NEW c \in Corr
  PROVE  On(store["blue"], c).status \in
           {"none", "awaiting-green-approval", "awaiting-blue-confirmation", "active"}
<1>1. BlueTerms(store["blue"])
  BY DEF Base, TermsHeld, HeldBy
<1>2. QED
  BY <1>1 DEF BlueTerms, Recorded, Pending, Approved

-----------------------------------------------------------------------------
(* The five steps that write, each from a copy that is not stale.          *)

LEMMA RecordConsentMoves ==
  ASSUME Base, Inv, NEW b \in Call, RecordConsent(b)
  PROVE  \/ store' = store
         \/ \E c \in Corr : BlueConsents(c)
<1> DEFINE own == store["blue"]
           m == call[b].request
           next == RecordNomination(own, m.corr, m.peerCxId, m.terms)
<1>1. own \in PeerCxSetupState /\ store \in [Site -> PeerCxSetupState]
  BY DEF Base, TypeOK, Site
<1>2. m.corr \in Corr /\ m.peerCxId \in PeerCxId /\ m.terms \in Terms
  <2>1. m \in Message /\ m.kind = "nominate"
    BY DEF Base, TypeOK, ActivationTraced, CallHonest, RecordConsent
  <2>2. QED
    BY <2>1 DEF Message
<1>3. call[b].state = next
  BY DEF Inv, SerialInvariant, NothingStale, CallFresh, RecordConsent, nominatePeerCx
<1>4. store' = [store EXCEPT !["blue"] = next]
  BY <1>3 DEF RecordConsent, Save
<1>5. CASE Recorded(own, m.corr)
  BY <1>1, <1>4, <1>5 DEF RecordNomination
<1>6. CASE ~Recorded(own, m.corr)
  <2>1. /\ next.peerCxs = own.peerCxs
        /\ \A d \in Corr \ {m.corr} : On(next, d) = On(own, d)
        /\ On(next, m.corr).status = "awaiting-green-approval"
        /\ On(own, m.corr).status = "none"
    BY <1>1, <1>2, <1>6 DEF RecordNomination, Recorded, On, PeerCxSetupState
  <2> HIDE DEF next
  <2>2. store'["blue"] = next /\ store'["green"] = store["green"]
    BY <1>1, <1>4 DEF Site
  <2>3. BlueConsents(m.corr)
    BY <2>1, <2>2 DEF BlueConsents, Moves, KeepsPeerCxs, Site
  <2>4. QED
    BY <1>2, <2>3
<1>7. QED
  BY <1>5, <1>6

LEMMA AcceptProposalMoves ==
  ASSUME Base, Inv, NEW b \in Call, AcceptProposal(b)
  PROVE  /\ \/ store' = store
            \/ \E c \in Corr : BlueAccepts(c)
         /\ Approved(store'["blue"], wire[b].corr)
<1> DEFINE own == store["blue"]
           c == wire[b].corr
           next == acceptActivationProposal(own, wire[b])
<1>1. own \in PeerCxSetupState /\ store \in [Site -> PeerCxSetupState]
  BY DEF Base, TypeOK, Site
<1>2. c \in Corr /\ wire[b].kind = "proposal"
  BY DEF Base, TypeOK, Message, AcceptProposal, Arrived
<1>3. call[b].state = own
  BY DEF Inv, SerialInvariant, NothingStale, CallFresh, AcceptProposal
<1>4. Recorded(own, c)
  BY <1>3 DEF AcceptProposal, ProposalAcceptable, SameAgreement, SameVersion
<1>5. store' = [store EXCEPT !["blue"] = next]
  BY <1>3 DEF AcceptProposal, Save
<1>6. store'["blue"] = next /\ store'["green"] = store["green"]
  BY <1>1, <1>5 DEF Site
<1>7. CASE On(own, c).status # "awaiting-green-approval"
  <2>1. store' = store
    BY <1>1, <1>5, <1>7 DEF acceptActivationProposal
  <2>2. Approved(own, c)
    BY <1>2, <1>4, <1>7, BlueStatuses DEF Approved, Recorded
  <2>3. QED
    BY <2>1, <2>2
<1>8. CASE On(own, c).status = "awaiting-green-approval"
  <2>1. next = WithStatus(own, c, "awaiting-blue-confirmation")
    BY <1>8 DEF acceptActivationProposal
  <2>2. /\ \A d \in Corr : On(next, d).peerCxId = On(own, d).peerCxId
        /\ \A d \in Corr \ {c} : On(next, d) = On(own, d)
        /\ On(next, c).status = "awaiting-blue-confirmation"
        /\ next.peerCxs = own.peerCxs
    BY <1>1, <1>2, <1>4, <2>1, WithStatusEffect DEF NominationStatus
  <2>3. Approved(store["green"], c)
    BY <1>2 DEF Inv, SerialInvariant, MessageBacked
  <2> HIDE DEF next
  <2>4. BlueAccepts(c)
    BY <1>2, <1>6, <1>8, <2>2, <2>3 DEF BlueAccepts, Moves, KeepsPeerCxs, Site
  <2>5. Approved(store'["blue"], c)
    BY <1>6, <2>2 DEF Approved
  <2>6. QED
    BY <1>2, <2>4, <2>5
<1>9. QED
  BY <1>7, <1>8

LEMMA ActivateBlueMoves ==
  ASSUME Base, Inv, NEW b \in Call, ActivateBlue(b)
  PROVE  \/ store' = store
         \/ \E c \in Corr : BlueActivates(c)
<1> DEFINE own == store["blue"]
           c == wire[b].corr
           id == wire[b].peerCxId
           next == Activate(own, c)
<1>1. own \in PeerCxSetupState /\ store \in [Site -> PeerCxSetupState]
  BY DEF Base, TypeOK, Site
<1>2. c \in Corr /\ id \in PeerCxId /\ wire[b].kind = "activated"
  BY DEF Base, TypeOK, Message, ActivateBlue, Arrived
<1>3. call[b].state = own
  BY DEF Inv, SerialInvariant, NothingStale, CallFresh, ActivateBlue
<1>4. /\ Recorded(own, c) /\ On(own, c).peerCxId = id
      /\ On(own, c).status # "awaiting-green-approval"
  BY <1>3 DEF ActivateBlue, ReceiptAcceptable
<1>5. store' = [store EXCEPT !["blue"] = activateAfterConfirmation(own, wire[b])]
  BY <1>3 DEF ActivateBlue, Save
<1>6. CASE own.peerCxs[id] # "none"
  BY <1>1, <1>5, <1>6 DEF activateAfterConfirmation
<1>7. CASE own.peerCxs[id] = "none"
  <2>1. store'["blue"] = next /\ store'["green"] = store["green"]
    BY <1>1, <1>5, <1>7 DEF Site, activateAfterConfirmation
  <2>2. /\ \A d \in Corr \ {c} : On(next, d) = On(own, d)
        /\ On(next, c).status = "active" /\ On(next, c).peerCxId = id
        /\ next.peerCxs[id] = "active"
        /\ \A other \in PeerCxId \ {id} : next.peerCxs[other] = own.peerCxs[other]
    BY <1>1, <1>2, <1>4, ActivateWrites
  <2>3. On(own, c).status # "active"
    BY <1>2, <1>4, <1>7 DEF Base, RecordsConsistent, HasPeerCx, Site
  <2>4. On(own, c).status = "awaiting-blue-confirmation"
    BY <1>2, <1>4, <2>3, BlueStatuses DEF Recorded
  <2>5. Active(store["green"], c)
    BY <1>2 DEF Inv, SerialInvariant, MessageBacked
  <2> HIDE DEF next
  <2>6. Moves("blue", c, "awaiting-blue-confirmation", "active")
    BY <1>4, <2>1, <2>2, <2>4 DEF Moves, Site
  <2>7. SetsPeerCx("blue", c, {"none"}, "active")
    BY <1>4, <1>7, <2>1, <2>2 DEF SetsPeerCx
  <2>8. QED
    BY <1>2, <2>5, <2>6, <2>7 DEF BlueActivates
<1>8. QED
  BY <1>6, <1>7

LEMMA CommitHandlerMoves ==
  ASSUME Base, Inv, NEW b \in Call, CommitHandler(b)
  PROVE  /\ \/ store' = store
            \/ \E c \in Corr : GreenRecords(c) \/ GreenActivates(c)
         /\ wire[b].kind = "confirm" => Active(store'["green"], wire[b].corr)
<1> DEFINE own == store["green"]
           m == wire[b]
           c == wire[b].corr
<1>1. own \in PeerCxSetupState /\ store \in [Site -> PeerCxSetupState]
  BY DEF Base, TypeOK, Site
<1>2. store' = [store EXCEPT !["green"] = handler[b].state]
  BY DEF CommitHandler, Save
<1>3. store'["green"] = handler[b].state /\ store'["blue"] = store["blue"]
  BY <1>1, <1>2 DEF Site
<1>4. m.kind \in {"nominate", "confirm"} =>
        c \in Corr /\ m.peerCxId \in PeerCxId /\ m.terms \in Terms
  BY DEF Base, TypeOK, Message
<1>5. MessageBacked(b) /\ HandlerFresh(b) /\ handler[b].busy
  BY DEF Inv, SerialInvariant, NothingStale, CommitHandler
<1>6. CASE m.kind = "nominate" /\ handler[b].state = receivePeerCxNomination(own, m)
  <2> DEFINE next == RecordNomination(own, c, m.peerCxId, m.terms)
  <2>1. handler[b].state = next
    BY <1>6 DEF receivePeerCxNomination
  <2>2. CASE Recorded(own, c)
    BY <1>1, <1>2, <1>6, <2>1, <2>2 DEF RecordNomination
  <2>3. CASE ~Recorded(own, c)
    <3>1. /\ next.peerCxs = own.peerCxs
          /\ \A d \in Corr \ {c} : On(next, d) = On(own, d)
          /\ On(next, c).status = "awaiting-green-approval"
          /\ On(next, c).peerCxId = m.peerCxId
          /\ On(own, c).status = "none"
      BY <1>1, <1>4, <1>6, <2>3 DEF RecordNomination, Recorded, On, PeerCxSetupState
    <3>2. Recorded(store["blue"], c) /\ On(store["blue"], c).peerCxId = m.peerCxId
      BY <1>5, <1>6 DEF MessageBacked
    <3> HIDE DEF next
    <3>3. GreenRecords(c)
      BY <1>3, <2>1, <3>1, <3>2 DEF GreenRecords, Moves, KeepsPeerCxs, Site
    <3>4. QED
      BY <1>4, <1>6, <3>3
  <2>4. QED
    BY <2>2, <2>3
<1>7. CASE /\ m.kind = "confirm"
           /\ SameAgreement(own, m) /\ Approved(own, c)
           /\ handler[b].state = receivePeerCxConfirmation(own, m)
  <2>1. c \in Corr /\ Recorded(own, c)
    BY <1>4, <1>7 DEF SameAgreement, SameVersion
  <2>2. CASE On(own, c).status = "active"
    <3>1. store' = store
      BY <1>1, <1>2, <1>7, <2>2 DEF receivePeerCxConfirmation
    <3>2. QED
      BY <2>2, <3>1 DEF Active
  <2>3. CASE On(own, c).status = "awaiting-blue-confirmation"
    <3> DEFINE next == Activate(own, c)
               id == On(own, c).peerCxId
    <3>1. handler[b].state = next
      BY <1>7, <2>3 DEF receivePeerCxConfirmation
    <3>2. /\ \A d \in Corr \ {c} : On(next, d) = On(own, d)
          /\ On(next, c).status = "active" /\ On(next, c).peerCxId = id
          /\ next.peerCxs[id] = "active"
          /\ \A other \in PeerCxId \ {id} : next.peerCxs[other] = own.peerCxs[other]
      BY <1>1, <2>1, ActivateWrites
    <3>3. own.peerCxs[id] = "none"
      BY <2>1, <2>3, InactiveHasNone DEF Active, Site
    <3> HIDE DEF next
    <3>4. Moves("green", c, "awaiting-blue-confirmation", "active")
      BY <1>3, <2>3, <3>1, <3>2 DEF Moves, Site
    <3>5. SetsPeerCx("green", c, {"none"}, "active")
      BY <1>3, <3>1, <3>2, <3>3 DEF SetsPeerCx
    <3>6. Approved(store["blue"], c)
      BY <1>5, <1>7 DEF MessageBacked
    <3>7. Active(store'["green"], c)
      BY <1>3, <3>1, <3>2 DEF Active
    <3>8. QED
      BY <2>1, <3>4, <3>5, <3>6, <3>7 DEF GreenActivates
  <2>4. QED
    BY <1>7, <2>2, <2>3 DEF Approved
<1>8. QED
  BY <1>5, <1>6, <1>7 DEF HandlerFresh

LEMMA CommitAdminMoves ==
  ASSUME Base, Inv, NEW a \in Admin, CommitAdmin(a)
  PROVE  \E c \in Corr : GreenDecides(c) \/ Revokes(admin[a].site, c)
<1> DEFINE site == admin[a].site
           own == store[site]
           next == admin[a].state
<1>1. site \in Site /\ own \in PeerCxSetupState
      /\ store \in [Site -> PeerCxSetupState]
  BY DEF Base, TypeOK
<1>2. /\ store'[site] = next
      /\ \A other \in Site \ {site} : store'[other] = store[other]
  BY <1>1 DEF CommitAdmin, Save
<1>3. AdminFresh(a) /\ admin[a].busy
  BY DEF Inv, SerialInvariant, NothingStale, CommitAdmin
<1>4. ASSUME site = "green", NEW c \in Corr,
             NEW status \in NominationStatus \ {"active"},
             Pending(own, c), next = WithStatus(own, c, status)
      PROVE  GreenDecides(c)
  <2>1. Recorded(own, c) /\ On(own, c).status = "awaiting-green-approval"
    BY <1>4 DEF Pending, Recorded
  <2>2. /\ \A d \in Corr : On(next, d).peerCxId = On(own, d).peerCxId
        /\ \A d \in Corr \ {c} : On(next, d) = On(own, d)
        /\ On(next, c).status = status
        /\ next.peerCxs = own.peerCxs
    BY <1>1, <1>4, <2>1, WithStatusEffect
  <2> HIDE DEF next
  <2>3. Moves("green", c, "awaiting-green-approval", status)
    BY <1>2, <1>4, <2>1, <2>2 DEF Moves
  <2>4. QED
    BY <1>2, <1>4, <2>2, <2>3 DEF GreenDecides, KeepsPeerCxs
<1>5. ASSUME NEW id \in PeerCxId, HasPeerCx(own, id), next = revokePeerCx(own, id)
      PROVE  \E c \in Corr : Revokes(site, c)
  <2>1. PICK c \in Corr : On(own, c).status = "active" /\ On(own, c).peerCxId = id
    BY <1>1, <1>5 DEF Base, RecordsConsistent
  <2>2. /\ \A d \in Corr : On(next, d) = On(own, d)
        /\ next.peerCxs[id] = "revoked"
        /\ \A other \in PeerCxId \ {id} : next.peerCxs[other] = own.peerCxs[other]
    BY <1>1, <1>5 DEF revokePeerCx, PeerCxSetupState, On
  <2>3. own.peerCxs[id] \in {"active", "revoked"}
    BY <1>1, <1>5 DEF PeerCxSetupState, HasPeerCx
  <2> HIDE DEF next
  <2>4. Revokes(site, c)
    BY <1>2, <2>1, <2>2, <2>3 DEF Revokes, Moves, SetsPeerCx
  <2>5. QED
    BY <2>4
<1>6. QED
  BY <1>3, <1>4, <1>5 DEF AdminFresh

\* Every other step leaves both stores alone.
LEMMA StoreStep ==
  ASSUME Base, Inv, Next
  PROVE  store' = store \/ \E c \in Corr : StoreMoves(c)
<1>1. ASSUME NEW b \in Call, Blue(b)
      PROVE  store' = store \/ \E c \in Corr : StoreMoves(c)
  <2>1. \/ store' = store
        \/ RecordConsent(b) \/ AcceptProposal(b) \/ ActivateBlue(b)
    BY <1>1 DEF Blue, NominateSite, NominationReceived, ConfirmActivation, GiveUp
  <2>2. QED
    BY <2>1, RecordConsentMoves, AcceptProposalMoves, ActivateBlueMoves
       DEF StoreMoves
<1>2. ASSUME NEW b \in Call, Green(b)
      PROVE  store' = store \/ \E c \in Corr : StoreMoves(c)
  <2>1. store' = store \/ CommitHandler(b)
    BY <1>2 DEF Green, ReceiveNomination, ReceivePoll, ReceiveConfirmation
  <2>2. QED
    BY <2>1, CommitHandlerMoves DEF StoreMoves
<1>3. ASSUME NEW a \in Admin, Administrator(a)
      PROVE  store' = store \/ \E c \in Corr : StoreMoves(c)
  <2>1. store' = store \/ CommitAdmin(a)
    BY <1>3 DEF Administrator, DecideNomination, RevokePeerCx, Start
  <2>2. admin[a].site \in Site
    BY DEF Base, TypeOK
  <2>3. QED
    BY <2>1, <2>2, CommitAdminMoves DEF StoreMoves
<1>4. ASSUME Environment PROVE store' = store
  BY <1>4 DEF Environment, AgreementEnds, Lose, KillCall, KillHandler, KillAdmin
<1>5. QED
  BY <1>1, <1>2, <1>3, <1>4 DEF Next

-----------------------------------------------------------------------------
(* What every move of a store keeps.                                       *)

\* Records keep their ID, approvals stand, and what is active stays active.
Climbs ==
  \A site \in Site, d \in Corr :
    /\ Recorded(store[site], d) =>
         /\ Recorded(store'[site], d)
         /\ On(store'[site], d).peerCxId = On(store[site], d).peerCxId
    /\ Approved(store[site], d) => Approved(store'[site], d)
    /\ Active(store[site], d) => Active(store'[site], d)

LEMMA StoreClimbs ==
  ASSUME store' = store \/ \E c \in Corr : StoreMoves(c)
  PROVE  Climbs
<1>1. CASE store' = store
  BY <1>1 DEF Climbs
<1>2. ASSUME NEW site \in Site, NEW c \in Corr, NEW from, NEW to,
             Moves(site, c, from, to),
             from # "none" => to # "none",
             from \in {"awaiting-blue-confirmation", "active"} => to = "active"
      PROVE  Climbs
  <2> SUFFICES ASSUME NEW at \in Site, NEW d \in Corr
               PROVE  /\ Recorded(store[at], d) =>
                           /\ Recorded(store'[at], d)
                           /\ On(store'[at], d).peerCxId = On(store[at], d).peerCxId
                      /\ Approved(store[at], d) => Approved(store'[at], d)
                      /\ Active(store[at], d) => Active(store'[at], d)
    BY DEF Climbs
  <2>1. CASE at # site \/ d # c
    <3>1. On(store'[at], d) = On(store[at], d)
      BY <1>2, <2>1 DEF Moves
    <3>2. QED
      BY <3>1 DEF Recorded, Approved, Active
  <2>2. CASE at = site /\ d = c
    BY <1>2, <2>2 DEF Moves, Recorded, Approved, Active
  <2>3. QED
    BY <2>1, <2>2
<1>3. ASSUME NEW c \in Corr, StoreMoves(c) PROVE Climbs
  <2>1. "blue" \in Site /\ "green" \in Site
    BY DEF Site
  <2>2. PICK site \in Site, from \in AnyStatus, to \in AnyStatus :
          /\ Moves(site, c, from, to)
          /\ from # "none" => to # "none"
          /\ from \in {"awaiting-blue-confirmation", "active"} => to = "active"
    <3>1. CASE BlueConsents(c)
      BY <2>1, <3>1 DEF BlueConsents, AnyStatus, NominationStatus
    <3>2. CASE BlueAccepts(c)
      BY <2>1, <3>2 DEF BlueAccepts, AnyStatus, NominationStatus
    <3>3. CASE BlueActivates(c)
      BY <2>1, <3>3 DEF BlueActivates, AnyStatus, NominationStatus
    <3>4. CASE GreenRecords(c)
      BY <2>1, <3>4 DEF GreenRecords, AnyStatus, NominationStatus
    <3>5. CASE GreenDecides(c)
      BY <2>1, <3>5 DEF GreenDecides, AnyStatus, NominationStatus
    <3>6. CASE GreenActivates(c)
      BY <2>1, <3>6 DEF GreenActivates, AnyStatus, NominationStatus
    <3>7. CASE \E at \in Site : Revokes(at, c)
      BY <3>7 DEF Revokes, AnyStatus, NominationStatus
    <3>8. QED
      BY <1>3, <3>1, <3>2, <3>3, <3>4, <3>5, <3>6, <3>7 DEF StoreMoves
  <2>3. QED
    BY <1>2, <2>2
<1>4. QED
  BY <1>1, <1>3

\* A revoked PeerCX is left revoked.
LEMMA StoreKeepsRevoked ==
  ASSUME TypeOK, store' = store \/ \E c \in Corr : StoreMoves(c),
         NEW site \in Site, NEW id \in PeerCxId, store[site].peerCxs[id] = "revoked"
  PROVE  store'[site].peerCxs[id] = "revoked"
<1>1. ASSUME NEW c \in Corr, NEW at \in Site, NEW from, NEW to,
             Moves(at, c, from, to), at = site => KeepsPeerCxs(at)
      PROVE  store'[site].peerCxs[id] = "revoked"
  BY <1>1 DEF Moves, KeepsPeerCxs
<1>2. ASSUME NEW c \in Corr, NEW at \in Site, NEW from, NEW to, NEW set,
             Moves(at, c, from, to),
             \/ SetsPeerCx(at, c, {"none"}, "active")
             \/ SetsPeerCx(at, c, {"active", "revoked"}, "revoked")
      PROVE  store'[site].peerCxs[id] = "revoked"
  <2>1. CASE at # site
    BY <1>2, <2>1 DEF Moves
  <2>2. CASE at = site
    BY <1>2, <2>2 DEF SetsPeerCx
  <2>3. QED
    BY <2>1, <2>2
<1>3. "blue" \in Site /\ "green" \in Site
  BY DEF Site
<1>4. ASSUME NEW c \in Corr, StoreMoves(c)
      PROVE  store'[site].peerCxs[id] = "revoked"
  <2>1. CASE BlueConsents(c) \/ BlueAccepts(c) \/ GreenRecords(c) \/ GreenDecides(c)
    <3>1. PICK at \in Site, from \in AnyStatus, to \in AnyStatus :
            Moves(at, c, from, to) /\ KeepsPeerCxs(at)
      BY <1>3, <2>1 DEF BlueConsents, BlueAccepts, GreenRecords, GreenDecides,
         AnyStatus, NominationStatus
    <3>2. QED
      BY <1>1, <3>1
  <2>2. CASE BlueActivates(c) \/ GreenActivates(c) \/ \E at \in Site : Revokes(at, c)
    <3>1. PICK at \in Site, from \in AnyStatus, to \in AnyStatus :
            /\ Moves(at, c, from, to)
            /\ \/ SetsPeerCx(at, c, {"none"}, "active")
               \/ SetsPeerCx(at, c, {"active", "revoked"}, "revoked")
      BY <1>3, <2>2 DEF BlueActivates, GreenActivates, Revokes, AnyStatus,
         NominationStatus
    <3>2. QED
      BY <1>2, <3>1
  <2>3. QED
    BY <1>4, <2>1, <2>2 DEF StoreMoves
<1>5. QED
  BY <1>4

\* The rungs go on resting on each other.
LEMMA RungsStep ==
  ASSUME Base, RungsRest, store' = store \/ \E c \in Corr : StoreMoves(c)
  PROVE  RungsRest'
<1>1. CASE store' = store
  BY <1>1 DEF RungsRest
<1>2. ASSUME NEW c \in Corr, StoreMoves(c) PROVE RungsRest'
  <2> DEFINE blue == store["blue"]
             green == store["green"]
  <2>1. Climbs
    BY <1>2, StoreClimbs
  <2> SUFFICES ASSUME NEW d \in Corr
               PROVE  /\ Recorded(store'["green"], d) =>
                           /\ Recorded(store'["blue"], d)
                           /\ On(store'["blue"], d).peerCxId
                                = On(store'["green"], d).peerCxId
                      /\ Approved(store'["blue"], d) => Approved(store'["green"], d)
                      /\ Active(store'["green"], d) => Approved(store'["blue"], d)
                      /\ Active(store'["blue"], d) => Active(store'["green"], d)
    BY DEF RungsRest
  <2>2. /\ Recorded(green, d) =>
             Recorded(blue, d) /\ On(blue, d).peerCxId = On(green, d).peerCxId
        /\ Approved(blue, d) => Approved(green, d)
        /\ Active(green, d) => Approved(blue, d)
        /\ Active(blue, d) => Active(green, d)
    BY DEF RungsRest
  <2>3. CASE /\ On(store'["blue"], d) = On(blue, d)
             /\ On(store'["green"], d) = On(green, d)
    BY <2>2, <2>3 DEF Recorded, Approved, Active
  <2>4. CASE BlueConsents(d)
    BY <2>2, <2>4 DEF BlueConsents, Moves, Site, Recorded, Approved, Active
  <2>5. CASE BlueAccepts(d)
    BY <2>2, <2>5 DEF BlueAccepts, Moves, Site, Recorded, Approved, Active
  <2>6. CASE BlueActivates(d)
    BY <2>2, <2>6 DEF BlueActivates, Moves, Site, Recorded, Approved, Active
  <2>7. CASE GreenRecords(d)
    BY <2>2, <2>7 DEF GreenRecords, Moves, Site, Recorded, Approved, Active
  <2>8. CASE GreenDecides(d)
    <3>1. PICK to \in NominationStatus \ {"active"} :
            Moves("green", d, "awaiting-green-approval", to)
      BY <2>8 DEF GreenDecides
    <3>2. QED
      BY <2>2, <3>1 DEF Moves, Site, Recorded, Approved, Active
  <2>9. CASE GreenActivates(d)
    BY <2>2, <2>9 DEF GreenActivates, Moves, Site, Recorded, Approved, Active
  <2>10. CASE \E site \in Site : Revokes(site, d)
    BY <2>2, <2>10 DEF Revokes, Moves, Site, Recorded, Approved, Active
  <2>11. CASE d # c
    <3>1. \A site \in Site : On(store'[site], d) = On(store[site], d)
      BY <1>2, <2>11 DEF StoreMoves, BlueConsents, BlueAccepts, BlueActivates,
         GreenRecords, GreenDecides, GreenActivates, Revokes, Moves, Site
    <3>2. QED
      BY <2>3, <3>1 DEF Site
  <2>12. QED
    BY <1>2, <2>4, <2>5, <2>6, <2>7, <2>8, <2>9, <2>10, <2>11 DEF StoreMoves
<1>3. QED
  BY <1>1, <1>2

-----------------------------------------------------------------------------
(* Messages.                                                               *)

\* What a message says stays true while the stores only climb.
LEMMA OldMessage ==
  ASSUME TypeOK, Climbs, NEW b \in Call, MessageBacked(b), wire'[b] = wire[b]
  PROVE  MessageBacked(b)'
<1>1. wire[b].kind \in {"nominate", "proposal", "confirm", "activated"}
        => wire[b].corr \in Corr
  BY DEF TypeOK, Message
<1>2. "blue" \in Site /\ "green" \in Site
  BY DEF Site
<1>3. QED
  BY <1>1, <1>2 DEF MessageBacked, Climbs

LEMMA MessagesStep ==
  ASSUME Base, Inv, Next, NEW b \in Call
  PROVE  MessageBacked(b)'
<1>a. TypeOK /\ MessageBacked(b) /\ Climbs
  BY StoreStep, StoreClimbs DEF Base, Inv, SerialInvariant
<1>b. ASSUME wire'[b] = wire[b] PROVE MessageBacked(b)'
  BY <1>a, <1>b, OldMessage
<1>c. ASSUME wire'[b].kind \in {"quiet", "refused", "poll", "received"}
      PROVE  MessageBacked(b)'
  BY <1>c DEF MessageBacked
<1>d. ASSUME NEW x \in Call, NEW m, Send(x, m),
             \/ m.kind \in {"quiet", "refused", "poll", "received"}
             \/ x = b => MessageBacked(b)'
      PROVE  MessageBacked(b)'
  <2>1. wire' = [wire EXCEPT ![x] = m]
    BY <1>d DEF Send
  <2>2. wire'[b] = IF x = b THEN m ELSE wire[b]
    BY <1>a, <2>1 DEF TypeOK
  <2>3. QED
    BY <1>b, <1>c, <1>d, <2>2
<1>1. ASSUME RecordConsent(b) PROVE MessageBacked(b)'
  <2> DEFINE own == store["blue"]
             m == call[b].request
             next == RecordNomination(own, m.corr, m.peerCxId, m.terms)
  <2>1. /\ m.kind = "nominate"
        /\ m.corr \in Corr /\ m.peerCxId \in PeerCxId /\ m.terms \in Terms
    <3>1. m \in Message /\ m.kind = "nominate"
      BY <1>1 DEF Base, TypeOK, ActivationTraced, CallHonest, RecordConsent
    <3>2. QED
      BY <3>1 DEF Message
  <2>2. CallFresh(b) /\ own \in PeerCxSetupState
    BY DEF Inv, SerialInvariant, NothingStale, Base, TypeOK, Site
  <2>3. wire'[b] = m /\ store'["blue"] = next
    BY <1>1, <1>a, <2>2
       DEF RecordConsent, Send, Save, TypeOK, CallFresh, nominatePeerCx, Site
  <2>4. Recorded(next, m.corr) /\ On(next, m.corr).peerCxId = m.peerCxId
    <3>1. CASE Recorded(own, m.corr)
      BY <1>1, <2>2, <3>1 DEF RecordConsent, CallFresh, RecordNomination
    <3>2. CASE ~Recorded(own, m.corr)
      BY <2>1, <2>2, <3>2, RecordedAnew DEF RecordNomination, Recorded, On, PeerCxSetupState
    <3>3. QED
      BY <3>1, <3>2
  <2> HIDE DEF next
  <2>5. QED
    BY <2>1, <2>3, <2>4 DEF MessageBacked
<1>2. ASSUME AcceptProposal(b) PROVE MessageBacked(b)'
  <2>1. /\ wire'[b].kind = "confirm"
        /\ wire'[b].corr = wire[b].corr
    BY <1>2, <1>a DEF AcceptProposal, Send, Envelope, TypeOK
  <2>2. Approved(store'["blue"], wire[b].corr)
    BY <1>2, AcceptProposalMoves
  <2>3. QED
    BY <2>1, <2>2 DEF MessageBacked
<1>3. ASSUME ReceivePoll(b) PROVE MessageBacked(b)'
  <2>1. /\ wire'[b] = proposePeerCxActivation(store["green"], wire[b], ended["green"])
        /\ store' = store
    BY <1>3, <1>a DEF ReceivePoll, Send, TypeOK
  <2>2. \/ wire'[b].kind = "refused"
        \/ /\ wire'[b].kind = "proposal"
           /\ Approved(store["green"], wire'[b].corr)
    BY <2>1 DEF proposePeerCxActivation, Envelope
  <2>3. QED
    BY <2>1, <2>2 DEF MessageBacked
<1>4. ASSUME CommitHandler(b) PROVE MessageBacked(b)'
  <2>1. wire[b].kind = "confirm" => Active(store'["green"], wire[b].corr)
    BY <1>4, CommitHandlerMoves
  <2>2. /\ wire'[b].kind = IF wire[b].kind = "confirm" THEN "activated" ELSE "received"
        /\ wire'[b].corr = wire[b].corr
    BY <1>4, <1>a DEF CommitHandler, Send, TypeOK, Message
  <2>3. QED
    BY <2>1, <2>2 DEF MessageBacked
<1>5. Quiet.kind = "quiet"
  BY DEF Quiet, Envelope
<1>6. ASSUME NEW x \in Call, Blue(x) PROVE MessageBacked(b)'
  <2>1. CASE \E c \in Corr, terms \in Terms : NominateSite(x, c, terms)
    BY <1>b, <2>1 DEF NominateSite
  <2>2. CASE RecordConsent(x)
    BY <1>1, <1>d, <2>2 DEF RecordConsent
  <2>3. CASE NominationReceived(x) \/ ActivateBlue(x) \/ GiveUp(x)
    BY <1>5, <1>d, <2>3 DEF NominationReceived, ActivateBlue, GiveUp
  <2>4. CASE \E c \in Corr : ConfirmActivation(x, c)
    <3>1. PICK m : Send(x, m) /\ m.kind = "poll"
      BY <2>4 DEF ConfirmActivation, Envelope
    <3>2. QED
      BY <1>d, <3>1
  <2>5. CASE AcceptProposal(x)
    <3>1. \E m : Send(x, m)
      BY <2>5 DEF AcceptProposal
    <3>2. QED
      BY <1>2, <1>d, <2>5, <3>1
  <2>6. QED
    BY <1>6, <2>1, <2>2, <2>3, <2>4, <2>5 DEF Blue
<1>7. ASSUME NEW x \in Call, Green(x) PROVE MessageBacked(b)'
  <2>1. CASE ReceiveNomination(x) \/ ReceiveConfirmation(x)
    <3>1. wire' = wire \/ Refuse(x)
      BY <2>1 DEF ReceiveNomination, ReceiveConfirmation, Handle
    <3>2. CASE Refuse(x)
      <4>1. PICK m : Send(x, m) /\ m.kind = "refused"
        BY <3>2 DEF Refuse, Envelope
      <4>2. QED
        BY <1>d, <4>1
    <3>3. QED
      BY <1>b, <3>1, <3>2
  <2>2. CASE ReceivePoll(x)
    <3>1. \E m : Send(x, m)
      BY <2>2 DEF ReceivePoll
    <3>2. QED
      BY <1>3, <1>d, <2>2, <3>1
  <2>3. CASE CommitHandler(x)
    <3>1. \E m : Send(x, m)
      BY <2>3 DEF CommitHandler
    <3>2. QED
      BY <1>4, <1>d, <2>3, <3>1
  <2>4. QED
    BY <1>7, <2>1, <2>2, <2>3 DEF Green
<1>8. ASSUME NEW a \in Admin, Administrator(a) PROVE MessageBacked(b)'
  BY <1>8, <1>b DEF Administrator, DecideNomination, RevokePeerCx, CommitAdmin, Start
<1>9. CASE Environment
  <2>1. ASSUME NEW x \in Call, Lose(x) \/ KillHandler(x) PROVE MessageBacked(b)'
    BY <2>1, <1>5, <1>d DEF Lose, KillHandler
  <2>2. QED
    BY <1>9, <1>b, <2>1 DEF Environment, AgreementEnds, KillCall, KillAdmin
<1>10. QED
  BY <1>6, <1>7, <1>8, <1>9 DEF Next

-----------------------------------------------------------------------------
(* Copies.                                                                 *)

\* A step of one of Blue's slots makes no copy stale: it writes only if it is
\* the writer.
LEMMA BlueStaysFresh ==
  ASSUME TypeOK, OneWriterPerTenant, NothingStale, NEW b \in Call,
         \A x \in Call \ {b} : call'[x] = call[x] /\ wire'[x] = wire[x],
         UNCHANGED <<handler, admin>>,
         handler[b].busy => wire'[b] = wire[b],
         store'["green"] = store["green"],
         store'["blue"] = store["blue"] \/ call[b].step \in Writing,
         CallFresh(b)'
  PROVE  NothingStale'
<1>1. ASSUME NEW x \in Call \ {b} PROVE CallFresh(x)'
  <2>1. call[x].step \notin Writing \/ store'["blue"] = store["blue"]
    BY SoleCall
  <2>2. CallFresh(x) /\ call'[x] = call[x]
    BY DEF NothingStale
  <2>3. QED
    BY <2>1, <2>2 DEF CallFresh, Writing
<1>2. ASSUME NEW x \in Call PROVE HandlerFresh(x)'
  <2>1. HandlerFresh(x) /\ (handler[x].busy => wire'[x] = wire[x])
    BY DEF NothingStale
  <2>2. QED
    BY <2>1 DEF HandlerFresh
<1>3. ASSUME NEW a \in Admin PROVE AdminFresh(a)'
  <2>1. AdminFresh(a)
    BY DEF NothingStale
  <2>2. admin[a].busy => store'[admin[a].site] = store[admin[a].site]
    BY SoleCall DEF TypeOK, Site
  <2>3. QED
    BY <2>1, <2>2 DEF AdminFresh
<1>4. QED
  BY <1>1, <1>2, <1>3 DEF NothingStale

\* The same for a step of one of Green's handlers.
LEMMA GreenStaysFresh ==
  ASSUME TypeOK, OneWriterPerTenant, NothingStale, NEW b \in Call,
         \A x \in Call \ {b} : handler'[x] = handler[x] /\ wire'[x] = wire[x],
         UNCHANGED <<call, admin>>,
         store'["blue"] = store["blue"],
         store'["green"] = store["green"] \/ handler[b].busy,
         HandlerFresh(b)'
  PROVE  NothingStale'
<1>1. ASSUME NEW x \in Call PROVE CallFresh(x)'
  BY DEF NothingStale, CallFresh
<1>2. ASSUME NEW x \in Call \ {b} PROVE HandlerFresh(x)'
  <2>1. HandlerFresh(x)
    BY DEF NothingStale
  <2>2. ~handler[x].busy \/ store'["green"] = store["green"]
    BY SoleHandler
  <2>3. QED
    BY <2>1, <2>2 DEF HandlerFresh
<1>3. ASSUME NEW a \in Admin PROVE AdminFresh(a)'
  <2>1. AdminFresh(a)
    BY DEF NothingStale
  <2>2. admin[a].busy => store'[admin[a].site] = store[admin[a].site]
    BY SoleHandler DEF TypeOK, Site
  <2>3. QED
    BY <2>1, <2>2 DEF AdminFresh
<1>4. QED
  BY <1>1, <1>2, <1>3 DEF NothingStale

\* And for a step of an administrator's invocation, which writes at its site.
LEMMA AdminStaysFresh ==
  ASSUME TypeOK, OneWriterPerTenant, NothingStale, NEW a \in Admin,
         \A x \in Admin \ {a} : admin'[x] = admin[x],
         UNCHANGED <<call, wire, handler>>,
         \/ store' = store
         \/ /\ admin[a].busy
            /\ \A site \in Site \ {admin[a].site} : store'[site] = store[site],
         AdminFresh(a)'
  PROVE  NothingStale'
<1>1. ASSUME NEW x \in Call PROVE CallFresh(x)'
  <2>1. CallFresh(x)
    BY DEF NothingStale
  <2>2. call[x].step \notin Writing \/ store'["blue"] = store["blue"]
    BY SoleAdmin DEF Site
  <2>3. QED
    BY <2>1, <2>2 DEF CallFresh, Writing
<1>2. ASSUME NEW x \in Call PROVE HandlerFresh(x)'
  <2>1. HandlerFresh(x)
    BY DEF NothingStale
  <2>2. ~handler[x].busy \/ store'["green"] = store["green"]
    BY SoleAdmin DEF Site
  <2>3. QED
    BY <2>1, <2>2 DEF HandlerFresh
<1>3. ASSUME NEW x \in Admin \ {a} PROVE AdminFresh(x)'
  <2>1. AdminFresh(x) /\ admin'[x] = admin[x]
    BY DEF NothingStale
  <2>2. admin[x].busy => store'[admin[x].site] = store[admin[x].site]
    BY SoleAdmin DEF TypeOK
  <2>3. QED
    BY <2>1, <2>2 DEF AdminFresh
<1>4. QED
  BY <1>1, <1>2, <1>3 DEF NothingStale

LEMMA BlueFresh ==
  ASSUME Base, Inv, NEW b \in Call, Blue(b)
  PROVE  NothingStale'
<1>a. /\ TypeOK /\ OneWriterPerTenant /\ NothingStale
      /\ store \in [Site -> PeerCxSetupState]
      /\ store["blue"] \in PeerCxSetupState
  BY DEF Base, Inv, SerialInvariant, TypeOK, Site
<1>b. call[b].step = "nominating" => ~handler[b].busy
  BY DEF Base, ActivationTraced, CallHonest
<1>1. ASSUME NEW c \in Corr, NEW terms \in Terms, NominateSite(b, c, terms)
      PROVE  NothingStale'
  <2> DEFINE own == store["blue"]
  <2>1. PICK id \in PeerCxId :
          /\ Recorded(own, c) => id = On(own, c).peerCxId
          /\ call' = [call EXCEPT ![b] =
               [step |-> "nominating",
                state |-> RecordNomination(own, c, id, terms),
                request |-> Envelope("nominate", c, id, terms)]]
    BY <1>1, <1>a, NominateStep
  <2>2. UNCHANGED <<store, wire, handler, admin>>
    BY <1>1 DEF NominateSite
  <2>3. CallFresh(b)'
    BY <1>a, <2>1, <2>2 DEF CallFresh, TypeOK, Envelope, nominatePeerCx
  <2>4. \A x \in Call \ {b} : call'[x] = call[x]
    BY <1>a, <2>1 DEF TypeOK
  <2>5. QED
    BY <1>a, <2>2, <2>3, <2>4, BlueStaysFresh
<1>2. CASE RecordConsent(b) \/ ActivateBlue(b)
  <2>1. /\ \A x \in Call \ {b} : call'[x] = call[x] /\ wire'[x] = wire[x]
        /\ UNCHANGED <<handler, admin>>
        /\ store'["green"] = store["green"]
        /\ ~handler[b].busy /\ call[b].step \in Writing
    BY <1>2, <1>a, <1>b DEF RecordConsent, ActivateBlue, Send, Save, Arrived, TypeOK,
       Site, Writing
  <2>2. call'[b].step \in {"awaiting-receipt", "idle"}
    BY <1>2, <1>a DEF RecordConsent, ActivateBlue, IdleCall, TypeOK
  <2>3. CallFresh(b)'
    BY <2>2 DEF CallFresh
  <2>4. QED
    BY <1>a, <2>1, <2>3, BlueStaysFresh
<1>3. CASE NominationReceived(b) \/ GiveUp(b)
  <2>1. /\ \A x \in Call \ {b} : call'[x] = call[x] /\ wire'[x] = wire[x]
        /\ UNCHANGED <<store, handler, admin>>
        /\ ~handler[b].busy
    BY <1>3, <1>a DEF NominationReceived, GiveUp, Send, Arrived, TypeOK
  <2>2. call'[b].step = "idle"
    BY <1>3, <1>a DEF NominationReceived, GiveUp, IdleCall, TypeOK
  <2>3. CallFresh(b)'
    BY <2>2 DEF CallFresh
  <2>4. QED
    BY <1>a, <2>1, <2>3, BlueStaysFresh
<1>4. ASSUME NEW c \in Corr, ConfirmActivation(b, c) PROVE NothingStale'
  <2>1. /\ \A x \in Call \ {b} : call'[x] = call[x] /\ wire'[x] = wire[x]
        /\ UNCHANGED <<store, handler, admin>>
        /\ ~handler[b].busy
    BY <1>4, <1>a DEF ConfirmActivation, Send, Free, TypeOK
  <2>2. call'[b].step = "polling" /\ call'[b].state = store["blue"]
    BY <1>4, <1>a DEF ConfirmActivation, IdleCall, TypeOK
  <2>3. CallFresh(b)'
    BY <2>1, <2>2 DEF CallFresh
  <2>4. QED
    BY <1>a, <2>1, <2>3, BlueStaysFresh
<1>5. CASE AcceptProposal(b)
  <2> DEFINE next == acceptActivationProposal(call[b].state, wire[b])
  <2>1. /\ \A x \in Call \ {b} : call'[x] = call[x] /\ wire'[x] = wire[x]
        /\ UNCHANGED <<handler, admin>>
        /\ store' = [store EXCEPT !["blue"] = next]
        /\ ~handler[b].busy /\ call[b].step \in Writing
    BY <1>5, <1>a DEF AcceptProposal, Send, Save, Arrived, TypeOK, Writing
  <2>2. call'[b].step = "confirming" /\ call'[b].state = next
    BY <1>5, <1>a DEF AcceptProposal, IdleCall, TypeOK
  <2> HIDE DEF next
  <2>3. store'["blue"] = next /\ store'["green"] = store["green"]
    BY <1>a, <2>1 DEF Site
  <2>4. CallFresh(b)'
    BY <2>2, <2>3 DEF CallFresh
  <2>5. QED
    BY <1>a, <2>1, <2>3, <2>4, BlueStaysFresh
<1>6. QED
  BY <1>1, <1>2, <1>3, <1>4, <1>5 DEF Blue

LEMMA GreenFresh ==
  ASSUME Base, Inv, NEW b \in Call, Green(b)
  PROVE  NothingStale'
<1>a. /\ TypeOK /\ OneWriterPerTenant /\ NothingStale
      /\ store \in [Site -> PeerCxSetupState]
  BY DEF Base, Inv, SerialInvariant, TypeOK
<1>b. /\ UNCHANGED <<call, admin>>
      /\ \A x \in Call \ {b} : handler'[x] = handler[x] /\ wire'[x] = wire[x]
  BY <1>a DEF Green, ReceiveNomination, ReceivePoll, ReceiveConfirmation,
     CommitHandler, Refuse, Handle, Send, TypeOK
<1>1. CASE ReceiveNomination(b) \/ ReceiveConfirmation(b)
  <2>1. store' = store /\ ~handler[b].busy
    BY <1>1 DEF ReceiveNomination, ReceiveConfirmation, Arrived
  <2>2. CASE Refuse(b)
    <3>1. HandlerFresh(b)'
      BY <2>1, <2>2 DEF Refuse, HandlerFresh
    <3>2. QED
      BY <1>a, <1>b, <2>1, <3>1, GreenStaysFresh
  <2>3. CASE /\ wire[b].kind = "nominate"
             /\ Handle(b, receivePeerCxNomination(store["green"], wire[b]))
    <3>1. HandlerFresh(b)'
      BY <1>a, <2>1, <2>3 DEF Handle, HandlerFresh, TypeOK
    <3>2. QED
      BY <1>a, <1>b, <2>1, <3>1, GreenStaysFresh
  <2>4. CASE /\ wire[b].kind = "confirm"
             /\ ConfirmationAcceptable(store["green"], wire[b], ended["green"])
             /\ Handle(b, receivePeerCxConfirmation(store["green"], wire[b]))
    <3>1. HandlerFresh(b)'
      BY <1>a, <2>1, <2>4 DEF Handle, HandlerFresh, ConfirmationAcceptable, TypeOK
    <3>2. QED
      BY <1>a, <1>b, <2>1, <3>1, GreenStaysFresh
  <2>5. QED
    BY <1>1, <2>2, <2>3, <2>4 DEF ReceiveNomination, ReceiveConfirmation, Arrived
<1>2. CASE ReceivePoll(b)
  <2>1. UNCHANGED <<store, handler>> /\ ~handler[b].busy
    BY <1>2 DEF ReceivePoll, Arrived
  <2>2. HandlerFresh(b)'
    BY <2>1 DEF HandlerFresh
  <2>3. QED
    BY <1>a, <1>b, <2>1, <2>2, GreenStaysFresh
<1>3. CASE CommitHandler(b)
  <2>1. /\ store'["blue"] = store["blue"] /\ handler[b].busy
        /\ handler'[b].busy = FALSE
    BY <1>3, <1>a DEF CommitHandler, Save, IdleHandler, TypeOK, Site
  <2>2. HandlerFresh(b)'
    BY <2>1 DEF HandlerFresh
  <2>3. QED
    BY <1>a, <1>b, <2>1, <2>2, GreenStaysFresh
<1>4. QED
  BY <1>1, <1>2, <1>3 DEF Green

LEMMA AdministratorFresh ==
  ASSUME Base, Inv, NEW a \in Admin, Administrator(a)
  PROVE  NothingStale'
<1>a. /\ TypeOK /\ OneWriterPerTenant /\ NothingStale
      /\ store \in [Site -> PeerCxSetupState]
  BY DEF Base, Inv, SerialInvariant, TypeOK
<1>b. /\ UNCHANGED <<call, wire, handler>>
      /\ \A x \in Admin \ {a} : admin'[x] = admin[x]
  BY <1>a DEF Administrator, DecideNomination, RevokePeerCx, CommitAdmin, Start,
     TypeOK
<1>1. ASSUME NEW c \in Corr,
             NEW decision \in {"approve", "reject", "leave-pending"},
             NEW reviewed \in BOOLEAN,
             DecideNomination(a, c, decision, reviewed)
      PROVE  NothingStale'
  <2> DEFINE status == DecidedStatus(decision, reviewed)
  <2>1. status \in NominationStatus \ {"active"}
    BY DEF DecidedStatus, NominationStatus
  <2>2. /\ store' = store /\ Pending(store["green"], c)
        /\ admin'[a] = [busy |-> TRUE, site |-> "green",
                        state |-> WithStatus(store["green"], c, status)]
    BY <1>1, <1>a DEF DecideNomination, Start, decidePeerCxNomination, TypeOK
  <2> HIDE DEF status
  <2>3. AdminFresh(a)'
    BY <2>1, <2>2 DEF AdminFresh
  <2>4. QED
    BY <1>a, <1>b, <2>2, <2>3, AdminStaysFresh
<1>2. ASSUME NEW site \in Site, NEW id \in PeerCxId, RevokePeerCx(a, site, id)
      PROVE  NothingStale'
  <2>1. /\ store' = store /\ HasPeerCx(store[site], id)
        /\ admin'[a] = [busy |-> TRUE, site |-> site,
                        state |-> revokePeerCx(store[site], id)]
    BY <1>2, <1>a DEF RevokePeerCx, Start, TypeOK
  <2>2. AdminFresh(a)'
    BY <2>1 DEF AdminFresh
  <2>3. QED
    BY <1>a, <1>b, <2>1, <2>2, AdminStaysFresh
<1>3. CASE CommitAdmin(a)
  <2>1. /\ admin[a].busy /\ admin'[a].busy = FALSE
        /\ \A site \in Site \ {admin[a].site} : store'[site] = store[site]
    BY <1>3, <1>a DEF CommitAdmin, Save, IdleAdmin, TypeOK
  <2>2. AdminFresh(a)'
    BY <2>1 DEF AdminFresh
  <2>3. QED
    BY <1>a, <1>b, <2>1, <2>2, AdminStaysFresh
<1>4. QED
  BY <1>1, <1>2, <1>3 DEF Administrator

LEMMA EnvironmentFresh ==
  ASSUME Base, Inv, Environment
  PROVE  NothingStale'
<1>a. TypeOK /\ OneWriterPerTenant /\ NothingStale
  BY DEF Base, Inv, SerialInvariant
<1>1. ASSUME NEW site \in Site, NEW instant \in EndInstant, AgreementEnds(site, instant)
      PROVE  NothingStale'
  BY <1>1, <1>a DEF AgreementEnds, NothingStale, CallFresh, HandlerFresh, AdminFresh
<1>2. ASSUME NEW b \in Call, Lose(b) PROVE NothingStale'
  <2>1. /\ UNCHANGED <<store, call, handler, admin>> /\ ~handler[b].busy
        /\ \A x \in Call \ {b} : wire'[x] = wire[x]
    BY <1>2, <1>a DEF Lose, Send, TypeOK
  <2>2. CallFresh(b)'
    BY <1>a, <2>1 DEF NothingStale, CallFresh
  <2>3. QED
    BY <1>a, <2>1, <2>2, BlueStaysFresh
<1>3. ASSUME NEW b \in Call, KillCall(b) PROVE NothingStale'
  <2>1. /\ UNCHANGED <<store, wire, handler, admin>> /\ call'[b].step = "idle"
        /\ \A x \in Call \ {b} : call'[x] = call[x]
    BY <1>3, <1>a DEF KillCall, IdleCall, TypeOK
  <2>2. CallFresh(b)'
    BY <2>1 DEF CallFresh
  <2>3. QED
    BY <1>a, <2>1, <2>2, BlueStaysFresh
<1>4. ASSUME NEW b \in Call, KillHandler(b) PROVE NothingStale'
  <2>1. /\ UNCHANGED <<store, call, admin>> /\ handler'[b].busy = FALSE
        /\ \A x \in Call \ {b} : wire'[x] = wire[x] /\ handler'[x] = handler[x]
    BY <1>4, <1>a DEF KillHandler, Send, IdleHandler, TypeOK
  <2>2. HandlerFresh(b)'
    BY <2>1 DEF HandlerFresh
  <2>3. QED
    BY <1>a, <2>1, <2>2, GreenStaysFresh
<1>5. ASSUME NEW a \in Admin, KillAdmin(a) PROVE NothingStale'
  <2>1. /\ UNCHANGED <<store, call, wire, handler>> /\ admin'[a].busy = FALSE
        /\ \A x \in Admin \ {a} : admin'[x] = admin[x]
    BY <1>5, <1>a DEF KillAdmin, IdleAdmin, TypeOK
  <2>2. AdminFresh(a)'
    BY <2>1 DEF AdminFresh
  <2>3. QED
    BY <1>a, <2>1, <2>2, AdminStaysFresh
<1>6. QED
  BY <1>1, <1>2, <1>3, <1>4, <1>5 DEF Environment

-----------------------------------------------------------------------------
(* The invariant.                                                          *)

LEMMA InitInv == Init => Inv
<1> SUFFICES ASSUME Init PROVE Inv
  OBVIOUS
<1>1. /\ \A b \in Call : /\ call[b].step = "idle" /\ wire[b].kind = "quiet"
                         /\ ~handler[b].busy
      /\ \A a \in Admin : ~admin[a].busy
      /\ store["blue"] = emptyState /\ store["green"] = emptyState
  BY DEF Init, IdleCall, IdleHandler, IdleAdmin, Quiet, Envelope, Site
<1>2. OneWriterPerTenant
  BY <1>1 DEF OneWriterPerTenant
<1>3. NothingStale
  BY <1>1 DEF NothingStale, CallFresh, HandlerFresh, AdminFresh
<1>4. \A c \in Corr : ~Recorded(emptyState, c) /\ ~Approved(emptyState, c)
                      /\ ~Active(emptyState, c)
  BY DEF Recorded, Approved, Active, On, emptyState, NoNomination
<1>5. RungsRest /\ \A b \in Call : MessageBacked(b)
  BY <1>1, <1>4 DEF RungsRest, MessageBacked
<1>6. QED
  BY <1>2, <1>3, <1>5 DEF Inv, SerialInvariant

LEMMA StepInv == Base /\ Inv /\ [SerialNext]_vars => Inv'
<1> SUFFICES ASSUME Base, Inv, [SerialNext]_vars PROVE Inv'
  OBVIOUS
<1>1. CASE UNCHANGED vars
  <2>1. OneWriterPerTenant'
    BY <1>1 DEF vars, Inv, OneWriterPerTenant
  <2>2. NothingStale'
    BY <1>1 DEF vars, Inv, SerialInvariant, NothingStale, CallFresh, HandlerFresh,
       AdminFresh
  <2>3. RungsRest' /\ \A b \in Call : MessageBacked(b)'
    BY <1>1 DEF vars, Inv, SerialInvariant, RungsRest, MessageBacked
  <2>4. QED
    BY <2>1, <2>2, <2>3 DEF Inv, SerialInvariant
<1>2. CASE SerialNext
  <2>1. Next /\ OneWriterPerTenant'
    BY <1>2 DEF SerialNext
  <2>2. NothingStale'
    BY <2>1, BlueFresh, GreenFresh, AdministratorFresh, EnvironmentFresh DEF Next
  <2>3. RungsRest'
    BY <2>1, StoreStep, RungsStep DEF Inv, SerialInvariant
  <2>4. \A b \in Call : MessageBacked(b)'
    BY <2>1, MessagesStep
  <2>5. QED
    BY <2>1, <2>2, <2>3, <2>4 DEF Inv, SerialInvariant
<1>3. QED
  BY <1>1, <1>2

LEMMA SerialInductive == SerialSpec => [](Base /\ Inv)
<1>1. SerialSpec => Init /\ [][SerialNext]_vars
  BY DEF SerialSpec
<1>2. QED
  BY <1>1, BaseHolds, InitInv, StepInv, PTL

\* With one writer per tenant no copy is ever stale, the rungs of the tenants
\* rest on each other, and no message outlives what it says.
THEOREM NothingStaleSerially == SerialSpec => []SerialInvariant
<1>1. Base /\ Inv => SerialInvariant
  BY DEF Inv
<1>2. QED
  BY <1>1, SerialInductive, PTL

\* Blue and Green never record different PeerCX IDs for one invitation while
\* the invocations of one tenant do not overlap.
THEOREM TenantsAgree == SerialSpec => []TenantsAgreeOnId
<1>1. Base /\ Inv => TenantsAgreeOnId
  BY DEF Inv, SerialInvariant, RungsRest, TenantsAgreeOnId
<1>2. QED
  BY <1>1, SerialInductive, PTL

\* As long as the agreement lasts, a tenant left behind can always be brought
\* along by asking again, while the invocations of one tenant do not overlap:
\* whatever was lost, late or killed before.
THEOREM AskingAgainHelps == SerialSpec => []NeverStranded
<1>1. Base /\ Inv => NeverStranded
  <2> DEFINE blue == store["blue"]
             green == store["green"]
  <2> SUFFICES ASSUME Base, Inv, NEW c \in Corr, Active(green, c),
                      InvitedTerms[c].expiresAt \notin ended["blue"] \cup ended["green"]
               PROVE
        LET poll == Envelope("poll", c, On(blue, c).peerCxId, On(blue, c).terms)
            proposal == proposePeerCxActivation(green, poll, ended["green"])
            next == acceptActivationProposal(blue, proposal)
            confirmation ==
              Envelope("confirm", c, proposal.peerCxId, On(blue, c).terms)
            receipt == [confirmation EXCEPT !.kind = "activated"]
        IN /\ proposal.kind = "proposal"
           /\ ProposalAcceptable(blue, proposal, ended["blue"])
           /\ ConfirmationAcceptable(green, confirmation, ended["green"])
           /\ receivePeerCxConfirmation(green, confirmation) = green
           /\ ReceiptAcceptable(next, receipt)
           /\ Active(activateAfterConfirmation(next, receipt), c)
    BY DEF NeverStranded
  <2> DEFINE id == On(blue, c).peerCxId
             poll == Envelope("poll", c, id, On(blue, c).terms)
             proposal == proposePeerCxActivation(green, poll, ended["green"])
             confirmation == Envelope("confirm", c, proposal.peerCxId, On(blue, c).terms)
             receipt == [confirmation EXCEPT !.kind = "activated"]
  <2>1. /\ Recorded(green, c) /\ Approved(green, c)
        /\ Recorded(blue, c) /\ Approved(blue, c)
        /\ On(green, c).peerCxId = id
    BY DEF Inv, SerialInvariant, RungsRest, Active, Recorded, Approved
  <2>2. AsInvited(On(blue, c).terms, c) /\ AsInvited(On(green, c).terms, c)
    BY <2>1 DEF Base, TermsHeld, HeldBy, BlueTerms, GreenTerms, Pending, Approved
  <2>3. blue \in PeerCxSetupState
    BY DEF Base, TypeOK, Site
  <2>4. proposal = Envelope("proposal", c, id, On(green, c).terms)
    BY <2>1, <2>2 DEF proposePeerCxActivation, SameVersion, Ended, AsInvited, Envelope
  <2>5. /\ proposal.kind = "proposal" /\ proposal.corr = c
        /\ proposal.peerCxId = id /\ proposal.terms = On(green, c).terms
        /\ confirmation.corr = c /\ confirmation.peerCxId = id
        /\ confirmation.terms = On(blue, c).terms
        /\ receipt.corr = c /\ receipt.peerCxId = id
    BY <2>4 DEF Envelope
  <2> HIDE DEF proposal, confirmation, receipt
  <2>6. ProposalAcceptable(blue, proposal, ended["blue"])
    BY <2>1, <2>2, <2>5 DEF ProposalAcceptable, SameAgreement, SameVersion, Ended,
       AsInvited
  <2>7. ConfirmationAcceptable(green, confirmation, ended["green"])
    BY <2>1, <2>2, <2>5 DEF ConfirmationAcceptable, SameAgreement, SameVersion,
       Ended, AsInvited
  <2>8. receivePeerCxConfirmation(green, confirmation) = green
    BY <2>5 DEF receivePeerCxConfirmation, Active
  <2>9. acceptActivationProposal(blue, proposal) = blue
    BY <2>1, <2>5 DEF acceptActivationProposal, Approved
  <2>10. ReceiptAcceptable(blue, receipt)
    BY <2>1, <2>5 DEF ReceiptAcceptable, Approved
  <2>11. Active(activateAfterConfirmation(blue, receipt), c)
    <3>1. CASE ~HasPeerCx(blue, id)
      BY <2>1, <2>3, <2>5, <3>1, ActivateWrites DEF activateAfterConfirmation,
         HasPeerCx, Active
    <3>2. CASE HasPeerCx(blue, id)
      <4>1. id \in PeerCxId /\ "blue" \in Site
        BY <2>1, <2>3 DEF PeerCxSetupState, Nomination, NoNomination, On, Recorded, Site
      <4>2. PICK d \in Corr : On(blue, d).status = "active" /\ On(blue, d).peerCxId = id
        BY <3>2, <4>1 DEF Base, RecordsConsistent
      <4>3. d = c
        BY <2>1, <4>1, <4>2 DEF Base, IdNamesOneAgreement, Recorded
      <4>4. QED
        BY <2>5, <3>2, <4>2, <4>3 DEF activateAfterConfirmation, HasPeerCx, Active
    <3>3. QED
      BY <3>1, <3>2
  <2>12. QED
    BY <2>5, <2>6, <2>7, <2>8, <2>9, <2>10, <2>11 DEF proposal, confirmation, receipt
<1>2. QED
  BY <1>1, SerialInductive, PTL

\* A revoked PeerCX is never live again and never disappears while the
\* invocations of one tenant do not overlap.
THEOREM RevokedForGood == SerialSpec => RevocationIsFinal
<1> DEFINE Kept == \A site \in Site, id \in PeerCxId :
                     store[site].peerCxs[id] = "revoked"
                       => store'[site].peerCxs[id] = "revoked"
<1>1. Base /\ Inv /\ [SerialNext]_vars => [Kept]_vars
  <2> SUFFICES ASSUME Base, Inv, SerialNext PROVE Kept
    BY DEF SerialNext
  <2>1. TypeOK /\ (store' = store \/ \E c \in Corr : StoreMoves(c))
    BY StoreStep DEF Base, SerialNext
  <2>2. QED
    BY <2>1, StoreKeepsRevoked
<1>2. SerialSpec => [][SerialNext]_vars
  BY DEF SerialSpec
<1>3. SerialSpec => [][Kept]_vars
  BY <1>1, <1>2, SerialInductive, PTL
<1>4. QED
  BY <1>3 DEF RevocationIsFinal

-----------------------------------------------------------------------------
(* The handshake implements the ladder.                                    *)

\* A move of Blue's at one correlation moves one rung, and no other.
LEMMA BlueRungMoves ==
  ASSUME NEW c \in Corr, NEW from, NEW to,
         \A d \in Corr \ {c} : BlueStage(d)' = BlueStage(d),
         \A d \in Corr : GreenStage(d)' = GreenStage(d),
         BlueStage(c) = from, BlueStage(c)' = to
  PROVE  Agreement!BlueMoves(c, from, to)
  BY DEF Agreement!BlueMoves

LEMMA GreenRungMoves ==
  ASSUME NEW c \in Corr, NEW from, NEW to,
         \A d \in Corr \ {c} : GreenStage(d)' = GreenStage(d),
         \A d \in Corr : BlueStage(d)' = BlueStage(d),
         GreenStage(c) = from, GreenStage(c)' = to
  PROVE  Agreement!GreenMoves(c, from, to)
  BY DEF Agreement!GreenMoves

\* A rung depends on its record and the PeerCX that the record names.
SameRung(site, d) ==
  /\ On(store'[site], d) = On(store[site], d)
  /\ Active(store[site], d) =>
       store'[site].peerCxs[On(store[site], d).peerCxId]
         = store[site].peerCxs[On(store[site], d).peerCxId]

LEMMA RungsKept ==
  ASSUME NEW d
  PROVE  /\ SameRung("blue", d) => BlueStage(d)' = BlueStage(d)
         /\ SameRung("green", d) => GreenStage(d)' = GreenStage(d)
<1>1. ASSUME SameRung("blue", d) PROVE BlueStage(d)' = BlueStage(d)
  BY <1>1 DEF SameRung, Active, BlueStage
<1>2. ASSUME SameRung("green", d) PROVE GreenStage(d)' = GreenStage(d)
  BY <1>2 DEF SameRung, Active, GreenStage
<1>3. QED
  BY <1>1, <1>2

\* No two active records name one PeerCX, so setting one moves one rung.
LEMMA OtherRungsKept ==
  ASSUME Base, NEW site \in Site, NEW c \in Corr, NEW from, NEW to,
         Moves(site, c, from, to),
         \/ KeepsPeerCxs(site)
         \/ from # "none" /\ \E old, new : SetsPeerCx(site, c, old, new)
  PROVE  /\ \A d \in Corr \ {c} : SameRung(site, d)
         /\ \A at \in Site \ {site}, d \in Corr : SameRung(at, d)
<1>1. ASSUME NEW d \in Corr \ {c} PROVE SameRung(site, d)
  <2>1. On(store'[site], d) = On(store[site], d)
    BY DEF Moves
  <2>2. CASE KeepsPeerCxs(site)
    BY <2>1, <2>2 DEF SameRung, KeepsPeerCxs
  <2>3. ASSUME from # "none", NEW old, NEW new, SetsPeerCx(site, c, old, new),
               Active(store[site], d)
        PROVE  SameRung(site, d)
    <3>1. Recorded(store[site], c) /\ Recorded(store[site], d)
      BY <2>3 DEF Moves, Recorded, Active
    <3>2. On(store[site], d).peerCxId # On(store[site], c).peerCxId
      BY <3>1 DEF Base, IdNamesOneAgreement
    <3>3. On(store[site], d).peerCxId \in PeerCxId
      BY <3>1 DEF Base, TypeOK, Recorded, On, PeerCxSetupState, Nomination,
         NoNomination
    <3>4. QED
      BY <2>1, <2>3, <3>2, <3>3 DEF SameRung, SetsPeerCx
  <2>4. QED
    BY <2>1, <2>2, <2>3 DEF SameRung
<1>2. ASSUME NEW at \in Site \ {site}, NEW d \in Corr PROVE SameRung(at, d)
  BY DEF Moves, SameRung
<1>3. QED
  BY <1>1, <1>2

\* The rungs a tenant's record stands on, by its status.
LEMMA Rungs ==
  ASSUME NEW c
  PROVE  LET b == On(store["blue"], c)
             g == On(store["green"], c)
         IN /\ b.status = "none" => BlueStage(c) = "none"
            /\ b.status = "awaiting-green-approval" => BlueStage(c) = "consented"
            /\ b.status = "awaiting-blue-confirmation" => BlueStage(c) = "accepted"
            /\ b.status = "active" => BlueStage(c) = store["blue"].peerCxs[b.peerCxId]
            /\ g.status = "none" => GreenStage(c) = "none"
            /\ g.status = "awaiting-green-approval" => GreenStage(c) = "pending"
            /\ g.status = "awaiting-blue-confirmation" => GreenStage(c) = "approved"
            /\ g.status \in {"rejected", "invalidated"} => GreenStage(c) = "refused"
            /\ g.status = "active" => GreenStage(c) = store["green"].peerCxs[g.peerCxId]
  BY DEF BlueStage, GreenStage

LEMMA RungsAfter ==
  ASSUME NEW c
  PROVE  LET b == On(store'["blue"], c)
             g == On(store'["green"], c)
         IN /\ b.status = "none" => BlueStage(c)' = "none"
            /\ b.status = "awaiting-green-approval" => BlueStage(c)' = "consented"
            /\ b.status = "awaiting-blue-confirmation" => BlueStage(c)' = "accepted"
            /\ b.status = "active" => BlueStage(c)' = store'["blue"].peerCxs[b.peerCxId]
            /\ g.status = "none" => GreenStage(c)' = "none"
            /\ g.status = "awaiting-green-approval" => GreenStage(c)' = "pending"
            /\ g.status = "awaiting-blue-confirmation" => GreenStage(c)' = "approved"
            /\ g.status \in {"rejected", "invalidated"} => GreenStage(c)' = "refused"
            /\ g.status = "active" => GreenStage(c)' = store'["green"].peerCxs[g.peerCxId]
  BY DEF BlueStage, GreenStage

\* An active record's PeerCX is there, live or revoked.
LEMMA ActiveHasOne ==
  ASSUME Base, NEW site \in Site, NEW c \in Corr, Active(store[site], c)
  PROVE  store[site].peerCxs[On(store[site], c).peerCxId] \in {"active", "revoked"}
<1>1. On(store[site], c).peerCxId \in PeerCxId
  BY DEF Base, TypeOK, Active, On, PeerCxSetupState, Nomination, NoNomination
<1>2. HasPeerCx(store[site], On(store[site], c).peerCxId)
  BY <1>1 DEF Base, RecordsConsistent, Active
<1>3. QED
  BY <1>1, <1>2 DEF Base, TypeOK, PeerCxSetupState, HasPeerCx

\* Every move of a store is a step of the ladder, or none.
LEMMA RungStep ==
  ASSUME Base, Inv, NEW c \in Corr, StoreMoves(c)
  PROVE  \/ Agreement!Next
         \/ \A d \in Corr : BlueStage(d)' = BlueStage(d) /\ GreenStage(d)' = GreenStage(d)
<1> DEFINE blue == store["blue"]
           green == store["green"]
           Still == \A d \in Corr : /\ BlueStage(d)' = BlueStage(d)
                                    /\ GreenStage(d)' = GreenStage(d)
<1>a. /\ Approved(blue, c) => Approved(green, c)
      /\ Active(green, c) => Approved(blue, c)
      /\ Active(blue, c) => Active(green, c)
  BY DEF Inv, SerialInvariant, RungsRest
<1>b. "blue" \in Site /\ "green" \in Site
  BY DEF Site
<1>c. ASSUME NEW site \in Site, NEW from, NEW to, Moves(site, c, from, to),
             \/ KeepsPeerCxs(site)
             \/ from # "none" /\ \E old, new : SetsPeerCx(site, c, old, new)
      PROVE  /\ site = "blue" => /\ \A d \in Corr \ {c} : BlueStage(d)' = BlueStage(d)
                                 /\ \A d \in Corr : GreenStage(d)' = GreenStage(d)
             /\ site = "green" => /\ \A d \in Corr \ {c} : GreenStage(d)' = GreenStage(d)
                                  /\ \A d \in Corr : BlueStage(d)' = BlueStage(d)
  <2>1. /\ \A d \in Corr \ {c} : SameRung(site, d)
        /\ \A at \in Site \ {site}, d \in Corr : SameRung(at, d)
    BY <1>c, OtherRungsKept
  <2>2. QED
    BY <2>1, <1>b, RungsKept
<1>1. CASE BlueConsents(c)
  <2>1. Moves("blue", c, "none", "awaiting-green-approval") /\ KeepsPeerCxs("blue")
    BY <1>1 DEF BlueConsents
  <2>2. BlueStage(c) = "none" /\ BlueStage(c)' = "consented"
    BY <2>1, Rungs, RungsAfter DEF Moves
  <2>3. Agreement!Consent(c)
    BY <2>1, <2>2, <1>b, <1>c, BlueRungMoves DEF Agreement!Consent
  <2>4. QED
    BY <2>3 DEF Agreement!Next
<1>2. CASE BlueAccepts(c)
  <2>1. /\ Moves("blue", c, "awaiting-green-approval", "awaiting-blue-confirmation")
        /\ KeepsPeerCxs("blue") /\ Approved(green, c)
    BY <1>2 DEF BlueAccepts
  <2>2. BlueStage(c) = "consented" /\ BlueStage(c)' = "accepted"
    BY <2>1, Rungs, RungsAfter DEF Moves
  <2>3. GreenStage(c) = "approved"
    <3>1. ~Approved(blue, c)
      BY <2>1 DEF Moves, Approved
    <3>2. On(green, c).status = "awaiting-blue-confirmation"
      BY <1>a, <2>1, <3>1 DEF Approved, Active
    <3>3. QED
      BY <3>2, Rungs
  <2>4. Agreement!Accept(c)
    BY <2>1, <2>2, <2>3, <1>b, <1>c, BlueRungMoves DEF Agreement!Accept
  <2>5. QED
    BY <2>4 DEF Agreement!Next
<1>3. CASE BlueActivates(c)
  <2>1. /\ Moves("blue", c, "awaiting-blue-confirmation", "active")
        /\ SetsPeerCx("blue", c, {"none"}, "active") /\ Active(green, c)
    BY <1>3 DEF BlueActivates
  <2>2. BlueStage(c) = "accepted" /\ BlueStage(c)' = "active"
    BY <2>1, Rungs, RungsAfter DEF Moves, SetsPeerCx
  <2>3. GreenStage(c) \in {"active", "revoked"}
    BY <2>1, <1>b, Rungs, ActiveHasOne DEF Active
  <2>4. Agreement!ActivateBlue(c)
    BY <2>1, <2>2, <2>3, <1>b, <1>c, BlueRungMoves DEF Agreement!ActivateBlue
  <2>5. QED
    BY <2>4 DEF Agreement!Next
<1>4. CASE GreenRecords(c)
  <2>1. /\ Moves("green", c, "none", "awaiting-green-approval")
        /\ KeepsPeerCxs("green") /\ Recorded(blue, c)
    BY <1>4 DEF GreenRecords
  <2>2. GreenStage(c) = "none" /\ GreenStage(c)' = "pending"
    BY <2>1, Rungs, RungsAfter DEF Moves
  <2>3. BlueStage(c) = "consented"
    <3>1. ~Approved(green, c)
      BY <2>1 DEF Moves, Approved
    <3>2. On(blue, c).status = "awaiting-green-approval"
      BY <1>a, <2>1, <3>1, BlueStatuses DEF Approved, Recorded
    <3>3. QED
      BY <3>2, Rungs
  <2>4. Agreement!Nominated(c)
    BY <2>1, <2>2, <2>3, <1>b, <1>c, GreenRungMoves DEF Agreement!Nominated
  <2>5. QED
    BY <2>4 DEF Agreement!Next
<1>5. CASE GreenDecides(c)
  <2>1. PICK to \in NominationStatus \ {"active"} :
          Moves("green", c, "awaiting-green-approval", to)
    BY <1>5 DEF GreenDecides
  <2>2. KeepsPeerCxs("green") /\ GreenStage(c) = "pending"
    BY <1>5, <2>1, Rungs DEF GreenDecides, Moves
  <2>3. On(store'["green"], c).status = to
    BY <2>1 DEF Moves
  <2>4. CASE to = "awaiting-green-approval"
    <3>1. GreenStage(c)' = GreenStage(c)
      BY <2>2, <2>3, <2>4, RungsAfter
    <3>2. QED
      BY <2>1, <2>2, <3>1, <1>b, <1>c
  <2>5. CASE to = "awaiting-blue-confirmation"
    <3>1. GreenStage(c)' = "approved"
      BY <2>3, <2>5, RungsAfter
    <3>2. Agreement!Approve(c)
      BY <2>1, <2>2, <3>1, <1>b, <1>c, GreenRungMoves DEF Agreement!Approve
    <3>3. QED
      BY <3>2 DEF Agreement!Next
  <2>6. CASE to \in {"rejected", "invalidated"}
    <3>1. GreenStage(c)' = "refused"
      BY <2>3, <2>6, RungsAfter
    <3>2. Agreement!Refuse(c)
      BY <2>1, <2>2, <3>1, <1>b, <1>c, GreenRungMoves DEF Agreement!Refuse
    <3>3. QED
      BY <3>2 DEF Agreement!Next
  <2>7. QED
    BY <2>4, <2>5, <2>6 DEF NominationStatus
<1>6. CASE GreenActivates(c)
  <2>1. /\ Moves("green", c, "awaiting-blue-confirmation", "active")
        /\ SetsPeerCx("green", c, {"none"}, "active") /\ Approved(blue, c)
    BY <1>6 DEF GreenActivates
  <2>2. GreenStage(c) = "approved" /\ GreenStage(c)' = "active"
    BY <2>1, Rungs, RungsAfter DEF Moves, SetsPeerCx
  <2>3. BlueStage(c) = "accepted"
    <3>1. ~Active(green, c)
      BY <2>1 DEF Moves, Active
    <3>2. On(blue, c).status = "awaiting-blue-confirmation"
      BY <1>a, <2>1, <3>1 DEF Approved, Active
    <3>3. QED
      BY <3>2, Rungs
  <2>4. Agreement!ActivateGreen(c)
    BY <2>1, <2>2, <2>3, <1>b, <1>c, GreenRungMoves DEF Agreement!ActivateGreen
  <2>5. QED
    BY <2>4 DEF Agreement!Next
<1>7. ASSUME NEW site \in Site, Revokes(site, c) PROVE Agreement!Revoke(c) \/ Still
  <2> DEFINE id == On(store[site], c).peerCxId
  <2>1. /\ Moves(site, c, "active", "active")
        /\ SetsPeerCx(site, c, {"active", "revoked"}, "revoked")
    BY <1>7 DEF Revokes
  <2>2. /\ store[site].peerCxs[id] \in {"active", "revoked"}
        /\ store'[site].peerCxs[id] = "revoked"
        /\ On(store'[site], c).peerCxId = id
        /\ On(store[site], c).status = "active"
        /\ On(store'[site], c).status = "active"
    BY <2>1 DEF Moves, SetsPeerCx
  <2>3. CASE site = "blue"
    <3>1. BlueStage(c) \in {"active", "revoked"} /\ BlueStage(c)' = "revoked"
      BY <2>2, <2>3, Rungs, RungsAfter
    <3>2. CASE BlueStage(c) = "active"
      BY <2>1, <2>3, <3>1, <3>2, <1>b, <1>c, BlueRungMoves DEF Agreement!Revoke
    <3>3. CASE BlueStage(c) = "revoked"
      BY <2>1, <2>3, <3>1, <3>3, <1>b, <1>c
    <3>4. QED
      BY <3>1, <3>2, <3>3
  <2>4. CASE site = "green"
    <3>1. GreenStage(c) \in {"active", "revoked"} /\ GreenStage(c)' = "revoked"
      BY <2>2, <2>4, Rungs, RungsAfter
    <3>2. CASE GreenStage(c) = "active"
      BY <2>1, <2>4, <3>1, <3>2, <1>b, <1>c, GreenRungMoves DEF Agreement!Revoke
    <3>3. CASE GreenStage(c) = "revoked"
      BY <2>1, <2>4, <3>1, <3>3, <1>b, <1>c
    <3>4. QED
      BY <3>1, <3>2, <3>3
  <2>5. QED
    BY <2>3, <2>4 DEF Site
<1>8. ASSUME NEW site \in Site, Revokes(site, c) PROVE Agreement!Next \/ Still
  BY <1>7, <1>8 DEF Agreement!Next
<1>9. QED
  BY <1>1, <1>2, <1>3, <1>4, <1>5, <1>6, <1>8 DEF StoreMoves

\* For any invitations, IDs, terms, invocations and administrators, the setup
\* implements the ladder of PeerCxAgreement while the invocations of one tenant
\* do not overlap, whatever is lost, late, repeated or killed.
THEOREM SetupImplementsAgreement == SerialSpec => ImplementsAgreement
<1> DEFINE rungs == <<[c \in Corr |-> BlueStage(c)], [c \in Corr |-> GreenStage(c)]>>
<1>1. Init => Agreement!Init
  <2> SUFFICES ASSUME Init PROVE Agreement!Init
    OBVIOUS
  <2>1. \A c \in Corr : /\ On(store["blue"], c).status = "none"
                        /\ On(store["green"], c).status = "none"
    BY DEF Init, Site, emptyState, On, NoNomination
  <2>2. \A c \in Corr : BlueStage(c) = "none" /\ GreenStage(c) = "none"
    BY <2>1, Rungs
  <2>3. QED
    BY <2>2 DEF Agreement!Init
<1>2. Base /\ Inv /\ [SerialNext]_vars => [Agreement!Next]_rungs
  <2> SUFFICES ASSUME Base, Inv, [SerialNext]_vars
               PROVE  Agreement!Next \/ rungs' = rungs
    OBVIOUS
  <2>1. ASSUME store' = store PROVE rungs' = rungs
    BY <2>1 DEF BlueStage, GreenStage
  <2>2. ASSUME \A d \in Corr : /\ BlueStage(d)' = BlueStage(d)
                               /\ GreenStage(d)' = GreenStage(d)
        PROVE  rungs' = rungs
    BY <2>2
  <2>3. CASE SerialNext
    <3>1. store' = store \/ \E c \in Corr : StoreMoves(c)
      BY <2>3, StoreStep DEF SerialNext
    <3>2. QED
      BY <2>1, <2>2, <3>1, RungStep
  <2>4. QED
    BY <2>1, <2>3 DEF vars
<1>3. SerialSpec => Init /\ [][SerialNext]_vars
  BY DEF SerialSpec
<1>4. QED
  BY <1>1, <1>2, <1>3, SerialInductive, PTL DEF ImplementsAgreement, Agreement!Spec
=============================================================================
