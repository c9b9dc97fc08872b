------------------------ MODULE PeerCxHandshakeProofs ------------------------
(***************************************************************************)
(* Proofs about PeerCxHandshake for any sets of invitations, IDs, terms,   *)
(* concurrent invocations and administrators.                              *)
(***************************************************************************)
EXTENDS PeerCxHandshake, TLAPS

-----------------------------------------------------------------------------
(* The transitions of PeerCxSetup keep a setup state a setup state.        *)

\* A tenant that has never written reads a well-formed empty state.
LEMMA EmptyStateType == emptyState \in PeerCxSetupState
  BY DEF emptyState, PeerCxSetupState, Nomination, NoNomination

\* Moving a recorded nomination to another status keeps its ID and terms.
LEMMA WithStatusType ==
  ASSUME NEW s \in PeerCxSetupState, NEW c \in Corr, Recorded(s, c),
         NEW status \in NominationStatus
  PROVE  WithStatus(s, c, status) \in PeerCxSetupState
  BY DEF WithStatus, Recorded, On, PeerCxSetupState, Nomination, NoNomination

\* Recording a nomination adds one well-formed record or nothing.
LEMMA RecordNominationType ==
  ASSUME NEW s \in PeerCxSetupState, NEW c \in Corr, NEW id \in PeerCxId,
         NEW terms \in Terms
  PROVE  RecordNomination(s, c, id, terms) \in PeerCxSetupState
  BY DEF RecordNomination, Recorded, On, PeerCxSetupState, Nomination,
         NoNomination, NominationStatus

\* A nomination on record has terms.
LEMMA RecordedTerms ==
  ASSUME NEW s \in PeerCxSetupState, NEW c \in Corr, Recorded(s, c)
  PROVE  On(s, c).terms \in Terms
  BY DEF Recorded, On, PeerCxSetupState, Nomination, NoNomination

\* Activating a recorded nomination writes both lists of the state.
LEMMA ActivateType ==
  ASSUME NEW s \in PeerCxSetupState, NEW c \in Corr, Recorded(s, c)
  PROVE  Activate(s, c) \in PeerCxSetupState
<1>1. WithStatus(s, c, "active") \in PeerCxSetupState
  BY WithStatusType DEF NominationStatus
<1>2. QED
  BY <1>1 DEF Activate, PeerCxSetupState

\* Revoking a PeerCX keeps the state well formed.
LEMMA RevokeType ==
  ASSUME NEW s \in PeerCxSetupState, NEW id \in PeerCxId
  PROVE  revokePeerCx(s, id) \in PeerCxSetupState
  BY DEF revokePeerCx, PeerCxSetupState

-----------------------------------------------------------------------------
(* Type correctness. *)

\* An empty wire is a message, and an idle invocation is a well-formed one.
LEMMA IdleTypes ==
  /\ Quiet \in Message
  /\ IdleCall \in [step : CallStep, state : PeerCxSetupState, request : Message]
  /\ IdleHandler \in [busy : BOOLEAN, state : PeerCxSetupState]
  /\ IdleAdmin \in [busy : BOOLEAN, site : Site, state : PeerCxSetupState]
<1>1. Quiet \in Message
  BY CorrAssumption DEF Quiet, Envelope, Message
<1>2. QED
  BY <1>1, EmptyStateType DEF IdleCall, IdleHandler, IdleAdmin, CallStep, Site

\* The types of what Green answers a poll with.
LEMMA ProposalType ==
  ASSUME NEW s \in PeerCxSetupState, NEW m \in Message, NEW e, m.kind = "poll"
  PROVE  proposePeerCxActivation(s, m, e) \in Message
<1>1. m.corr \in Corr /\ m.peerCxId \in PeerCxId
  BY DEF Message
<1>2. ASSUME Recorded(s, m.corr)
      PROVE  On(s, m.corr).terms \in Terms
  BY <1>1, <1>2, RecordedTerms
<1>3. QED
  BY <1>1, <1>2 DEF proposePeerCxActivation, SameVersion, Envelope, Message,
     Answers

\* Blue's steps keep every variable in its type.
LEMMA BlueType ==
  ASSUME TypeOK, NEW b \in Call, Blue(b)
  PROVE  TypeOK'
<1>0. USE IdleTypes DEF TypeOK
<1>a. store["blue"] \in PeerCxSetupState
  BY DEF Site
<1>1. ASSUME NEW c \in Corr, NEW terms \in Terms, NominateSite(b, c, terms)
      PROVE  TypeOK'
  <2>1. PICK id : /\ id \in IF Recorded(store["blue"], c)
                            THEN {On(store["blue"], c).peerCxId}
                            ELSE PeerCxId \ minted
                  /\ minted' = minted \cup {id}
                  /\ call' = [call EXCEPT ![b] =
                       [step |-> "nominating",
                        state |-> nominatePeerCx(store["blue"], c, id, terms),
                        request |-> Envelope("nominate", c, id, terms)]]
    BY <1>1 DEF NominateSite
  <2>2. id \in PeerCxId
    BY <2>1, <1>a DEF Recorded, On, PeerCxSetupState, Nomination, NoNomination
  <2>3. nominatePeerCx(store["blue"], c, id, terms) \in PeerCxSetupState
    BY <2>2, <1>a, RecordNominationType DEF nominatePeerCx
  <2>4. Envelope("nominate", c, id, terms) \in Message
    BY <2>2 DEF Envelope, Message, Requests
  <2>5. QED
    BY <1>1, <2>1, <2>2, <2>3, <2>4 DEF NominateSite, history, CallStep
<1>2. CASE RecordConsent(b)
  BY <1>2 DEF RecordConsent, Save, Send, history, Site, IdleCall, CallStep
<1>3. CASE NominationReceived(b)
  BY <1>3 DEF NominationReceived, Send, history
<1>4. ASSUME NEW c \in Corr, ConfirmActivation(b, c)
      PROVE  TypeOK'
  <2>1. Envelope("poll", c, On(store["blue"], c).peerCxId,
                 On(store["blue"], c).terms) \in Message
    BY <1>4, <1>a DEF ConfirmActivation, Envelope, Message, Requests, Recorded,
       On, PeerCxSetupState, Nomination, NoNomination
  <2>2. QED
    BY <1>4, <1>a, <2>1 DEF ConfirmActivation, Send, history, IdleCall, CallStep
<1>5. CASE AcceptProposal(b)
  <2>1. /\ wire[b] \in Message
        /\ wire[b].kind = "proposal"
    BY <1>5 DEF AcceptProposal, Arrived
  <2>2. wire[b].corr \in Corr /\ wire[b].peerCxId \in PeerCxId
                             /\ wire[b].terms \in Terms
    BY <2>1 DEF Message
  <2>3. acceptActivationProposal(call[b].state, wire[b]) \in PeerCxSetupState
    BY <1>5, <2>2, WithStatusType
       DEF AcceptProposal, acceptActivationProposal, ProposalAcceptable,
           SameAgreement, SameVersion, NominationStatus
  <2>4. Envelope("confirm", wire[b].corr, wire[b].peerCxId,
                 On(call[b].state, wire[b].corr).terms) \in Message
    <3>1. call[b].state \in PeerCxSetupState /\ Recorded(call[b].state, wire[b].corr)
      BY <1>5 DEF AcceptProposal, ProposalAcceptable, SameAgreement, SameVersion
    <3>2. On(call[b].state, wire[b].corr).terms \in Terms
      BY <2>2, <3>1, RecordedTerms
    <3>3. QED
      BY <2>2, <3>2 DEF Envelope, Message, Requests
  <2>5. QED
    BY <1>5, <2>2, <2>3, <2>4
       DEF AcceptProposal, Save, Send, Site, IdleCall, CallStep
<1>6. CASE ActivateBlue(b)
  <2>1. activateAfterConfirmation(call[b].state, wire[b]) \in PeerCxSetupState
    <3>1. wire[b].corr \in Corr
      BY DEF Message
    <3>2. QED
      BY <1>6, <3>1, ActivateType
         DEF ActivateBlue, activateAfterConfirmation, ReceiptAcceptable
  <2>2. QED
    BY <1>6, <2>1 DEF ActivateBlue, Save, Send, Site, history
<1>7. CASE GiveUp(b)
  BY <1>7 DEF GiveUp, Send, history
<1>8. QED
  BY <1>1, <1>2, <1>3, <1>4, <1>5, <1>6, <1>7 DEF Blue

\* Green's handler steps keep every variable in its type; a handler that
\* commits answers the request it was started for.
LEMMA GreenType ==
  ASSUME TypeOK, ActivationTraced, NEW b \in Call, Green(b)
  PROVE  TypeOK'
<1>0. USE IdleTypes DEF TypeOK
<1>a. store["green"] \in PeerCxSetupState
  BY DEF Site
<1>b. wire[b].corr \in Corr
  BY DEF Message
<1>c. Envelope("refused", wire[b].corr, NoId, NoTerms) \in Message
  BY <1>b DEF Envelope, Message
<1>1. CASE ReceiveNomination(b)
  <2>1. receivePeerCxNomination(store["green"], wire[b]) \in PeerCxSetupState
    <3>1. wire[b].peerCxId \in PeerCxId /\ wire[b].terms \in Terms
      BY <1>1 DEF ReceiveNomination, Arrived, Message
    <3>2. QED
      BY <1>a, <1>b, <3>1, RecordNominationType DEF receivePeerCxNomination
  <2>2. CASE Refuse(b)
    BY <1>1, <1>c, <2>2 DEF ReceiveNomination, Refuse, Send, history
  <2>3. CASE Handle(b, receivePeerCxNomination(store["green"], wire[b]))
    BY <1>1, <2>1, <2>3 DEF ReceiveNomination, Handle, history
  <2>4. QED
    BY <1>1, <2>2, <2>3 DEF ReceiveNomination
<1>2. CASE ReceivePoll(b)
  <2>1. proposePeerCxActivation(store["green"], wire[b], ended["green"])
          \in Message
    BY <1>2, <1>a, ProposalType DEF ReceivePoll, Arrived
  <2>2. QED
    BY <1>2, <2>1 DEF ReceivePoll, Send, history
<1>3. CASE ReceiveConfirmation(b)
  <2>1. ConfirmationAcceptable(store["green"], wire[b], ended["green"])
          => receivePeerCxConfirmation(store["green"], wire[b])
               \in PeerCxSetupState
    BY <1>a, <1>b, ActivateType
       DEF ConfirmationAcceptable, SameAgreement, SameVersion, receivePeerCxConfirmation
  <2>2. CASE Refuse(b)
    BY <1>3, <1>c, <2>2 DEF ReceiveConfirmation, Refuse, Send, history
  <2>3. CASE /\ ConfirmationAcceptable(store["green"], wire[b], ended["green"])
             /\ Handle(b, receivePeerCxConfirmation(store["green"], wire[b]))
    BY <1>3, <2>1, <2>3 DEF ReceiveConfirmation, Handle, history
  <2>4. QED
    BY <1>3, <2>2, <2>3 DEF ReceiveConfirmation
<1>4. CASE CommitHandler(b)
  <2>1. handler[b].busy /\ wire[b].kind \in {"nominate", "confirm"}
    BY <1>4 DEF CommitHandler, ActivationTraced, HandlerHonest
  <2>2. /\ wire[b].peerCxId \in PeerCxId
        /\ [wire[b] EXCEPT !.kind = "activated"] \in Message
        /\ [wire[b] EXCEPT !.kind = "received"] \in Message
    BY <2>1 DEF Message, Answers
  <2>3. QED
    BY <1>4, <2>2 DEF CommitHandler, Save, Send, Site
<1>5. QED
  BY <1>1, <1>2, <1>3, <1>4 DEF Green

\* Administrators' steps keep every variable in its type.
LEMMA AdministratorType ==
  ASSUME TypeOK, NEW a \in Admin, Administrator(a)
  PROVE  TypeOK'
<1>0. USE IdleTypes DEF TypeOK
<1>1. ASSUME NEW c \in Corr,
             NEW decision \in {"approve", "reject", "leave-pending"},
             NEW reviewed \in BOOLEAN,
             DecideNomination(a, c, decision, reviewed)
      PROVE  TypeOK'
  <2>1. store["green"] \in PeerCxSetupState /\ Pending(store["green"], c)
    BY <1>1 DEF DecideNomination, Site
  <2>2. Recorded(store["green"], c)
    BY <2>1 DEF Pending, Recorded
  <2>3. On(store["green"], c).peerCxId \in PeerCxId
    BY <2>1, <2>2 DEF Recorded, On, PeerCxSetupState, Nomination, NoNomination
  <2>4. DecidedStatus(decision, reviewed) \in NominationStatus
    BY DEF DecidedStatus, NominationStatus
  <2>5. decidePeerCxNomination(store["green"], c, decision, reviewed)
          \in PeerCxSetupState
    BY <2>1, <2>2, <2>4, WithStatusType DEF decidePeerCxNomination
  <2>6. QED
    BY <1>1, <2>3, <2>5 DEF DecideNomination, Start, Site
<1>2. ASSUME NEW site \in Site, NEW id \in PeerCxId, RevokePeerCx(a, site, id)
      PROVE  TypeOK'
  <2>1. revokePeerCx(store[site], id) \in PeerCxSetupState
    BY RevokeType
  <2>2. QED
    BY <1>2, <2>1 DEF RevokePeerCx, Start, history
<1>3. CASE CommitAdmin(a)
  BY <1>3 DEF CommitAdmin, Save, history
<1>4. QED
  BY <1>1, <1>2, <1>3 DEF Administrator

\* The clock and the failures keep every variable in its type.
LEMMA EnvironmentType ==
  ASSUME TypeOK, Environment
  PROVE  TypeOK'
<1>0. USE IdleTypes DEF TypeOK
<1>1. ASSUME NEW site \in Site, NEW instant \in EndInstant, AgreementEnds(site, instant)
      PROVE  TypeOK'
  BY <1>1 DEF AgreementEnds, history
<1>2. ASSUME NEW b \in Call, Lose(b) \/ KillCall(b) \/ KillHandler(b)
      PROVE  TypeOK'
  <2>1. CASE Lose(b)
    BY <2>1 DEF Lose, Send, history
  <2>2. CASE KillCall(b)
    BY <2>2 DEF KillCall, history
  <2>3. CASE KillHandler(b)
    BY <2>3 DEF KillHandler, Send, history
  <2>4. QED
    BY <1>2, <2>1, <2>2, <2>3
<1>3. ASSUME NEW a \in Admin, KillAdmin(a)
      PROVE  TypeOK'
  BY <1>3 DEF KillAdmin, history
<1>4. QED
  BY <1>1, <1>2, <1>3 DEF Environment

-----------------------------------------------------------------------------
(* Every activation traces back to both administrators. *)

\* A change of status changes which correlations are approved in one place,
\* and no PeerCX.
LEMMA WithStatusEffect ==
  ASSUME NEW s \in PeerCxSetupState, NEW c \in Corr, Recorded(s, c),
         NEW status \in NominationStatus
  PROVE  /\ \A d \in Corr : On(WithStatus(s, c, status), d).peerCxId
                            = On(s, d).peerCxId
         /\ \A d \in Corr \ {c} : On(WithStatus(s, c, status), d) = On(s, d)
         /\ On(WithStatus(s, c, status), c).status = status
         /\ WithStatus(s, c, status).peerCxs = s.peerCxs
  BY DEF WithStatus, Recorded, On, PeerCxSetupState, Nomination, NoNomination

\* Recording a nomination approves nothing and creates no PeerCX.
LEMMA RecordNominationEffect ==
  ASSUME NEW s \in PeerCxSetupState, NEW c \in Corr, NEW id, NEW terms
  PROVE  /\ \A d \in Corr : Approved(RecordNomination(s, c, id, terms), d)
              => /\ Approved(s, d)
                 /\ On(RecordNomination(s, c, id, terms), d) = On(s, d)
         /\ RecordNomination(s, c, id, terms).peerCxs = s.peerCxs
  BY DEF RecordNomination, Recorded, Approved, On, PeerCxSetupState, Nomination

\* Activating changes the PeerCX of the nomination's ID only.
LEMMA ActivateEffect ==
  ASSUME NEW s \in PeerCxSetupState, NEW c \in Corr, Recorded(s, c)
  PROVE  /\ \A d \in Corr : On(Activate(s, c), d).peerCxId = On(s, d).peerCxId
         /\ \A d \in Corr \ {c} : On(Activate(s, c), d) = On(s, d)
         /\ \A id \in PeerCxId : HasPeerCx(Activate(s, c), id)
              => HasPeerCx(s, id) \/ id = On(s, c).peerCxId
<1>1. WithStatus(s, c, "active") \in PeerCxSetupState
  BY WithStatusType DEF NominationStatus
<1>2. Activate(s, c).nominations = WithStatus(s, c, "active").nominations
  BY <1>1 DEF Activate, PeerCxSetupState
<1>3. \A id \in PeerCxId : id # On(s, c).peerCxId =>
        Activate(s, c).peerCxs[id] = WithStatus(s, c, "active").peerCxs[id]
  BY <1>1 DEF Activate, PeerCxSetupState
<1>4. QED
  BY <1>2, <1>3, WithStatusEffect DEF On, HasPeerCx, NominationStatus

\* Nothing is held before anything is written.
LEMMA EmptyStateHonest ==
  PeerCxsHonest(emptyState) /\ ApprovalsHonest(emptyState)
  BY DEF PeerCxsHonest, ApprovalsHonest, HasPeerCx, Approved, On, emptyState,
         NoNomination

\* What is honest stays honest while the history grows.
LEMMA HonestyStable ==
  ASSUME approved \subseteq approved', activated \subseteq activated', NEW s
  PROVE  /\ PeerCxsHonest(s) => \A id \in PeerCxId :
                                  HasPeerCx(s, id) => id \in activated'
         /\ ApprovalsHonest(s) => \A c \in Corr :
                                  Approved(s, c) => On(s, c).peerCxId \in approved'
  BY DEF PeerCxsHonest, ApprovalsHonest

\* A step of slot b keeps the trace if it keeps it for b and the stores.
LEMMA SlotFrame ==
  ASSUME ActivationTraced, NEW b \in Call,
         approved \subseteq approved', accepted \subseteq accepted',
         activated \subseteq activated',
         activated' \subseteq approved' \cap accepted',
         admin' = admin,
         \A x \in Call \ {b} : /\ call'[x] = call[x] /\ wire'[x] = wire[x]
                              /\ handler'[x] = handler[x],
         \A site \in Site : PeerCxsHonest(store[site])',
         ApprovalsHonest(store["green"])',
         CallHonest(b)', HandlerHonest(b)', MessageHonest(b)'
  PROVE  ActivationTraced'
<1>1. \A x \in Call \ {b} : CallHonest(x)'
  BY DEF ActivationTraced, CallHonest, PeerCxsHonest
<1>2. \A x \in Call \ {b} : HandlerHonest(x)'
  BY DEF ActivationTraced, HandlerHonest, ApprovalsHonest
<1>3. \A x \in Call \ {b} : MessageHonest(x)'
  BY DEF ActivationTraced, MessageHonest
<1>4. \A a \in Admin : AdminHonest(a)'
  BY DEF ActivationTraced, AdminHonest, PeerCxsHonest, ApprovalsHonest
<1>5. QED
  BY <1>1, <1>2, <1>3, <1>4 DEF ActivationTraced

\* An idle slot, and a quiet or refused one, hold nothing to trace.
LEMMA IdleHonest ==
  /\ PeerCxsHonest(IdleCall.state)
  /\ \A id \in PeerCxId : ~HasPeerCx(emptyState, id)
  /\ IdleCall.state = emptyState
  /\ IdleCall.step = "idle"
  /\ Quiet.kind = "quiet"
  /\ IdleHandler.busy = FALSE
  BY DEF PeerCxsHonest, IdleCall, HasPeerCx, emptyState, Quiet, Envelope,
         IdleHandler

\* Blue's steps keep the trace: only a receipt brings Blue a PeerCX.
LEMMA BlueTraced ==
  ASSUME TypeOK, ActivationTraced, NEW b \in Call, Blue(b)
  PROVE  ActivationTraced'
<1>a. /\ store["blue"] \in PeerCxSetupState
      /\ call[b].state \in PeerCxSetupState
      /\ PeerCxsHonest(store["blue"]) /\ PeerCxsHonest(store["green"])
      /\ PeerCxsHonest(call[b].state)
      /\ ApprovalsHonest(store["green"])
      /\ CallHonest(b) /\ HandlerHonest(b) /\ MessageHonest(b)
      /\ activated \subseteq approved \cap accepted
  BY DEF TypeOK, Site, ActivationTraced, CallHonest
<1>b. UNCHANGED <<handler, admin, approved, activated>>
  BY DEF Blue, NominateSite, RecordConsent, NominationReceived,
     ConfirmActivation, AcceptProposal, ActivateBlue, GiveUp, history
<1>c. accepted \subseteq accepted'
  BY DEF Blue, NominateSite, RecordConsent, NominationReceived,
     ConfirmActivation, AcceptProposal, ActivateBlue, GiveUp, history
<1>d. SUFFICES /\ \A x \in Call \ {b} : call'[x] = call[x] /\ wire'[x] = wire[x]
               /\ \A site \in Site : PeerCxsHonest(store[site])'
               /\ ApprovalsHonest(store["green"])'
               /\ CallHonest(b)' /\ HandlerHonest(b)' /\ MessageHonest(b)'
  BY <1>a, <1>b, <1>c, SlotFrame
<1>1. ASSUME NEW c \in Corr, NEW terms \in Terms, NominateSite(b, c, terms)
      PROVE  /\ \A x \in Call \ {b} : call'[x] = call[x] /\ wire'[x] = wire[x]
             /\ \A site \in Site : PeerCxsHonest(store[site])'
             /\ ApprovalsHonest(store["green"])'
             /\ CallHonest(b)' /\ HandlerHonest(b)' /\ MessageHonest(b)'
  <2>1. PICK id : call' = [call EXCEPT ![b] =
                       [step |-> "nominating",
                        state |-> nominatePeerCx(store["blue"], c, id, terms),
                        request |-> Envelope("nominate", c, id, terms)]]
    BY <1>1 DEF NominateSite
  <2>2. nominatePeerCx(store["blue"], c, id, terms).peerCxs
          = store["blue"].peerCxs
    BY <1>a, RecordNominationEffect DEF nominatePeerCx
  <2>3. UNCHANGED <<store, wire, accepted>> /\ Free(b)
    BY <1>1 DEF NominateSite, history
  <2>4. CallHonest(b)'
    BY <1>a, <1>b, <2>1, <2>2, <2>3
       DEF Free, Envelope, PeerCxsHonest, HasPeerCx, TypeOK, CallHonest
  <2>5. \A x \in Call \ {b} : call'[x] = call[x]
    BY <2>1 DEF TypeOK
  <2>6. QED
    BY <1>a, <1>b, <2>3, <2>4, <2>5
       DEF PeerCxsHonest, ApprovalsHonest, HandlerHonest, MessageHonest,
           ActivationTraced
<1>2. CASE RecordConsent(b)
  <2>1. /\ wire'[b] = call[b].request
        /\ wire'[b].kind = "nominate"
        /\ ~handler'[b].busy
        /\ call'[b].state = emptyState /\ call'[b].step = "awaiting-receipt"
        /\ \A x \in Call \ {b} : call'[x] = call[x] /\ wire'[x] = wire[x]
        /\ store' = [store EXCEPT !["blue"] = call[b].state]
    BY <1>2, <1>a, <1>b DEF RecordConsent, Save, Send, TypeOK, IdleCall, CallHonest
  <2>2. \A site \in Site : PeerCxsHonest(store[site])'
    BY <1>a, <1>b, <2>1 DEF TypeOK, Site, PeerCxsHonest
  <2>3. ApprovalsHonest(store["green"])'
    BY <1>a, <1>b, <2>1 DEF TypeOK, Site, ApprovalsHonest
  <2>4. CallHonest(b)' /\ HandlerHonest(b)' /\ MessageHonest(b)'
    BY <2>1, IdleHonest DEF CallHonest, HandlerHonest, MessageHonest, PeerCxsHonest
  <2>5. QED
    BY <2>1, <2>2, <2>3, <2>4
<1>3. CASE NominationReceived(b) \/ GiveUp(b)
  <2>1. /\ store' = store /\ wire' = [wire EXCEPT ![b] = Quiet]
        /\ call' = [call EXCEPT ![b] = IdleCall] /\ ~handler[b].busy
    BY <1>3 DEF NominationReceived, GiveUp, Send, Arrived
  <2>2. CallHonest(b)' /\ HandlerHonest(b)' /\ MessageHonest(b)'
    BY <1>b, <2>1, IdleHonest
       DEF CallHonest, HandlerHonest, MessageHonest, PeerCxsHonest, TypeOK
  <2>3. QED
    BY <1>a, <1>b, <2>1, <2>2 DEF TypeOK, Site, PeerCxsHonest, ApprovalsHonest,
       ActivationTraced
<1>4. ASSUME NEW c \in Corr, ConfirmActivation(b, c)
      PROVE  /\ \A x \in Call \ {b} : call'[x] = call[x] /\ wire'[x] = wire[x]
             /\ \A site \in Site : PeerCxsHonest(store[site])'
             /\ ApprovalsHonest(store["green"])'
             /\ CallHonest(b)' /\ HandlerHonest(b)' /\ MessageHonest(b)'
  <2>1. /\ store' = store /\ ~handler[b].busy
        /\ call'[b].step = "polling" /\ call'[b].state = store["blue"]
        /\ wire'[b].kind = "poll"
        /\ \A x \in Call \ {b} : call'[x] = call[x] /\ wire'[x] = wire[x]
    BY <1>4 DEF ConfirmActivation, Free, Send, Envelope, TypeOK, IdleCall
  <2>2. CallHonest(b)' /\ HandlerHonest(b)' /\ MessageHonest(b)'
    BY <1>a, <1>b, <2>1
       DEF CallHonest, HandlerHonest, MessageHonest, PeerCxsHonest
  <2>3. QED
    BY <1>a, <1>b, <2>1, <2>2 DEF TypeOK, Site, PeerCxsHonest, ApprovalsHonest,
       ActivationTraced
<1>5. CASE AcceptProposal(b)
  <2>1. acceptActivationProposal(call[b].state, wire[b]).peerCxs
          = call[b].state.peerCxs
    <3>1. /\ Recorded(call[b].state, wire[b].corr)
          /\ wire[b].corr \in Corr
      BY <1>5 DEF AcceptProposal, ProposalAcceptable, SameAgreement, SameVersion, TypeOK,
         Message
    <3>2. QED
      BY <1>a, <3>1, WithStatusEffect
         DEF acceptActivationProposal, NominationStatus
  <2>2. /\ store' = [store EXCEPT !["blue"] =
                      acceptActivationProposal(call[b].state, wire[b])]
        /\ call'[b].step = "confirming"
        /\ call'[b].state = acceptActivationProposal(call[b].state, wire[b])
        /\ wire'[b].kind = "confirm" /\ wire'[b].peerCxId = wire[b].peerCxId
        /\ wire[b].peerCxId \in accepted'
        /\ ~handler'[b].busy
        /\ \A x \in Call \ {b} : call'[x] = call[x] /\ wire'[x] = wire[x]
    BY <1>5, <1>b DEF AcceptProposal, Arrived, Save, Send, Envelope, TypeOK, IdleCall
  <2>3. CallHonest(b)' /\ HandlerHonest(b)' /\ MessageHonest(b)'
    BY <1>a, <1>b, <2>1, <2>2
       DEF CallHonest, HandlerHonest, MessageHonest, PeerCxsHonest, HasPeerCx
  <2>4. \A site \in Site : PeerCxsHonest(store[site])'
    BY <1>a, <1>b, <2>1, <2>2 DEF TypeOK, Site, PeerCxsHonest, HasPeerCx
  <2>5. ApprovalsHonest(store["green"])'
    BY <1>a, <1>b, <2>2 DEF TypeOK, Site, ApprovalsHonest
  <2>6. QED
    BY <2>2, <2>3, <2>4, <2>5
<1>6. CASE ActivateBlue(b)
  <2>1. /\ wire[b].kind = "activated" /\ wire[b].peerCxId \in activated
        /\ ReceiptAcceptable(call[b].state, wire[b]) /\ wire[b].corr \in Corr
        /\ ~handler[b].busy
    BY <1>6, <1>a DEF ActivateBlue, Arrived, MessageHonest, TypeOK, Message
  <2>2. PeerCxsHonest(activateAfterConfirmation(call[b].state, wire[b]))
    BY <1>a, <2>1, ActivateEffect
       DEF activateAfterConfirmation, ReceiptAcceptable, PeerCxsHonest
  <2>3. /\ store' = [store EXCEPT !["blue"] =
                      activateAfterConfirmation(call[b].state, wire[b])]
        /\ call' = [call EXCEPT ![b] = IdleCall]
        /\ wire' = [wire EXCEPT ![b] = Quiet]
    BY <1>6 DEF ActivateBlue, Save, Send
  <2>4. CallHonest(b)' /\ HandlerHonest(b)' /\ MessageHonest(b)'
    BY <1>b, <2>1, <2>3, IdleHonest
       DEF CallHonest, HandlerHonest, MessageHonest, PeerCxsHonest, TypeOK
  <2>5. \A site \in Site : PeerCxsHonest(store[site])'
    BY <1>a, <1>b, <2>2, <2>3 DEF TypeOK, Site, PeerCxsHonest
  <2>6. ApprovalsHonest(store["green"])'
    BY <1>a, <1>b, <2>3 DEF TypeOK, Site, ApprovalsHonest
  <2>7. QED
    BY <2>3, <2>4, <2>5, <2>6 DEF TypeOK
<1>7. QED
  BY <1>1, <1>2, <1>3, <1>4, <1>5, <1>6 DEF Blue

\* Green's steps keep the trace: only a confirmation of what the
\* administrator approved brings Green a PeerCX.
LEMMA GreenTraced ==
  ASSUME TypeOK, ActivationTraced, NEW b \in Call, Green(b)
  PROVE  ActivationTraced'
<1>a. /\ store["green"] \in PeerCxSetupState
      /\ wire[b] \in Message /\ wire[b].corr \in Corr
      /\ PeerCxsHonest(store["blue"]) /\ PeerCxsHonest(store["green"])
      /\ ApprovalsHonest(store["green"])
      /\ CallHonest(b) /\ HandlerHonest(b) /\ MessageHonest(b)
      /\ activated \subseteq approved \cap accepted
  BY DEF TypeOK, Site, ActivationTraced, Message
<1>b. UNCHANGED <<call, admin, approved, accepted>>
  BY DEF Green, ReceiveNomination, ReceivePoll, ReceiveConfirmation,
     CommitHandler, history
<1>c. \A x \in Call \ {b} : wire'[x] = wire[x] /\ handler'[x] = handler[x]
  BY DEF Green, ReceiveNomination, ReceivePoll, ReceiveConfirmation,
     CommitHandler, Handle, Refuse, Send, TypeOK
<1>1. CASE CommitHandler(b)
  <2>1. /\ handler[b].busy /\ wire[b].kind \in {"nominate", "confirm"}
        /\ handler'[b].busy = FALSE
        /\ store' = [store EXCEPT !["green"] = handler[b].state]
        /\ wire' = [wire EXCEPT ![b] = [wire[b] EXCEPT !.kind =
             IF wire[b].kind = "confirm" THEN "activated" ELSE "received"]]
    BY <1>1, <1>a, IdleHonest DEF CommitHandler, HandlerHonest, Save, Send, TypeOK
  <2>2. activated' = IF wire[b].kind = "confirm"
                     THEN activated \cup {wire[b].peerCxId} ELSE activated
    BY <1>1 DEF CommitHandler
  <2>3. activated' \subseteq approved \cap accepted
    BY <1>a, <2>1, <2>2 DEF HandlerHonest, MessageHonest
  <2>4. \A site \in Site : PeerCxsHonest(store[site])'
    BY <1>a, <2>1, <2>2 DEF TypeOK, Site, PeerCxsHonest, HandlerHonest
  <2>5. ApprovalsHonest(store["green"])'
    BY <1>a, <1>b, <2>1 DEF TypeOK, Site, ApprovalsHonest, HandlerHonest
  <2>6. /\ wire'[b].kind \in {"activated", "received"}
        /\ wire'[b].kind = "activated" => wire'[b].peerCxId \in activated'
    BY <1>a, <2>1, <2>2 DEF TypeOK, Message
  <2>7. HandlerHonest(b)' /\ MessageHonest(b)'
    BY <2>1, <2>6 DEF HandlerHonest, MessageHonest
  <2>8. CallHonest(b)'
    BY <1>a, <1>b, <2>1, <2>2 DEF CallHonest, PeerCxsHonest
  <2>9. QED
    BY <1>b, <1>c, <2>2, <2>3, <2>4, <2>5, <2>7, <2>8, SlotFrame
<1>2. ASSUME UNCHANGED <<store, activated>>, call[b].step # "nominating",
             HandlerHonest(b)', MessageHonest(b)'
      PROVE  ActivationTraced'
  <2>1. CallHonest(b)'
    BY <1>a, <1>b, <1>2 DEF CallHonest, PeerCxsHonest
  <2>2. /\ \A site \in Site : PeerCxsHonest(store[site])'
        /\ ApprovalsHonest(store["green"])'
    BY <1>b, <1>2 DEF ActivationTraced, PeerCxsHonest, ApprovalsHonest
  <2>3. QED
    BY <1>a, <1>b, <1>c, <1>2, <2>1, <2>2, SlotFrame
<1>3. ASSUME Refuse(b), ~handler[b].busy
      PROVE  HandlerHonest(b)' /\ MessageHonest(b)'
  BY <1>3 DEF Refuse, Send, Envelope, HandlerHonest, MessageHonest, TypeOK
<1>4. CASE ReceiveNomination(b)
  <2>1. /\ UNCHANGED <<store, activated>> /\ wire[b].kind = "nominate"
        /\ ~handler[b].busy /\ call[b].step # "nominating"
    BY <1>4, <1>a DEF ReceiveNomination, Arrived, history, CallHonest
  <2>2. CASE Handle(b, receivePeerCxNomination(store["green"], wire[b]))
    <3>1. LET next == receivePeerCxNomination(store["green"], wire[b])
          IN ApprovalsHonest(next) /\ PeerCxsHonest(next)
      BY <1>a, RecordNominationEffect
         DEF receivePeerCxNomination, ApprovalsHonest, PeerCxsHonest, HasPeerCx
    <3>2. /\ handler'[b].state = receivePeerCxNomination(store["green"], wire[b])
          /\ wire' = wire
      BY <2>2 DEF Handle, TypeOK
    <3>3. HandlerHonest(b)' /\ MessageHonest(b)'
      BY <1>a, <1>b, <2>1, <3>1, <3>2
         DEF HandlerHonest, MessageHonest, ApprovalsHonest, PeerCxsHonest
    <3>4. QED
      BY <1>2, <2>1, <3>3
  <2>3. QED
    BY <1>2, <1>3, <1>4, <2>1, <2>2 DEF ReceiveNomination
<1>5. CASE ReceivePoll(b)
  <2>1. /\ UNCHANGED <<store, activated, handler>> /\ wire[b].kind = "poll"
        /\ ~handler[b].busy /\ call[b].step # "nominating"
        /\ wire'[b].kind \in {"proposal", "refused"}
    BY <1>5, <1>a DEF ReceivePoll, Arrived, history, CallHonest, Send, TypeOK,
       proposePeerCxActivation, Envelope
  <2>2. QED
    BY <1>2, <2>1 DEF HandlerHonest, MessageHonest
<1>6. CASE ReceiveConfirmation(b)
  <2>1. /\ UNCHANGED <<store, activated>> /\ wire[b].kind = "confirm"
        /\ ~handler[b].busy /\ call[b].step # "nominating"
    BY <1>6, <1>a DEF ReceiveConfirmation, Arrived, history, CallHonest
  <2>2. CASE /\ ConfirmationAcceptable(store["green"], wire[b], ended["green"])
             /\ Handle(b, receivePeerCxConfirmation(store["green"], wire[b]))
    <3> DEFINE next == receivePeerCxConfirmation(store["green"], wire[b])
    <3>1. /\ Recorded(store["green"], wire[b].corr)
          /\ On(store["green"], wire[b].corr).peerCxId = wire[b].peerCxId
          /\ Approved(store["green"], wire[b].corr)
      BY <2>2 DEF ConfirmationAcceptable, SameAgreement, SameVersion
    <3>2. wire[b].peerCxId \in approved
      BY <1>a, <3>1 DEF ApprovalsHonest
    <3>3. /\ \A d \in Corr : On(next, d).peerCxId = On(store["green"], d).peerCxId
          /\ \A d \in Corr \ {wire[b].corr} : On(next, d) = On(store["green"], d)
          /\ \A id \in PeerCxId : HasPeerCx(next, id)
               => HasPeerCx(store["green"], id) \/ id = wire[b].peerCxId
      BY <1>a, <3>1, ActivateEffect DEF receivePeerCxConfirmation
    <3>4. ApprovalsHonest(next)
      BY <1>a, <3>1, <3>2, <3>3 DEF ApprovalsHonest, Approved
    <3>5. handler'[b].state = next /\ wire' = wire
      BY <2>2 DEF Handle, TypeOK
    <3>6. HandlerHonest(b)' /\ MessageHonest(b)'
      <4> HIDE DEF next
      <4>1. ApprovalsHonest(handler[b].state)'
        BY <1>b, <3>4, <3>5 DEF ApprovalsHonest
      <4>2. \A id \in PeerCxId : HasPeerCx(handler'[b].state, id) =>
              id \in activated' \/ id = wire[b].peerCxId
        BY <1>a, <2>1, <3>3, <3>5 DEF PeerCxsHonest
      <4>3. QED
        BY <1>a, <1>b, <2>1, <3>2, <3>5, <4>1, <4>2
           DEF HandlerHonest, MessageHonest
    <3>7. QED
      BY <1>2, <2>1, <3>6
  <2>3. QED
    BY <1>2, <1>3, <1>6, <2>1, <2>2 DEF ReceiveConfirmation
<1>7. QED
  BY <1>1, <1>4, <1>5, <1>6 DEF Green

\* Administrators' steps keep the trace: deciding grants no PeerCX, and
\* revoking needs one.
LEMMA AdministratorTraced ==
  ASSUME TypeOK, ActivationTraced, NEW a \in Admin, Administrator(a)
  PROVE  ActivationTraced'
<1>a. /\ store["green"] \in PeerCxSetupState
      /\ \A site \in Site : PeerCxsHonest(store[site])
      /\ ApprovalsHonest(store["green"]) /\ AdminHonest(a)
      /\ activated \subseteq approved \cap accepted
  BY DEF TypeOK, Site, ActivationTraced
<1>b. /\ UNCHANGED <<call, wire, handler, accepted, activated>>
      /\ approved \subseteq approved'
      /\ \A x \in Admin \ {a} : admin'[x] = admin[x]
  BY DEF Administrator, DecideNomination, RevokePeerCx, CommitAdmin, Start,
     history, TypeOK
<1>c. \A b \in Call : CallHonest(b)' /\ HandlerHonest(b)' /\ MessageHonest(b)'
  BY <1>b DEF ActivationTraced, CallHonest, HandlerHonest, MessageHonest,
     PeerCxsHonest, ApprovalsHonest
<1>d. \A x \in Admin \ {a} : AdminHonest(x)'
  BY <1>b DEF ActivationTraced, AdminHonest, PeerCxsHonest, ApprovalsHonest
<1>e. SUFFICES /\ \A site \in Site : PeerCxsHonest(store[site])'
               /\ ApprovalsHonest(store["green"])'
               /\ AdminHonest(a)'
  BY <1>a, <1>b, <1>c, <1>d DEF ActivationTraced
<1>f. ASSUME UNCHANGED store
      PROVE  /\ \A site \in Site : PeerCxsHonest(store[site])'
             /\ ApprovalsHonest(store["green"])'
  BY <1>a, <1>b, <1>f DEF PeerCxsHonest, ApprovalsHonest
<1>1. ASSUME NEW c \in Corr,
             NEW decision \in {"approve", "reject", "leave-pending"},
             NEW reviewed \in BOOLEAN,
             DecideNomination(a, c, decision, reviewed)
      PROVE  UNCHANGED store /\ AdminHonest(a)'
  <2> DEFINE status == DecidedStatus(decision, reviewed)
             next == WithStatus(store["green"], c, status)
  <2>1. Recorded(store["green"], c) /\ ~Approved(store["green"], c)
    BY <1>1 DEF DecideNomination, Pending, Recorded, Approved
  <2>2. status \in NominationStatus /\ status # "active"
    BY DEF DecidedStatus, NominationStatus
  <2>3. /\ UNCHANGED store
        /\ admin'[a].state = next
        /\ status = "awaiting-blue-confirmation"
             => On(store["green"], c).peerCxId \in approved'
    BY <1>1 DEF DecideNomination, Start, decidePeerCxNomination, TypeOK
  <2> HIDE DEF status
  <2>4. PeerCxsHonest(next)
    BY <1>a, <2>1, <2>2, WithStatusEffect DEF PeerCxsHonest, HasPeerCx, Site
  <2>5. \A d \in Corr : Approved(next, d) => On(next, d).peerCxId \in approved'
    BY <1>a, <1>b, <2>1, <2>2, <2>3, WithStatusEffect
       DEF Approved, ApprovalsHonest
  <2>6. QED
    BY <1>b, <2>3, <2>4, <2>5 DEF AdminHonest, PeerCxsHonest, ApprovalsHonest
<1>2. ASSUME NEW site \in Site, NEW id \in PeerCxId, RevokePeerCx(a, site, id)
      PROVE  UNCHANGED store /\ AdminHonest(a)'
  <2> DEFINE next == revokePeerCx(store[site], id)
  <2>1. /\ UNCHANGED <<store, approved>> /\ HasPeerCx(store[site], id)
        /\ admin'[a].state = next /\ admin'[a].site = site
    BY <1>2 DEF RevokePeerCx, Start, history, TypeOK
  <2>2. /\ next.nominations = store[site].nominations
        /\ \A x \in PeerCxId \ {id} : next.peerCxs[x] = store[site].peerCxs[x]
    BY DEF revokePeerCx, TypeOK, PeerCxSetupState
  <2> HIDE DEF next
  <2>3. PeerCxsHonest(next)
    BY <1>a, <2>1, <2>2 DEF PeerCxsHonest, HasPeerCx
  <2>4. site = "green" => ApprovalsHonest(next)
    BY <1>a, <2>2 DEF ApprovalsHonest, Approved, On
  <2>5. QED
    BY <1>b, <2>1, <2>3, <2>4 DEF AdminHonest, PeerCxsHonest, ApprovalsHonest
<1>3. CASE CommitAdmin(a)
  <2>1. /\ admin[a].busy /\ admin'[a].busy = FALSE
        /\ store' = [store EXCEPT ![admin[a].site] = admin[a].state]
        /\ approved' = approved
    BY <1>3 DEF CommitAdmin, Save, IdleAdmin, history, TypeOK
  <2>2. \A site \in Site : PeerCxsHonest(store[site])'
    BY <1>a, <1>b, <2>1 DEF AdminHonest, PeerCxsHonest, TypeOK
  <2>3. ApprovalsHonest(store["green"])'
    BY <1>a, <1>b, <2>1 DEF AdminHonest, ApprovalsHonest, TypeOK, Site
  <2>4. QED
    BY <2>1, <2>2, <2>3 DEF AdminHonest
<1>4. QED
  BY <1>f, <1>1, <1>2, <1>3 DEF Administrator

\* Time, losses and kills keep the trace.
LEMMA EnvironmentTraced ==
  ASSUME TypeOK, ActivationTraced, Environment
  PROVE  ActivationTraced'
<1>a. UNCHANGED <<store, approved, accepted, activated>>
  BY DEF Environment, AgreementEnds, Lose, KillCall, KillHandler, KillAdmin,
     history
<1>b. /\ \A site \in Site : PeerCxsHonest(store[site])'
      /\ ApprovalsHonest(store["green"])'
      /\ activated' \subseteq approved' \cap accepted'
  BY <1>a DEF ActivationTraced, PeerCxsHonest, ApprovalsHonest
<1>1. ASSUME NEW site \in Site, NEW instant \in EndInstant, AgreementEnds(site, instant)
      PROVE  ActivationTraced'
  BY <1>1, <1>a, <1>b DEF AgreementEnds, ActivationTraced, CallHonest,
     HandlerHonest, MessageHonest, AdminHonest, PeerCxsHonest, ApprovalsHonest
<1>2. ASSUME NEW b \in Call, Lose(b) \/ KillCall(b) \/ KillHandler(b)
      PROVE  ActivationTraced'
  <2>1. /\ admin' = admin
        /\ \A x \in Call \ {b} : /\ call'[x] = call[x] /\ wire'[x] = wire[x]
                                 /\ handler'[x] = handler[x]
    BY <1>2 DEF Lose, KillCall, KillHandler, Send, TypeOK
  <2>2. CallHonest(b) /\ HandlerHonest(b) /\ MessageHonest(b)
    BY DEF ActivationTraced
  <2>3. CASE Lose(b)
    <3>1. wire'[b] = Quiet /\ UNCHANGED <<call, handler>> /\ ~handler[b].busy
      BY <2>3 DEF Lose, Send, TypeOK
    <3>2. CallHonest(b)' /\ HandlerHonest(b)' /\ MessageHonest(b)'
      BY <1>a, <2>2, <3>1, IdleHonest
         DEF CallHonest, HandlerHonest, MessageHonest, PeerCxsHonest
    <3>3. QED
      BY <1>a, <1>b, <2>1, <3>2, SlotFrame
  <2>4. CASE KillCall(b)
    <3>1. call'[b] = IdleCall /\ UNCHANGED <<wire, handler>>
      BY <2>4 DEF KillCall, TypeOK
    <3>2. CallHonest(b)' /\ HandlerHonest(b)' /\ MessageHonest(b)'
      BY <1>a, <2>2, <3>1, IdleHonest
         DEF CallHonest, HandlerHonest, MessageHonest, PeerCxsHonest,
             ApprovalsHonest
    <3>3. QED
      BY <1>a, <1>b, <2>1, <3>2, SlotFrame
  <2>5. CASE KillHandler(b)
    <3>1. /\ wire'[b] = Quiet /\ handler'[b] = IdleHandler /\ call' = call
          /\ handler[b].busy
      BY <2>5 DEF KillHandler, Send, TypeOK
    <3>2. CallHonest(b)' /\ HandlerHonest(b)' /\ MessageHonest(b)'
      BY <1>a, <2>2, <3>1, IdleHonest
         DEF CallHonest, HandlerHonest, MessageHonest, PeerCxsHonest
    <3>3. QED
      BY <1>a, <1>b, <2>1, <3>2, SlotFrame
  <2>6. QED
    BY <1>2, <2>3, <2>4, <2>5
<1>3. ASSUME NEW a \in Admin, KillAdmin(a)
      PROVE  ActivationTraced'
  <2>1. /\ UNCHANGED <<call, wire, handler>> /\ admin'[a].busy = FALSE
        /\ \A x \in Admin \ {a} : admin'[x] = admin[x]
    BY <1>3 DEF KillAdmin, IdleAdmin, TypeOK
  <2>2. \A x \in Admin : AdminHonest(x)'
    BY <1>a, <2>1 DEF ActivationTraced, AdminHonest, PeerCxsHonest,
       ApprovalsHonest
  <2>3. \A b \in Call : CallHonest(b)' /\ HandlerHonest(b)' /\ MessageHonest(b)'
    BY <1>a, <2>1 DEF ActivationTraced, CallHonest, HandlerHonest, MessageHonest,
       PeerCxsHonest, ApprovalsHonest
  <2>4. QED
    BY <1>b, <2>2, <2>3 DEF ActivationTraced
<1>4. QED
  BY <1>1, <1>2, <1>3 DEF Environment

-----------------------------------------------------------------------------
(* The theorems. *)

\* Type correctness and the trace hold together, initially and after every
\* step: a handler can only be typed once it is known to hold its request.
LEMMA InductiveInvariant == Spec => [](TypeOK /\ ActivationTraced)
<1>1. Init => TypeOK /\ ActivationTraced
  <2> SUFFICES ASSUME Init PROVE TypeOK /\ ActivationTraced
    OBVIOUS
  <2>1. TypeOK
    BY EmptyStateType, IdleTypes DEF Init, TypeOK
  <2>2. \A site \in Site : store[site] = emptyState
    BY DEF Init
  <2>3. \A b \in Call : CallHonest(b) /\ HandlerHonest(b) /\ MessageHonest(b)
    BY IdleHonest DEF Init, CallHonest, HandlerHonest, MessageHonest
  <2>4. \A a \in Admin : AdminHonest(a)
    BY DEF Init, AdminHonest, IdleAdmin
  <2>5. QED
    BY <2>1, <2>2, <2>3, <2>4, EmptyStateHonest
       DEF ActivationTraced, Site, Init
<1>2. TypeOK /\ ActivationTraced /\ [Next]_vars => (TypeOK /\ ActivationTraced)'
  <2> SUFFICES ASSUME TypeOK, ActivationTraced, [Next]_vars
               PROVE  TypeOK' /\ ActivationTraced'
    OBVIOUS
  <2>1. ASSUME NEW b \in Call, Blue(b) PROVE TypeOK' /\ ActivationTraced'
    BY <2>1, BlueType, BlueTraced
  <2>2. ASSUME NEW b \in Call, Green(b) PROVE TypeOK' /\ ActivationTraced'
    BY <2>2, GreenType, GreenTraced
  <2>3. ASSUME NEW a \in Admin, Administrator(a)
        PROVE  TypeOK' /\ ActivationTraced'
    BY <2>3, AdministratorType, AdministratorTraced
  <2>4. CASE Environment
    BY <2>4, EnvironmentType, EnvironmentTraced
  <2>5. CASE UNCHANGED vars
    BY <2>5 DEF vars, TypeOK, ActivationTraced, CallHonest, HandlerHonest,
       MessageHonest, AdminHonest, PeerCxsHonest, ApprovalsHonest
  <2>6. QED
    BY <2>1, <2>2, <2>3, <2>4, <2>5 DEF Next
<1>3. QED
  BY <1>1, <1>2, PTL DEF Spec

\* Every variable of the handshake keeps its type, for any sets of
\* invitations, IDs, terms, invocations and administrators.
THEOREM TypeCorrect == Spec => []TypeOK
  BY InductiveInvariant, PTL

\* Every activation, stored, held by an invocation or under way, traces back
\* to Green's administrator and to Blue's acceptance.
THEOREM Traced == Spec => []ActivationTraced
  BY InductiveInvariant, PTL

\* No tenant activates a PeerCX on its own word, however many invocations
\* race, whatever is lost, late or killed.
THEOREM Bilateral == Spec => []BilateralActivation
<1>1. ActivationTraced => BilateralActivation
  BY DEF ActivationTraced, BilateralActivation, PeerCxsHonest
<1>2. QED
  BY <1>1, Traced, PTL

-----------------------------------------------------------------------------
(* What every copy of a tenant's setup state has in common, the one that   *)
(* is stored and those that invocations hold and will write over it.  A    *)
(* stale copy can undo what another wrote, but it is itself the result of  *)
(* legal transitions, and this is what they keep.                          *)

\* The setup states of a tenant: stored, held by an administrator's invocation,
\* held by Blue's calls or Green's handlers.
HeldBy(site) ==
  {store[site]}
    \cup {admin[a].state :
            a \in {x \in Admin : admin[x].busy /\ admin[x].site = site}}
    \cup (IF site = "blue" THEN {call[b].state : b \in Call}
          ELSE {handler[b].state : b \in Call})

\* How a state s comes from a state t, but for a consent of Blue's.
Changed(site, t, s) ==
  \/ s = t
  \/ /\ site = "blue"
     /\ \E b \in Call :
          /\ wire[b].kind = "proposal"
          /\ SameAgreement(t, wire[b]) /\ Pending(t, wire[b].corr)
          /\ s = WithStatus(t, wire[b].corr, "awaiting-blue-confirmation")
  \/ /\ site = "green"
     /\ \E b \in Call :
          /\ wire[b].kind = "nominate"
          /\ wire[b].terms = InvitedTerms[wire[b].corr]
          /\ s = RecordNomination(t, wire[b].corr, wire[b].peerCxId, wire[b].terms)
  \/ /\ site = "green"
     /\ \E c \in Corr, status \in NominationStatus \ {"active"} :
          Pending(t, c) /\ s = WithStatus(t, c, status)
  \/ \E c \in Corr : Recorded(t, c) /\ ~Pending(t, c) /\ s = Activate(t, c)
  \/ \E id \in PeerCxId : HasPeerCx(t, id) /\ s = revokePeerCx(t, id)

\* Every copy is a setup state.
LEMMA HeldType ==
  ASSUME TypeOK, NEW site \in Site
  PROVE  HeldBy(site) \subseteq PeerCxSetupState
  BY DEF HeldBy, TypeOK

\* A consent leaves one new copy, with one new record or none.
LEMMA NominateStep ==
  ASSUME TypeOK, NEW b \in Call, NEW c \in Corr, NEW terms \in Terms,
         NominateSite(b, c, terms)
  PROVE  \E id \in PeerCxId :
           /\ Recorded(store["blue"], c) => id = On(store["blue"], c).peerCxId
           /\ ~Recorded(store["blue"], c) => id \notin minted
           /\ minted' = minted \cup {id}
           /\ call' = [call EXCEPT ![b] =
                [step |-> "nominating",
                 state |-> RecordNomination(store["blue"], c, id, terms),
                 request |-> Envelope("nominate", c, id, terms)]]
           /\ HeldBy("green")' = HeldBy("green")
           /\ HeldBy("blue")' \subseteq
                HeldBy("blue") \cup {RecordNomination(store["blue"], c, id, terms)}
           /\ wire' = wire
<1>1. PICK id : /\ id \in IF Recorded(store["blue"], c)
                          THEN {On(store["blue"], c).peerCxId}
                          ELSE PeerCxId \ minted
                /\ minted' = minted \cup {id}
                /\ call' = [call EXCEPT ![b] =
                     [step |-> "nominating",
                      state |-> nominatePeerCx(store["blue"], c, id, terms),
                      request |-> Envelope("nominate", c, id, terms)]]
  BY DEF NominateSite
<1>2. UNCHANGED <<store, wire, handler, admin>>
  BY DEF NominateSite
<1>3. store["blue"] \in PeerCxSetupState
  BY DEF TypeOK, Site
<1>4. id \in PeerCxId
  BY <1>1, <1>3 DEF Recorded, On, PeerCxSetupState, Nomination, NoNomination
<1>5. HeldBy("green")' = HeldBy("green")
  BY <1>2 DEF HeldBy
<1>6. \A x \in Call : call'[x].state =
        IF x = b THEN RecordNomination(store["blue"], c, id, terms)
        ELSE call[x].state
  BY <1>1 DEF nominatePeerCx, TypeOK
<1>7. HeldBy("blue")' \subseteq
        HeldBy("blue") \cup {RecordNomination(store["blue"], c, id, terms)}
  BY <1>2, <1>6 DEF HeldBy
<1>8. QED
  BY <1>1, <1>2, <1>4, <1>5, <1>7 DEF nominatePeerCx

\* Every other step only copies, drops or changes copies, one transition at a
\* time.
LEMMA HeldStep ==
  ASSUME TypeOK, ActivationTraced, Next,
         ~ \E b \in Call, c \in Corr, terms \in Terms : NominateSite(b, c, terms),
         NEW site \in Site, NEW s \in HeldBy(site)'
  PROVE  \E t \in HeldBy(site) \cup {emptyState} : Changed(site, t, s)
<1>a. SUFFICES ASSUME s \notin HeldBy(site), s # emptyState
               PROVE  \E t \in HeldBy(site) : Changed(site, t, s)
  BY DEF Changed
<1>b. /\ IdleCall.state = emptyState
      /\ IdleHandler.state = emptyState
      /\ store[site] \in HeldBy(site)
      /\ \A b \in Call : /\ site = "blue" => call[b].state \in HeldBy(site)
                         /\ site = "green" => handler[b].state \in HeldBy(site)
  BY DEF HeldBy, IdleCall, IdleHandler
<1>c. s = store'[site] \/ (\E a \in Admin : admin'[a].busy /\ admin'[a].site = site
                                            /\ s = admin'[a].state)
        \/ (site = "blue" /\ \E b \in Call : s = call'[b].state)
        \/ (site = "green" /\ \E b \in Call : s = handler'[b].state)
  BY DEF HeldBy, Site
<1>d. /\ s # store[site]
      /\ \A a \in Admin : admin[a].busy /\ admin[a].site = site
                            => s # admin[a].state
      /\ site = "blue" => \A b \in Call : s # call[b].state
      /\ site = "green" => \A b \in Call : s # handler[b].state
  BY <1>a DEF HeldBy
<1>1. ASSUME NEW b \in Call, RecordConsent(b) PROVE FALSE
  <2>1. /\ store' = [store EXCEPT !["blue"] = call[b].state]
        /\ \A x \in Call : call'[x].state = IF x = b THEN emptyState
                                            ELSE call[x].state
        /\ UNCHANGED <<handler, admin>>
    BY <1>1, <1>b DEF RecordConsent, Save, TypeOK, IdleCall
  <2>2. QED
    BY <1>a, <1>c, <1>d, <2>1 DEF TypeOK, Site
<1>2. ASSUME NEW b \in Call,
             \/ NominationReceived(b) \/ GiveUp(b) \/ KillCall(b)
             \/ ReceivePoll(b) \/ Lose(b) \/ KillHandler(b)
      PROVE  FALSE
  <2>1. /\ UNCHANGED <<store, admin>>
        /\ \A x \in Call : call'[x].state \in {call[x].state, emptyState}
        /\ \A x \in Call : handler'[x].state \in {handler[x].state, emptyState}
    BY <1>2, <1>b DEF NominationReceived, GiveUp, KillCall, ReceivePoll, Lose,
       KillHandler, TypeOK
  <2>2. QED
    BY <1>a, <1>c, <1>d, <2>1
<1>3. ASSUME NEW b \in Call, NEW c \in Corr, ConfirmActivation(b, c) PROVE FALSE
  <2>1. /\ \A x \in Call : call'[x].state \in {call[x].state, store["blue"]}
        /\ UNCHANGED <<store, handler, admin>>
    BY <1>3 DEF ConfirmActivation, TypeOK, IdleCall
  <2>2. QED
    BY <1>a, <1>c, <1>d, <2>1 DEF TypeOK, Site
<1>4. ASSUME NEW b \in Call, AcceptProposal(b)
      PROVE  \E t \in HeldBy(site) : Changed(site, t, s)
  <2> DEFINE next == acceptActivationProposal(call[b].state, wire[b])
  <2>1. /\ store' = [store EXCEPT !["blue"] = next]
        /\ \A x \in Call : call'[x].state = IF x = b THEN next
                                            ELSE call[x].state
        /\ UNCHANGED <<handler, admin>>
    BY <1>4 DEF AcceptProposal, Save, TypeOK, IdleCall
  <2>2. site = "blue" /\ s = next
    BY <1>c, <1>d, <2>1 DEF TypeOK, Site
  <2>3. Changed(site, call[b].state, s)
    BY <1>4, <2>2 DEF AcceptProposal, Arrived, ProposalAcceptable, Changed,
       acceptActivationProposal, Pending
  <2>4. QED
    BY <1>b, <2>2, <2>3
<1>5. ASSUME NEW b \in Call, ActivateBlue(b)
      PROVE  \E t \in HeldBy(site) : Changed(site, t, s)
  <2> DEFINE next == activateAfterConfirmation(call[b].state, wire[b])
  <2>1. /\ store' = [store EXCEPT !["blue"] = next]
        /\ \A x \in Call : call'[x].state \in {call[x].state, emptyState}
        /\ UNCHANGED <<handler, admin>>
    BY <1>5, <1>b DEF ActivateBlue, Save, TypeOK, IdleCall
  <2>2. site = "blue" /\ s = next
    BY <1>a, <1>c, <1>d, <2>1 DEF TypeOK, Site
  <2>3. wire[b].corr \in Corr
    BY DEF TypeOK, Message
  <2>4. Changed(site, call[b].state, s)
    BY <1>5, <2>2, <2>3 DEF ActivateBlue, ReceiptAcceptable, Changed,
       activateAfterConfirmation, Pending
  <2>5. QED
    BY <1>b, <2>2, <2>4
<1>6. ASSUME NEW b \in Call, ReceiveNomination(b)
      PROVE  \E t \in HeldBy(site) : Changed(site, t, s)
  <2> DEFINE next == receivePeerCxNomination(store["green"], wire[b])
  <2>1. /\ UNCHANGED <<store, call, admin>>
        /\ \/ handler' = handler
           \/ /\ NominationAccepted(wire[b], ended["green"])
              /\ \A x \in Call : handler'[x].state \in {handler[x].state, next}
    <3>1. CASE Refuse(b)
      BY <1>6, <3>1 DEF ReceiveNomination, Refuse
    <3>2. CASE NominationAccepted(wire[b], ended["green"]) /\ Handle(b, next)
      BY <1>6, <3>2 DEF ReceiveNomination, Handle, TypeOK
    <3>3. QED
      BY <1>6, <3>1, <3>2 DEF ReceiveNomination
  <2>2. /\ site = "green" /\ s = next
        /\ NominationAccepted(wire[b], ended["green"])
    BY <1>c, <1>d, <2>1
  <2>3. Changed(site, store["green"], s)
    BY <1>6, <2>2 DEF ReceiveNomination, Arrived, NominationAccepted, Changed,
       receivePeerCxNomination
  <2>4. QED
    BY <1>b, <2>2, <2>3
<1>7. ASSUME NEW b \in Call, ReceiveConfirmation(b)
      PROVE  \E t \in HeldBy(site) : Changed(site, t, s)
  <2> DEFINE next == receivePeerCxConfirmation(store["green"], wire[b])
  <2>1. /\ UNCHANGED <<store, call, admin>>
        /\ \/ handler' = handler
           \/ /\ ConfirmationAcceptable(store["green"], wire[b], ended["green"])
              /\ \A x \in Call : handler'[x].state \in {handler[x].state, next}
    <3>1. CASE Refuse(b)
      BY <1>7, <3>1 DEF ReceiveConfirmation, Refuse
    <3>2. CASE ConfirmationAcceptable(store["green"], wire[b], ended["green"]) /\ Handle(b, next)
      BY <1>7, <3>2 DEF ReceiveConfirmation, Handle, TypeOK
    <3>3. QED
      BY <1>7, <3>1, <3>2 DEF ReceiveConfirmation
  <2>2. /\ site = "green" /\ s = next
        /\ ConfirmationAcceptable(store["green"], wire[b], ended["green"])
    BY <1>c, <1>d, <2>1
  <2>3. wire[b].corr \in Corr
    BY DEF TypeOK, Message
  <2>4. Changed(site, store["green"], s)
    BY <2>2, <2>3 DEF ConfirmationAcceptable, SameAgreement, SameVersion,
       Approved, Pending, Changed, receivePeerCxConfirmation
  <2>5. QED
    BY <1>b, <2>2, <2>4
<1>8. ASSUME NEW b \in Call, CommitHandler(b) PROVE FALSE
  <2>1. /\ store' = [store EXCEPT !["green"] = handler[b].state]
        /\ \A x \in Call : handler'[x].state \in {handler[x].state, emptyState}
        /\ UNCHANGED <<call, admin>>
    BY <1>8, <1>b DEF CommitHandler, Save, TypeOK
  <2>2. QED
    BY <1>a, <1>c, <1>d, <2>1 DEF TypeOK, Site
<1>9. ASSUME NEW a \in Admin, NEW at \in Site, NEW next, Start(a, at, next)
      PROVE  site = at /\ s = next
  <2>1. /\ UNCHANGED <<store, call, handler>>
        /\ \A x \in Admin \ {a} : admin'[x] = admin[x]
        /\ admin'[a] = [busy |-> TRUE, site |-> at, state |-> next]
    BY <1>9 DEF Start, TypeOK
  <2>2. QED
    BY <1>c, <1>d, <2>1
<1>10. ASSUME NEW a \in Admin, NEW c \in Corr,
              NEW decision \in {"approve", "reject", "leave-pending"},
              NEW reviewed \in BOOLEAN,
              DecideNomination(a, c, decision, reviewed)
       PROVE  \E t \in HeldBy(site) : Changed(site, t, s)
  <2>1. /\ site = "green"
        /\ s = decidePeerCxNomination(store["green"], c, decision, reviewed)
        /\ Pending(store["green"], c)
    BY <1>9, <1>10 DEF DecideNomination, Site
  <2>2. DecidedStatus(decision, reviewed) \in NominationStatus \ {"active"}
    BY DEF DecidedStatus, NominationStatus
  <2>3. Changed(site, store["green"], s)
    BY <2>1, <2>2 DEF Changed, decidePeerCxNomination
  <2>4. QED
    BY <1>b, <2>1, <2>3
<1>11. ASSUME NEW a \in Admin, NEW at \in Site, NEW id \in PeerCxId,
              RevokePeerCx(a, at, id)
       PROVE  \E t \in HeldBy(site) : Changed(site, t, s)
  <2>1. /\ site = at /\ s = revokePeerCx(store[at], id)
        /\ HasPeerCx(store[at], id)
    BY <1>9, <1>11 DEF RevokePeerCx
  <2>2. QED
    BY <1>b, <2>1 DEF Changed
<1>12. ASSUME NEW a \in Admin, CommitAdmin(a) PROVE FALSE
  <2>1. /\ store' = [store EXCEPT ![admin[a].site] = admin[a].state]
        /\ admin[a].busy
        /\ admin'[a].busy = FALSE
        /\ \A x \in Admin \ {a} : admin'[x] = admin[x]
        /\ UNCHANGED <<call, handler>>
    BY <1>12 DEF CommitAdmin, Save, TypeOK, IdleAdmin
  <2>2. QED
    BY <1>c, <1>d, <2>1 DEF TypeOK
<1>13. ASSUME NEW a \in Admin, KillAdmin(a) PROVE FALSE
  <2>1. /\ admin'[a].busy = FALSE
        /\ \A x \in Admin \ {a} : admin'[x] = admin[x]
        /\ UNCHANGED <<store, call, handler>>
    BY <1>13 DEF KillAdmin, TypeOK, IdleAdmin
  <2>2. QED
    BY <1>c, <1>d, <2>1
<1>14. ASSUME NEW at \in Site, NEW instant \in EndInstant, AgreementEnds(at, instant)
       PROVE  FALSE
  BY <1>14, <1>c, <1>d DEF AgreementEnds
<1>15. QED
  BY <1>1, <1>2, <1>3, <1>4, <1>5, <1>6, <1>7, <1>8, <1>10, <1>11, <1>12,
     <1>13, <1>14
     DEF Next, Blue, Green, Administrator, Environment

-----------------------------------------------------------------------------
(* The two lists of every copy agree. *)

Consistent(s) ==
  \A id \in PeerCxId :
    HasPeerCx(s, id) <=> \E c \in Corr : /\ On(s, c).status = "active"
                                         /\ On(s, c).peerCxId = id

HeldConsistent == \A site \in Site : \A s \in HeldBy(site) : Consistent(s)

\* A tenant that has stored nothing has neither.
LEMMA EmptyConsistent == Consistent(emptyState)
  BY DEF Consistent, HasPeerCx, On, emptyState, NoNomination

\* A new record is not active.
LEMMA RecordConsistent ==
  ASSUME NEW s \in PeerCxSetupState, Consistent(s), NEW c \in Corr,
         NEW id \in PeerCxId, NEW terms \in Terms
  PROVE  Consistent(RecordNomination(s, c, id, terms))
<1>1. CASE Recorded(s, c)
  BY <1>1 DEF RecordNomination
<1>2. CASE ~Recorded(s, c)
  <2>1. /\ RecordNomination(s, c, id, terms).peerCxs = s.peerCxs
        /\ \A d \in Corr \ {c} : On(RecordNomination(s, c, id, terms), d) = On(s, d)
        /\ On(RecordNomination(s, c, id, terms), c).status # "active"
    BY <1>2 DEF RecordNomination, On, PeerCxSetupState
  <2>2. On(s, c).status # "active"
    BY <1>2 DEF Recorded
  <2>3. QED
    BY <2>1, <2>2 DEF Consistent, HasPeerCx
<1>3. QED
  BY <1>1, <1>2

\* Moving a pending record to another status than active leaves it inactive.
LEMMA PendingConsistent ==
  ASSUME NEW s \in PeerCxSetupState, Consistent(s), NEW c \in Corr, Pending(s, c),
         NEW status \in NominationStatus \ {"active"}
  PROVE  Consistent(WithStatus(s, c, status))
<1>1. Recorded(s, c) /\ On(s, c).status # "active"
  BY DEF Pending, Recorded
<1>2. /\ \A d \in Corr \ {c} : On(WithStatus(s, c, status), d) = On(s, d)
      /\ On(WithStatus(s, c, status), c).status # "active"
      /\ WithStatus(s, c, status).peerCxs = s.peerCxs
  BY <1>1, WithStatusEffect
<1>3. QED
  BY <1>1, <1>2 DEF Consistent, HasPeerCx

\* An activation writes both.
LEMMA ActivateConsistent ==
  ASSUME NEW s \in PeerCxSetupState, Consistent(s), NEW c \in Corr, Recorded(s, c)
  PROVE  Consistent(Activate(s, c))
<1>1. WithStatus(s, c, "active") \in PeerCxSetupState
  BY WithStatusType DEF NominationStatus
<1>2. /\ \A d \in Corr : On(Activate(s, c), d) = On(WithStatus(s, c, "active"), d)
      /\ \A id \in PeerCxId :
           HasPeerCx(Activate(s, c), id) <=>
             HasPeerCx(WithStatus(s, c, "active"), id) \/ id = On(s, c).peerCxId
  BY <1>1 DEF Activate, PeerCxSetupState, On, HasPeerCx
<1>3. /\ \A d \in Corr : On(Activate(s, c), d).peerCxId = On(s, d).peerCxId
      /\ \A d \in Corr \ {c} : On(Activate(s, c), d) = On(s, d)
      /\ On(Activate(s, c), c).status = "active"
      /\ \A id \in PeerCxId : HasPeerCx(Activate(s, c), id) <=>
                                HasPeerCx(s, id) \/ id = On(s, c).peerCxId
  BY <1>2, WithStatusEffect DEF NominationStatus, HasPeerCx
<1>4. QED
  BY <1>3 DEF Consistent

\* A revocation is of a PeerCX that is there.
LEMMA RevokeConsistent ==
  ASSUME NEW s \in PeerCxSetupState, Consistent(s), NEW id \in PeerCxId,
         HasPeerCx(s, id)
  PROVE  Consistent(revokePeerCx(s, id))
<1>1. /\ \A c \in Corr : On(revokePeerCx(s, id), c) = On(s, c)
      /\ \A i \in PeerCxId : HasPeerCx(revokePeerCx(s, id), i) <=> HasPeerCx(s, i)
  BY DEF revokePeerCx, PeerCxSetupState, On, HasPeerCx
<1>2. QED
  BY <1>1 DEF Consistent

\* So every transition keeps them in agreement.
LEMMA ChangedConsistent ==
  ASSUME TypeOK, NEW site \in Site, NEW t \in PeerCxSetupState, Consistent(t),
         NEW s, Changed(site, t, s)
  PROVE  Consistent(s)
<1>1. ASSUME NEW b \in Call, wire[b].kind \in {"nominate", "proposal"}
      PROVE  wire[b].corr \in Corr /\ wire[b].peerCxId \in PeerCxId
             /\ wire[b].terms \in Terms
  BY <1>1 DEF TypeOK, Message
<1>2. "awaiting-blue-confirmation" \in NominationStatus \ {"active"}
  BY DEF NominationStatus
<1>3. QED
  BY <1>1, <1>2, RecordConsistent, PendingConsistent, ActivateConsistent,
     RevokeConsistent DEF Changed

\* Every copy, stored or held, is consistent at all times.
LEMMA ConsistentInductive == Spec => []HeldConsistent
<1>1. Init => HeldConsistent
  BY EmptyConsistent
     DEF Init, HeldConsistent, HeldBy, Site, IdleCall, IdleHandler, IdleAdmin
<1>2. TypeOK /\ ActivationTraced /\ HeldConsistent /\ [Next]_vars => HeldConsistent'
  <2> SUFFICES ASSUME TypeOK, ActivationTraced, HeldConsistent, [Next]_vars
               PROVE  HeldConsistent'
    OBVIOUS
  <2>1. ASSUME NEW b \in Call, NEW c \in Corr, NEW terms \in Terms,
               NominateSite(b, c, terms)
        PROVE  HeldConsistent'
    <3>1. PICK id \in PeerCxId :
            /\ HeldBy("green")' = HeldBy("green")
            /\ HeldBy("blue")' \subseteq
                 HeldBy("blue") \cup {RecordNomination(store["blue"], c, id, terms)}
      BY <2>1, NominateStep
    <3>2. store["blue"] \in PeerCxSetupState /\ Consistent(store["blue"])
      BY DEF HeldConsistent, HeldBy, Site, TypeOK
    <3>3. Consistent(RecordNomination(store["blue"], c, id, terms))
      BY <3>2, RecordConsistent
    <3>4. QED
      BY <3>1, <3>3 DEF HeldConsistent, Site
  <2>2. ASSUME Next,
               ~ \E b \in Call, c \in Corr, terms \in Terms : NominateSite(b, c, terms)
        PROVE  HeldConsistent'
    <3> SUFFICES ASSUME NEW site \in Site, NEW s \in HeldBy(site)'
                 PROVE  Consistent(s)
      BY DEF HeldConsistent
    <3>1. PICK t \in HeldBy(site) \cup {emptyState} : Changed(site, t, s)
      BY <2>2, HeldStep
    <3>2. t \in PeerCxSetupState /\ Consistent(t)
      BY HeldType, EmptyStateType, EmptyConsistent DEF HeldConsistent
    <3>3. QED
      BY <3>1, <3>2, ChangedConsistent
  <2>3. CASE UNCHANGED vars
    BY <2>3 DEF vars, HeldConsistent, HeldBy
  <2>4. QED
    BY <2>1, <2>2, <2>3
<1>3. QED
  BY <1>1, <1>2, InductiveInvariant, PTL DEF Spec

\* However invocations overwrite each other's states, a tenant holds a PeerCX
\* exactly when one of its active nominations names it.
THEOREM Consistency == Spec => []RecordsConsistent
<1>1. HeldConsistent => RecordsConsistent
  BY DEF HeldConsistent, RecordsConsistent, HeldBy, Consistent
<1>2. QED
  BY <1>1, ConsistentInductive, PTL

-----------------------------------------------------------------------------
(* Records, once made, keep their ID and terms; only their status moves. *)

SameRecords(t, s) ==
  \A d \in Corr : /\ Recorded(s, d) <=> Recorded(t, d)
                  /\ On(s, d).peerCxId = On(t, d).peerCxId
                  /\ On(s, d).terms = On(t, d).terms

\* A status changes no other field.
LEMMA WithStatusKeeps ==
  ASSUME NEW s \in PeerCxSetupState, NEW c \in Corr, Recorded(s, c),
         NEW status \in NominationStatus
  PROVE  SameRecords(s, WithStatus(s, c, status))
  BY DEF SameRecords, WithStatus, Recorded, On, PeerCxSetupState, Nomination,
         NoNomination, NominationStatus

\* Nor does an activation.
LEMMA ActivateKeeps ==
  ASSUME NEW s \in PeerCxSetupState, NEW c \in Corr, Recorded(s, c)
  PROVE  /\ SameRecords(s, Activate(s, c))
         /\ \A d \in Corr : On(Activate(s, c), d) = On(WithStatus(s, c, "active"), d)
<1>1. WithStatus(s, c, "active") \in PeerCxSetupState
  BY WithStatusType DEF NominationStatus
<1>2. \A d \in Corr : On(Activate(s, c), d) = On(WithStatus(s, c, "active"), d)
  BY <1>1 DEF Activate, PeerCxSetupState, On
<1>3. QED
  BY <1>2, WithStatusKeeps DEF NominationStatus, SameRecords, Recorded

\* A revocation touches no record at all.
LEMMA RevokeKeeps ==
  ASSUME NEW s \in PeerCxSetupState, NEW id \in PeerCxId
  PROVE  \A d \in Corr : On(revokePeerCx(s, id), d) = On(s, d)
  BY DEF revokePeerCx, PeerCxSetupState, On

\* What a new record holds, and that no other changes.
LEMMA RecordedAnew ==
  ASSUME NEW s \in PeerCxSetupState, NEW c \in Corr, NEW id \in PeerCxId,
         NEW terms \in Terms
  PROVE  LET next == RecordNomination(s, c, id, terms) IN
         /\ \A d \in Corr \ {c} : On(next, d) = On(s, d)
         /\ \/ On(next, c) = On(s, c)
            \/ /\ ~Recorded(s, c)
               /\ On(next, c) = [status |-> "awaiting-green-approval",
                                 peerCxId |-> id, terms |-> terms]
  BY DEF RecordNomination, On, PeerCxSetupState

\* A proposal or a nomination that a step puts on the wire is what Green has on
\* record, or what its sender wrote down.
WireExplained(b) ==
  /\ wire'[b].kind = "proposal" =>
       \/ wire'[b] = wire[b]
       \/ /\ Recorded(store["green"], wire'[b].corr)
          /\ wire'[b].terms = On(store["green"], wire'[b].corr).terms
  /\ wire'[b].kind = "nominate" =>
       \/ wire'[b] = wire[b]
       \/ call[b].step = "nominating" /\ wire'[b] = call[b].request

LEMMA WireStep ==
  ASSUME TypeOK, ActivationTraced, Next, NEW b \in Call
  PROVE  WireExplained(b)
<1>1. ASSUME NEW x \in Call, NEW m, Send(x, m),
             m.kind \in {"nominate", "proposal"} =>
               \/ /\ m.kind = "proposal" /\ Recorded(store["green"], m.corr)
                  /\ m.terms = On(store["green"], m.corr).terms
               \/ m.kind = "nominate" /\ call[x].step = "nominating"
                  /\ m = call[x].request
      PROVE  WireExplained(b)
  BY <1>1 DEF Send, TypeOK, WireExplained
<1>2. ASSUME wire' = wire PROVE WireExplained(b)
  BY <1>2 DEF WireExplained
<1>3. Quiet.kind = "quiet"
  BY DEF Quiet, Envelope
<1>4. ASSUME NEW x \in Call, RecordConsent(x) PROVE WireExplained(b)
  <2>1. call[x].step = "nominating" /\ call[x].request.kind = "nominate"
    BY <1>4 DEF RecordConsent, ActivationTraced, CallHonest
  <2>2. QED
    BY <1>1, <1>4, <2>1 DEF RecordConsent
<1>5. ASSUME NEW x \in Call,
             \/ NominationReceived(x) \/ GiveUp(x) \/ ActivateBlue(x)
             \/ Lose(x) \/ KillHandler(x)
      PROVE  WireExplained(b)
  <2>1. Send(x, Quiet)
    BY <1>5 DEF NominationReceived, GiveUp, ActivateBlue, Lose, KillHandler
  <2>2. QED
    BY <1>1, <1>3, <2>1
<1>6. ASSUME NEW x \in Call, NEW c \in Corr, ConfirmActivation(x, c) PROVE WireExplained(b)
  <2>1. PICK m : Send(x, m) /\ m.kind = "poll"
    BY <1>6 DEF ConfirmActivation, Envelope
  <2>2. QED
    BY <1>1, <2>1
<1>7. ASSUME NEW x \in Call, AcceptProposal(x) PROVE WireExplained(b)
  <2>1. PICK m : Send(x, m) /\ m.kind = "confirm"
    BY <1>7 DEF AcceptProposal, Envelope
  <2>2. QED
    BY <1>1, <2>1
<1>8. ASSUME NEW x \in Call, ReceiveNomination(x) \/ ReceiveConfirmation(x)
      PROVE  WireExplained(b)
  <2>1. wire' = wire \/ Refuse(x)
    BY <1>8 DEF ReceiveNomination, ReceiveConfirmation, Handle
  <2>2. CASE Refuse(x)
    <3>1. PICK m : Send(x, m) /\ m.kind = "refused"
      BY <2>2 DEF Refuse, Envelope
    <3>2. QED
      BY <1>1, <3>1
  <2>3. QED
    BY <1>2, <2>1, <2>2
<1>9. ASSUME NEW x \in Call, ReceivePoll(x) PROVE WireExplained(b)
  <2>1. PICK m : /\ Send(x, m)
                 /\ m = proposePeerCxActivation(store["green"], wire[x],
                                                ended["green"])
    BY <1>9 DEF ReceivePoll
  <2>2. \/ m.kind = "refused"
        \/ /\ m.kind = "proposal" /\ Recorded(store["green"], m.corr)
           /\ m.terms = On(store["green"], m.corr).terms
    BY <2>1 DEF proposePeerCxActivation, SameVersion, Envelope
  <2>3. QED
    BY <1>1, <2>1, <2>2
<1>10. ASSUME NEW x \in Call, CommitHandler(x) PROVE WireExplained(b)
  <2>1. PICK m : Send(x, m) /\ m.kind \in {"activated", "received"}
    BY <1>10 DEF CommitHandler, TypeOK, Message
  <2>2. QED
    BY <1>1, <2>1
<1>11. ASSUME NEW x \in Call, Blue(x) \/ Green(x) PROVE WireExplained(b)
  BY <1>4, <1>5, <1>6, <1>7, <1>8, <1>9, <1>10, <1>2, <1>11
     DEF Blue, Green, NominateSite
<1>12. ASSUME NEW a \in Admin, Administrator(a) PROVE WireExplained(b)
  BY <1>2, <1>12 DEF Administrator, DecideNomination, RevokePeerCx, Start,
     CommitAdmin
<1>13. CASE Environment
  BY <1>5, <1>2, <1>13 DEF Environment, AgreementEnds, KillCall, KillAdmin
<1>14. QED
  BY <1>11, <1>12, <1>13 DEF Next

-----------------------------------------------------------------------------
(* The version and the end of the invitation. *)

AsInvited(terms, c) ==
  /\ terms.version = InvitedTerms[c].version
  /\ terms.expiresAt = InvitedTerms[c].expiresAt

\* Green records nothing else; Blue may, but nothing comes of it.
GreenTerms(s) == \A c \in Corr : Recorded(s, c) => AsInvited(On(s, c).terms, c)
BlueTerms(s) ==
  \A c \in Corr : Recorded(s, c) =>
    \/ Pending(s, c)
    \/ Approved(s, c) /\ AsInvited(On(s, c).terms, c)

TermsHeld ==
  /\ \A s \in HeldBy("blue") : BlueTerms(s)
  /\ \A s \in HeldBy("green") : GreenTerms(s)
  /\ \A b \in Call : wire[b].kind = "proposal"
                       => AsInvited(wire[b].terms, wire[b].corr)

\* There are no records to begin with.
LEMMA EmptyTerms == BlueTerms(emptyState) /\ GreenTerms(emptyState)
  BY DEF BlueTerms, GreenTerms, Recorded, On, emptyState, NoNomination

\* A new record of Blue's is pending, whatever its terms.
LEMMA NominateTerms ==
  ASSUME NEW s \in PeerCxSetupState, BlueTerms(s), NEW c \in Corr,
         NEW id \in PeerCxId, NEW terms \in Terms
  PROVE  BlueTerms(RecordNomination(s, c, id, terms))
<1>1. \A d \in Corr : \/ On(RecordNomination(s, c, id, terms), d) = On(s, d)
                      \/ Pending(RecordNomination(s, c, id, terms), d)
  BY RecordedAnew DEF Pending
<1>2. QED
  BY <1>1 DEF BlueTerms, Recorded, Approved, Pending

\* Blue's records leave pending only on a proposal of the invited terms.
LEMMA ChangedBlueTerms ==
  ASSUME TypeOK, TermsHeld, NEW t \in PeerCxSetupState, BlueTerms(t),
         NEW s, Changed("blue", t, s)
  PROVE  BlueTerms(s)
<1>1. CASE s = t
  BY <1>1
<1>2. ASSUME NEW b \in Call, wire[b].kind = "proposal",
             SameAgreement(t, wire[b]), Pending(t, wire[b].corr),
             s = WithStatus(t, wire[b].corr, "awaiting-blue-confirmation")
      PROVE  BlueTerms(s)
  <2> DEFINE c == wire[b].corr
  <2>1. c \in Corr /\ Recorded(t, c) /\ AsInvited(On(t, c).terms, c)
    BY <1>2 DEF TypeOK, Message, TermsHeld, SameAgreement, SameVersion, AsInvited
  <2>2. /\ SameRecords(t, s)
        /\ \A d \in Corr \ {c} : On(s, d) = On(t, d)
        /\ On(s, c).status = "awaiting-blue-confirmation"
    BY <1>2, <2>1, WithStatusKeeps, WithStatusEffect DEF NominationStatus
  <2>3. Approved(s, c) /\ AsInvited(On(s, c).terms, c)
    BY <2>1, <2>2 DEF Approved, SameRecords
  <2>4. QED
    BY <2>2, <2>3 DEF BlueTerms, Recorded, Approved, Pending
<1>3. ASSUME NEW c \in Corr, Recorded(t, c), ~Pending(t, c), s = Activate(t, c)
      PROVE  BlueTerms(s)
  <2>1. /\ SameRecords(t, s)
        /\ \A d \in Corr \ {c} : On(s, d) = On(t, d)
        /\ On(s, c).status = "active"
    BY <1>3, ActivateKeeps, ActivateEffect, WithStatusEffect DEF NominationStatus
  <2>2. Approved(s, c) /\ AsInvited(On(s, c).terms, c)
    BY <1>3, <2>1 DEF Approved, SameRecords, BlueTerms
  <2>3. QED
    BY <2>1, <2>2 DEF BlueTerms, Recorded, Approved, Pending
<1>4. ASSUME NEW id \in PeerCxId, s = revokePeerCx(t, id) PROVE BlueTerms(s)
  BY <1>4, RevokeKeeps DEF BlueTerms, Recorded, Approved, Pending
<1>5. QED
  BY <1>1, <1>2, <1>3, <1>4 DEF Changed

\* Green takes a nomination only on the invited terms, and keeps them.
LEMMA ChangedGreenTerms ==
  ASSUME TypeOK, NEW t \in PeerCxSetupState, GreenTerms(t),
         NEW s, Changed("green", t, s)
  PROVE  GreenTerms(s)
<1>1. ASSUME SameRecords(t, s) PROVE GreenTerms(s)
  BY <1>1 DEF SameRecords, GreenTerms
<1>2. ASSUME NEW b \in Call, wire[b].kind = "nominate",
             wire[b].terms = InvitedTerms[wire[b].corr],
             s = RecordNomination(t, wire[b].corr, wire[b].peerCxId, wire[b].terms)
      PROVE  GreenTerms(s)
  <2>1. wire[b].corr \in Corr /\ wire[b].peerCxId \in PeerCxId
        /\ wire[b].terms \in Terms
    BY <1>2 DEF TypeOK, Message
  <2>2. \A d \in Corr : \/ On(s, d) = On(t, d)
                        \/ On(s, d).terms = InvitedTerms[d]
    BY <1>2, <2>1, RecordedAnew
  <2>3. QED
    BY <2>2 DEF GreenTerms, Recorded, AsInvited
<1>3. ASSUME NEW c \in Corr, NEW status \in NominationStatus, Pending(t, c),
             s = WithStatus(t, c, status)
      PROVE  GreenTerms(s)
  BY <1>1, <1>3, WithStatusKeeps DEF Pending, Recorded
<1>4. ASSUME NEW c \in Corr, Recorded(t, c), s = Activate(t, c)
      PROVE  GreenTerms(s)
  BY <1>1, <1>4, ActivateKeeps
<1>5. ASSUME NEW id \in PeerCxId, s = revokePeerCx(t, id) PROVE GreenTerms(s)
  BY <1>1, <1>5, RevokeKeeps DEF SameRecords, Recorded
<1>6. QED
  BY <1>2, <1>3, <1>4, <1>5 DEF Changed

\* Every copy and every proposal keeps the invited version and end.
LEMMA TermsInductive == Spec => []TermsHeld
<1>1. Init => TermsHeld
  <2> SUFFICES ASSUME Init PROVE TermsHeld
    OBVIOUS
  <2>1. \A site \in Site : HeldBy(site) \subseteq {emptyState}
    BY DEF Init, HeldBy, Site, IdleCall, IdleHandler, IdleAdmin
  <2>2. \A b \in Call : wire[b].kind # "proposal"
    BY DEF Init, Quiet, Envelope
  <2>3. QED
    BY <2>1, <2>2, EmptyTerms DEF TermsHeld, Site
<1>2. TypeOK /\ ActivationTraced /\ TermsHeld /\ [Next]_vars => TermsHeld'
  <2> SUFFICES ASSUME TypeOK, ActivationTraced, TermsHeld, [Next]_vars
               PROVE  TermsHeld'
    OBVIOUS
  <2>a. store["green"] \in HeldBy("green") /\ store["blue"] \in HeldBy("blue")
    BY DEF HeldBy
  <2>b. ASSUME Next, NEW b \in Call, wire'[b].kind = "proposal"
        PROVE  AsInvited(wire'[b].terms, wire'[b].corr)
    <3>1. WireExplained(b)
      BY <2>b, WireStep
    <3>2. CASE wire'[b] = wire[b]
      BY <2>b, <3>2 DEF TermsHeld
    <3>3. CASE /\ Recorded(store["green"], wire'[b].corr)
               /\ wire'[b].terms = On(store["green"], wire'[b].corr).terms
      <4>1. wire'[b].corr \in Corr
        <5>1. TypeOK'
          BY <2>b, BlueType, GreenType, AdministratorType, EnvironmentType DEF Next
        <5>2. QED
          BY <5>1 DEF TypeOK, Message
      <4>2. QED
        BY <2>a, <3>3, <4>1 DEF TermsHeld, GreenTerms
    <3>4. QED
      BY <2>b, <3>1, <3>2, <3>3 DEF WireExplained
  <2>1. ASSUME NEW b \in Call, NEW c \in Corr, NEW terms \in Terms,
               NominateSite(b, c, terms)
        PROVE  TermsHeld'
    <3>1. PICK id \in PeerCxId :
            /\ HeldBy("green")' = HeldBy("green")
            /\ HeldBy("blue")' \subseteq
                 HeldBy("blue") \cup {RecordNomination(store["blue"], c, id, terms)}
            /\ wire' = wire
      BY <2>1, NominateStep
    <3>2. BlueTerms(RecordNomination(store["blue"], c, id, terms))
      BY <2>a, NominateTerms DEF TermsHeld, TypeOK, Site
    <3>3. QED
      BY <3>1, <3>2 DEF TermsHeld
  <2>2. ASSUME Next,
               ~ \E b \in Call, c \in Corr, terms \in Terms : NominateSite(b, c, terms)
        PROVE  TermsHeld'
    <3>1. ASSUME NEW s \in HeldBy("blue")' PROVE BlueTerms(s)
      <4>1. PICK t \in HeldBy("blue") \cup {emptyState} : Changed("blue", t, s)
        BY <2>2, HeldStep DEF Site
      <4>2. t \in PeerCxSetupState /\ BlueTerms(t)
        BY HeldType, EmptyStateType, EmptyTerms DEF TermsHeld, Site
      <4>3. QED
        BY <4>1, <4>2, ChangedBlueTerms
    <3>2. ASSUME NEW s \in HeldBy("green")' PROVE GreenTerms(s)
      <4>1. PICK t \in HeldBy("green") \cup {emptyState} : Changed("green", t, s)
        BY <2>2, HeldStep DEF Site
      <4>2. t \in PeerCxSetupState /\ GreenTerms(t)
        BY HeldType, EmptyStateType, EmptyTerms DEF TermsHeld, Site
      <4>3. QED
        BY <4>1, <4>2, ChangedGreenTerms
    <3>3. QED
      BY <2>2, <2>b, <3>1, <3>2 DEF TermsHeld
  <2>3. CASE UNCHANGED vars
    BY <2>3 DEF vars, TermsHeld, HeldBy
  <2>4. QED
    BY <2>1, <2>2, <2>3
<1>3. QED
  BY <1>1, <1>2, InductiveInvariant, PTL DEF Spec

\* Neither tenant approves, accepts or activates another version or end than the
\* invitation's, whatever a consent or a request under way carried.
THEOREM InvitedTermsOnly == Spec => []ActiveOnInvitedTerms
<1>1. TermsHeld => ActiveOnInvitedTerms
  <2> SUFFICES ASSUME TermsHeld, NEW site \in Site, NEW c \in Corr,
                      Approved(store[site], c)
               PROVE  AsInvited(On(store[site], c).terms, c)
    BY DEF ActiveOnInvitedTerms, AsInvited
  <2>1. Recorded(store[site], c) /\ ~Pending(store[site], c)
    BY DEF Approved, Recorded, Pending
  <2>2. QED
    BY <2>1 DEF TermsHeld, HeldBy, BlueTerms, GreenTerms, Site
<1>2. QED
  BY <1>1, TermsInductive, PTL

-----------------------------------------------------------------------------
(* One ID, one agreement. *)

\* The pairs of a correlation and an ID on record in a state, and all of them
\* in the system: in a copy, in a request about to be sent, in one under way.
Pairs(s) == {<<c, On(s, c).peerCxId>> : c \in {d \in Corr : Recorded(s, d)}}

HeldPairs == UNION {Pairs(s) : s \in HeldBy("blue") \cup HeldBy("green")}
CallPairs ==
  {<<call[b].request.corr, call[b].request.peerCxId>> :
     b \in {x \in Call : call[x].step = "nominating"}}
WirePairs ==
  {<<wire[b].corr, wire[b].peerCxId>> :
     b \in {x \in Call : wire[x].kind = "nominate"}}
Paired == HeldPairs \cup CallPairs \cup WirePairs

\* A random ID is drawn for one correlation, before it appears anywhere.
PairedApart ==
  /\ \A c, d \in Corr, id \in PeerCxId :
        <<c, id>> \in Paired /\ <<d, id>> \in Paired => c = d
  /\ \A c \in Corr, id \in PeerCxId : <<c, id>> \in Paired => id \in minted

\* Nothing is paired before anything is written.
LEMMA EmptyPairs == Pairs(emptyState) = {}
  BY DEF Pairs, Recorded, On, emptyState, NoNomination

\* Keeping the records keeps the pairs.
LEMMA SamePairs ==
  ASSUME NEW t, NEW s, SameRecords(t, s)
  PROVE  Pairs(s) = Pairs(t)
  BY DEF Pairs, SameRecords

\* A new record adds one pair at most.
LEMMA RecordPairs ==
  ASSUME NEW s \in PeerCxSetupState, NEW c \in Corr, NEW id \in PeerCxId,
         NEW terms \in Terms
  PROVE  Pairs(RecordNomination(s, c, id, terms)) \subseteq Pairs(s) \cup {<<c, id>>}
<1>1. \A d \in Corr : \/ On(RecordNomination(s, c, id, terms), d) = On(s, d)
                      \/ /\ d = c
                         /\ On(RecordNomination(s, c, id, terms), d).peerCxId = id
  BY RecordedAnew
<1>2. QED
  BY <1>1 DEF Pairs, Recorded

\* A transition adds no pair but one under way.
LEMMA ChangedPairs ==
  ASSUME TypeOK, NEW site \in Site, NEW t \in PeerCxSetupState, NEW s,
         Changed(site, t, s)
  PROVE  Pairs(s) \subseteq Pairs(t) \cup WirePairs
<1>1. ASSUME NEW b \in Call, wire[b].kind \in {"nominate", "proposal"}
      PROVE  wire[b].corr \in Corr /\ wire[b].peerCxId \in PeerCxId
             /\ wire[b].terms \in Terms
  BY <1>1 DEF TypeOK, Message
<1>2. ASSUME NEW b \in Call, wire[b].kind = "nominate",
             s = RecordNomination(t, wire[b].corr, wire[b].peerCxId, wire[b].terms)
      PROVE  Pairs(s) \subseteq Pairs(t) \cup WirePairs
  <2>1. Pairs(s) \subseteq Pairs(t) \cup {<<wire[b].corr, wire[b].peerCxId>>}
    BY <1>1, <1>2, RecordPairs
  <2>2. <<wire[b].corr, wire[b].peerCxId>> \in WirePairs
    BY <1>2 DEF WirePairs
  <2>3. QED
    BY <2>1, <2>2
<1>3. ASSUME NEW c \in Corr, NEW status \in NominationStatus, Pending(t, c),
             s = WithStatus(t, c, status)
      PROVE  Pairs(s) = Pairs(t)
  BY <1>3, WithStatusKeeps, SamePairs DEF Pending, Recorded
<1>4. ASSUME NEW c \in Corr, Recorded(t, c), s = Activate(t, c)
      PROVE  Pairs(s) = Pairs(t)
  BY <1>4, ActivateKeeps, SamePairs
<1>5. ASSUME NEW id \in PeerCxId, s = revokePeerCx(t, id) PROVE Pairs(s) = Pairs(t)
  BY <1>5, RevokeKeeps DEF Pairs, Recorded
<1>6. "awaiting-blue-confirmation" \in NominationStatus
  BY DEF NominationStatus
<1>7. QED
  BY <1>1, <1>2, <1>3, <1>4, <1>5, <1>6 DEF Changed

\* Only a consent starts an invocation that will send a nomination, and IDs drawn
\* stay drawn.
LEMMA CallsStep ==
  ASSUME TypeOK, Next,
         ~ \E b \in Call, c \in Corr, terms \in Terms : NominateSite(b, c, terms)
  PROVE  /\ minted' = minted
         /\ \A b \in Call : call'[b].step = "nominating" => call'[b] = call[b]
<1>1. ASSUME NEW x \in Call,
             \/ RecordConsent(x) \/ NominationReceived(x) \/ GiveUp(x)
             \/ AcceptProposal(x) \/ ActivateBlue(x) \/ KillCall(x)
             \/ \E c \in Corr : ConfirmActivation(x, c)
      PROVE  /\ minted' = minted
             /\ \A b \in Call : call'[b].step = "nominating" => call'[b] = call[b]
  <2>1. \A b \in Call : b # x => call'[b] = call[b]
    BY <1>1 DEF RecordConsent, NominationReceived, GiveUp, AcceptProposal,
       ActivateBlue, KillCall, ConfirmActivation, TypeOK
  <2>2. call'[x].step # "nominating"
    <3>1. CASE RecordConsent(x)
      BY <3>1 DEF RecordConsent, IdleCall, TypeOK
    <3>2. CASE NominationReceived(x) \/ GiveUp(x) \/ ActivateBlue(x) \/ KillCall(x)
      BY <3>2 DEF NominationReceived, GiveUp, ActivateBlue, KillCall, IdleCall, TypeOK
    <3>3. CASE AcceptProposal(x)
      BY <3>3 DEF AcceptProposal, IdleCall, TypeOK
    <3>4. CASE \E c \in Corr : ConfirmActivation(x, c)
      BY <3>4 DEF ConfirmActivation, IdleCall, TypeOK
    <3>5. QED
      BY <1>1, <3>1, <3>2, <3>3, <3>4
  <2>3. minted' = minted
    BY <1>1 DEF RecordConsent, NominationReceived, GiveUp, AcceptProposal,
       ActivateBlue, KillCall, ConfirmActivation
  <2>4. QED
    BY <2>1, <2>2, <2>3
<1>2. ASSUME NEW x \in Call, Green(x)
      PROVE  UNCHANGED <<call, minted>>
  BY <1>2 DEF Green, ReceiveNomination, ReceivePoll, ReceiveConfirmation,
     CommitHandler
<1>3. ASSUME NEW a \in Admin, Administrator(a)
      PROVE  UNCHANGED <<call, minted>>
  BY <1>3 DEF Administrator, DecideNomination, RevokePeerCx, Start, CommitAdmin
<1>4. CASE Environment
  BY <1>1, <1>4 DEF Environment, AgreementEnds, Lose, KillHandler, KillAdmin
<1>5. QED
  BY <1>1, <1>2, <1>3, <1>4 DEF Next, Blue

\* No ID is ever paired with two correlations.
LEMMA PairedInductive == Spec => []PairedApart
<1>1. Init => PairedApart
  <2> SUFFICES ASSUME Init PROVE PairedApart
    OBVIOUS
  <2>1. \A site \in Site : HeldBy(site) \subseteq {emptyState}
    BY DEF Init, HeldBy, Site, IdleCall, IdleHandler, IdleAdmin
  <2>2. \A b \in Call : wire[b].kind # "nominate" /\ call[b].step # "nominating"
    BY DEF Init, Quiet, Envelope, IdleCall
  <2>3. Paired = {}
    BY <2>1, <2>2, EmptyPairs DEF Paired, HeldPairs, CallPairs, WirePairs, Site
  <2>4. QED
    BY <2>3 DEF PairedApart
<1>2. TypeOK /\ ActivationTraced /\ PairedApart /\ [Next]_vars => PairedApart'
  <2> SUFFICES ASSUME TypeOK, ActivationTraced, PairedApart, [Next]_vars
               PROVE  PairedApart'
    OBVIOUS
  <2>1. ASSUME NEW b \in Call, NEW c \in Corr, NEW terms \in Terms,
               NominateSite(b, c, terms)
        PROVE  PairedApart'
    <3> DEFINE own == store["blue"]
    <3>1. PICK id \in PeerCxId :
            /\ Recorded(own, c) => id = On(own, c).peerCxId
            /\ ~Recorded(own, c) => id \notin minted
            /\ minted' = minted \cup {id}
            /\ call' = [call EXCEPT ![b] =
                 [step |-> "nominating",
                  state |-> RecordNomination(own, c, id, terms),
                  request |-> Envelope("nominate", c, id, terms)]]
            /\ HeldBy("green")' = HeldBy("green")
            /\ HeldBy("blue")' \subseteq
                 HeldBy("blue") \cup {RecordNomination(own, c, id, terms)}
            /\ wire' = wire
      BY <2>1, NominateStep
    <3>2. Pairs(RecordNomination(own, c, id, terms)) \subseteq Pairs(own) \cup {<<c, id>>}
      BY RecordPairs DEF TypeOK, Site
    <3>3. own \in HeldBy("blue")
      BY DEF HeldBy
    <3>4. \A x \in Call : call'[x].step = "nominating" =>
            \/ call'[x] = call[x]
            \/ call'[x].request.corr = c /\ call'[x].request.peerCxId = id
      BY <3>1 DEF Envelope, TypeOK
    <3>5. Paired' \subseteq Paired \cup {<<c, id>>}
      <4>1. HeldPairs' \subseteq HeldPairs \cup {<<c, id>>}
        BY <3>1, <3>2, <3>3 DEF HeldPairs
      <4>2. CallPairs' \subseteq CallPairs \cup {<<c, id>>}
        BY <3>4 DEF CallPairs
      <4>3. WirePairs' = WirePairs
        BY <3>1 DEF WirePairs
      <4>4. QED
        BY <4>1, <4>2, <4>3 DEF Paired
    <3>6. Recorded(own, c) => <<c, id>> \in Paired
      BY <3>1, <3>3 DEF Paired, HeldPairs, Pairs
    <3>7. \A d \in Corr : <<d, id>> \in Paired => d = c
      BY <3>1, <3>6 DEF PairedApart
    <3>8. QED
      BY <3>1, <3>5, <3>7 DEF PairedApart
  <2>2. ASSUME Next,
               ~ \E b \in Call, c \in Corr, terms \in Terms : NominateSite(b, c, terms)
        PROVE  PairedApart'
    <3>1. ASSUME NEW site \in Site, NEW s \in HeldBy(site)'
          PROVE  Pairs(s) \subseteq Paired
      <4>1. PICK t \in HeldBy(site) \cup {emptyState} : Changed(site, t, s)
        BY <2>2, HeldStep
      <4>2. t \in PeerCxSetupState
        BY HeldType, EmptyStateType
      <4>3. Pairs(t) \subseteq Paired
        BY EmptyPairs DEF Paired, HeldPairs, Site
      <4>4. QED
        BY <4>1, <4>2, <4>3, ChangedPairs DEF Paired
    <3>2. ASSUME NEW b \in Call, call'[b].step = "nominating"
          PROVE  call'[b] = call[b]
      BY <2>2, <3>2, CallsStep
    <3>3. ASSUME NEW b \in Call, wire'[b].kind = "nominate"
          PROVE  <<wire'[b].corr, wire'[b].peerCxId>> \in Paired
      <4>1. CASE wire'[b] = wire[b]
        BY <3>3, <4>1 DEF Paired, WirePairs
      <4>2. CASE call[b].step = "nominating" /\ wire'[b] = call[b].request
        BY <4>2 DEF Paired, CallPairs
      <4>3. QED
        BY <2>2, <3>3, <4>1, <4>2, WireStep DEF WireExplained
    <3>4. Paired' \subseteq Paired
      <4>1. HeldPairs' \subseteq Paired
        BY <3>1 DEF HeldPairs, Site
      <4>2. CallPairs' \subseteq Paired
        BY <3>2 DEF CallPairs, Paired
      <4>3. WirePairs' \subseteq Paired
        BY <3>3 DEF WirePairs
      <4>4. QED
        BY <4>1, <4>2, <4>3 DEF Paired
    <3>5. QED
      BY <2>2, <3>4, CallsStep DEF PairedApart
  <2>3. CASE UNCHANGED vars
    BY <2>3 DEF vars, PairedApart, Paired, HeldPairs, CallPairs, WirePairs, HeldBy
  <2>4. QED
    BY <2>1, <2>2, <2>3
<1>3. QED
  BY <1>1, <1>2, InductiveInvariant, PTL DEF Spec

\* No PeerCX ID is ever on record for two invitations, at one tenant or at both,
\* although overlapping consents can give one invitation two IDs.
THEOREM OneAgreementPerId == Spec => []IdNamesOneAgreement
<1>1. TypeOK /\ PairedApart => IdNamesOneAgreement
  <2> SUFFICES ASSUME TypeOK, PairedApart, NEW s1 \in Site, NEW s2 \in Site,
                      NEW c1 \in Corr, NEW c2 \in Corr,
                      Recorded(store[s1], c1), Recorded(store[s2], c2),
                      On(store[s1], c1).peerCxId = On(store[s2], c2).peerCxId
               PROVE  c1 = c2
    BY DEF IdNamesOneAgreement
  <2> DEFINE id == On(store[s1], c1).peerCxId
  <2>1. id \in PeerCxId
    BY DEF TypeOK, Recorded, On, PeerCxSetupState, Nomination, NoNomination
  <2>2. \A site \in Site : Pairs(store[site]) \subseteq Paired
    BY DEF Paired, HeldPairs, HeldBy, Site
  <2>3. <<c1, id>> \in Paired /\ <<c2, id>> \in Paired
    BY <2>2 DEF Pairs
  <2>4. QED
    BY <2>1, <2>3 DEF PairedApart
<1>2. QED
  BY <1>1, PairedInductive, InductiveInvariant, PTL
=============================================================================
