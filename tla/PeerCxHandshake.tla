--------------------------- MODULE PeerCxHandshake ---------------------------
(***************************************************************************)
(* The activation handshake between two tenants, at the grain at which     *)
(* Forge runs it.  Every operation is an invocation that reads the single  *)
(* KVS key of its tenant, computes, and writes the whole value back; reads *)
(* and writes of several invocations interleave and there is no            *)
(* compare-and-set.  "blue" is the nominator (resolvers/nominations.ts),   *)
(* "green" the approver (pairing/forge-bootstrap-receiver.ts and           *)
(* decideNomination); either administrator may revoke                      *)
(* (resolvers/peer-cx.ts).                                                 *)
(*                                                                         *)
(* A Blue invocation posts one signed request at a time and waits for its  *)
(* answer.  A request or an answer can be lost, an invocation can be       *)
(* killed between any two of its awaits, and a request can arrive after    *)
(* its sender gave up.  A request is handled at most once: that is what    *)
(* ReplayGuard shows of consumeRequestId.                                  *)
(***************************************************************************)
EXTENDS PeerCxSetup

CONSTANTS
  Call,      \* slots for concurrent invocations of nominateSite, confirmActivation
  Admin,     \* slots for concurrent invocations of decideNomination, revokePeerCx
  Expiring   \* the end instants a behaviour may reach (all, but for a bound)

VARIABLES
  store,     \* each tenant's durable setup state
  call,      \* Blue's running invocations, with the state each will write
  wire,      \* what is between a Blue invocation and Green: a request or its answer
  handler,   \* Green's web-trigger invocation for the request of a slot
  admin,     \* administrators' running read-modify-write invocations
  ended,     \* the end instants past on each tenant's clock
  minted,    \* the random PeerCX IDs drawn so far
  approved,  \* history: the IDs Green's administrator decided to approve
  accepted,  \* history: the IDs whose proposal Blue durably accepted
  activated  \* history: the IDs Green durably activated

vars == <<store, call, wire, handler, admin, ended, minted,
          approved, accepted, activated>>
history == <<approved, accepted, activated>>

Site == {"blue", "green"}

Requests == {"nominate", "poll", "confirm"}
Answers == {"received", "proposal", "activated"}

\* A refusal is opaque, and says no more than an empty wire.
Message ==
  [kind : Requests \cup Answers, corr : Corr, peerCxId : PeerCxId, terms : Terms]
    \cup [kind : {"quiet", "refused"}, corr : Corr,
          peerCxId : {NoId}, terms : {NoTerms}]

CallStep == {"idle", "nominating", "awaiting-receipt", "polling", "confirming"}

Quiet == Envelope("quiet", CHOOSE c \in Corr : TRUE, NoId, NoTerms)
IdleCall == [step |-> "idle", state |-> emptyState, request |-> Quiet]
IdleHandler == [busy |-> FALSE, state |-> emptyState]
IdleAdmin == [busy |-> FALSE, site |-> "green", state |-> emptyState]

\* Correlation IDs and payloads name real invitations, so there are some.
ASSUME CorrAssumption == Corr # {} /\ Expiring \subseteq EndInstant

TypeOK ==
  /\ store \in [Site -> PeerCxSetupState]
  /\ call \in [Call -> [step : CallStep, state : PeerCxSetupState,
                        request : Message]]
  /\ wire \in [Call -> Message]
  /\ handler \in [Call -> [busy : BOOLEAN, state : PeerCxSetupState]]
  /\ admin \in [Admin -> [busy : BOOLEAN, site : Site,
                          state : PeerCxSetupState]]
  /\ ended \in [Site -> SUBSET EndInstant]
  /\ minted \subseteq PeerCxId
  /\ approved \subseteq PeerCxId
  /\ accepted \subseteq PeerCxId
  /\ activated \subseteq PeerCxId

Init ==
  /\ store = [s \in Site |-> emptyState]
  /\ call = [b \in Call |-> IdleCall]
  /\ wire = [b \in Call |-> Quiet]
  /\ handler = [b \in Call |-> IdleHandler]
  /\ admin = [a \in Admin |-> IdleAdmin]
  /\ ended = [s \in Site |-> {}]
  /\ minted = {}
  /\ approved = {} /\ accepted = {} /\ activated = {}

Save(site, state) == store' = [store EXCEPT ![site] = state]
Send(b, message) == wire' = [wire EXCEPT ![b] = message]
Arrived(b, kind) == ~handler[b].busy /\ wire[b].kind = kind

-----------------------------------------------------------------------------
(* Blue: nominateSite                                                      *)

\* A slot is free when its last request and answer are gone too.
Free(b) ==
  call[b].step = "idle" /\ wire[b].kind = "quiet" /\ ~handler[b].busy

\* Mutant of NominateSite: a recorded consent of any invitation lends its ID.
NominateUnderAnyId(b, c, terms) ==
  LET own == store["blue"]
      recorded == {d \in Corr : Recorded(own, d)}
  IN /\ Free(b)
     /\ \E id \in IF recorded # {} THEN {On(own, d).peerCxId : d \in recorded}
                  ELSE PeerCxId \ minted :
          /\ minted' = minted \cup {id}
          /\ call' = [call EXCEPT ![b] =
               [step |-> "nominating",
                state |-> nominatePeerCx(own, c, id, terms),
                request |-> Envelope("nominate", c, id, terms)]]
     /\ UNCHANGED <<store, wire, handler, admin, ended, history>>

\* Mutant of NominateSite: every consent mints.
NominateAnew(b, c, terms) ==
  /\ Free(b)
  /\ \E id \in PeerCxId \ minted :
       /\ minted' = minted \cup {id}
       /\ call' = [call EXCEPT ![b] =
            [step |-> "nominating",
             state |-> nominatePeerCx(store["blue"], c, id, terms),
             request |-> Envelope("nominate", c, id, terms)]]
  /\ UNCHANGED <<store, wire, handler, admin, ended, history>>

\* Reads the state; a recorded consent keeps its PeerCX ID, a new one mints.
\* The request carries this payload's terms, the record its first one's.
NominateSite(b, c, terms) ==
  LET own == store["blue"]
      ids == IF Recorded(own, c) THEN {On(own, c).peerCxId}
             ELSE PeerCxId \ minted
  IN /\ Free(b)
     /\ \E id \in ids :
          /\ minted' = minted \cup {id}
          /\ call' = [call EXCEPT ![b] =
               [step |-> "nominating",
                state |-> nominatePeerCx(own, c, id, terms),
                request |-> Envelope("nominate", c, id, terms)]]
     /\ UNCHANGED <<store, wire, handler, admin, ended, history>>

\* Local consent is written before the request is sent.
RecordConsent(b) ==
  /\ call[b].step = "nominating"
  /\ Save("blue", call[b].state)
  /\ Send(b, call[b].request)
  /\ call' = [call EXCEPT ![b] = [IdleCall EXCEPT !.step = "awaiting-receipt"]]
  /\ UNCHANGED <<handler, admin, ended, minted, history>>

NominationReceived(b) ==
  /\ call[b].step = "awaiting-receipt" /\ Arrived(b, "received")
  /\ call' = [call EXCEPT ![b] = IdleCall]
  /\ Send(b, Quiet)
  /\ UNCHANGED <<store, handler, admin, ended, minted, history>>

(* Blue: confirmActivation *)

\* Reads the state and polls for its pending record.  The state is held
\* across the two requests that follow.
ConfirmActivation(b, c) ==
  LET own == store["blue"] IN
  /\ Free(b)
  /\ Recorded(own, c)
  /\ call' = [call EXCEPT ![b] = [IdleCall EXCEPT !.step = "polling",
                                                  !.state = own]]
  /\ Send(b, Envelope("poll", c, On(own, c).peerCxId, On(own, c).terms))
  /\ UNCHANGED <<store, handler, admin, ended, minted, history>>

\* The proposal is judged by the state read before the poll, the acceptance
\* is written over whatever is there now, and the confirmation is sent.
AcceptProposal(b) ==
  LET held == call[b].state
      proposal == wire[b]
      next == acceptActivationProposal(held, proposal)
  IN /\ call[b].step = "polling" /\ Arrived(b, "proposal")
     /\ ProposalAcceptable(held, proposal, ended["blue"])
     /\ Save("blue", next)
     /\ call' = [call EXCEPT ![b] = [IdleCall EXCEPT !.step = "confirming",
                                                    !.state = next]]
     /\ Send(b, Envelope("confirm", proposal.corr, proposal.peerCxId,
                         On(held, proposal.corr).terms))
     /\ accepted' = accepted \cup {proposal.peerCxId}
     /\ UNCHANGED <<handler, admin, ended, minted, approved, activated>>

\* Any answer the invocation cannot use ends it: a failed fetch, a refusal, a
\* proposal that does not match, a receipt that does not match.
GiveUp(b) ==
  /\ call[b].step \in {"awaiting-receipt", "polling", "confirming"}
  /\ \/ Arrived(b, "quiet")
     \/ Arrived(b, "refused")
     \/ /\ call[b].step = "polling" /\ Arrived(b, "proposal")
        /\ ~ProposalAcceptable(call[b].state, wire[b], ended["blue"])
     \/ /\ call[b].step = "confirming" /\ Arrived(b, "activated")
        /\ ~ReceiptAcceptable(call[b].state, wire[b])
  /\ call' = [call EXCEPT ![b] = IdleCall]
  /\ Send(b, Quiet)
  /\ UNCHANGED <<store, handler, admin, ended, minted, history>>

\* Green's receipt activates Blue's record, in the state held since the poll.
ActivateBlue(b) ==
  LET held == call[b].state IN
  /\ call[b].step = "confirming" /\ Arrived(b, "activated")
  /\ ReceiptAcceptable(held, wire[b])
  /\ Save("blue", activateAfterConfirmation(held, wire[b]))
  /\ call' = [call EXCEPT ![b] = IdleCall]
  /\ Send(b, Quiet)
  /\ UNCHANGED <<handler, admin, ended, minted, history>>

-----------------------------------------------------------------------------
(* Green: receiveBootstrapRequest                                          *)

Refuse(b) ==
  /\ Send(b, Envelope("refused", wire[b].corr, NoId, NoTerms))
  /\ UNCHANGED handler

\* The handler has read the state and will write next.
Handle(b, next) ==
  /\ handler' = [handler EXCEPT ![b] = [busy |-> TRUE, state |-> next]]
  /\ UNCHANGED wire

ReceiveNomination(b) ==
  /\ Arrived(b, "nominate")
  /\ IF NominationAccepted(wire[b], ended["green"])
     THEN Handle(b, receivePeerCxNomination(store["green"], wire[b]))
     ELSE Refuse(b)
  /\ UNCHANGED <<store, call, admin, ended, minted, history>>

\* A poll is answered from what was read and writes nothing.
ReceivePoll(b) ==
  /\ Arrived(b, "poll")
  /\ Send(b, proposePeerCxActivation(store["green"], wire[b], ended["green"]))
  /\ UNCHANGED <<store, call, handler, admin, ended, minted, history>>

ReceiveConfirmation(b) ==
  /\ Arrived(b, "confirm")
  /\ IF ConfirmationAcceptable(store["green"], wire[b], ended["green"])
     THEN Handle(b, receivePeerCxConfirmation(store["green"], wire[b]))
     ELSE Refuse(b)
  /\ UNCHANGED <<store, call, admin, ended, minted, history>>

\* The write, then the success answer.
CommitHandler(b) ==
  LET confirming == wire[b].kind = "confirm"
      receipt == IF confirming THEN "activated" ELSE "received"
  IN /\ handler[b].busy
     /\ Save("green", handler[b].state)
     /\ handler' = [handler EXCEPT ![b] = IdleHandler]
     /\ Send(b, [wire[b] EXCEPT !.kind = receipt])
     /\ activated' = IF confirming THEN activated \cup {wire[b].peerCxId}
                     ELSE activated
     /\ UNCHANGED <<call, admin, ended, minted, approved, accepted>>

-----------------------------------------------------------------------------
(* Administrators: decideNomination on Green, revokePeerCx on either site. *)

Start(a, site, next) ==
  /\ ~admin[a].busy
  /\ admin' = [admin EXCEPT ![a] =
                 [busy |-> TRUE, site |-> site, state |-> next]]
  /\ UNCHANGED <<store, call, wire, handler, ended, minted>>

\* A rejection comes with a safe reason, or the resolver refuses it.
DecideNomination(a, c, decision, reviewedAsRecorded) ==
  LET own == store["green"] IN
  /\ Pending(own, c)
  /\ Start(a, "green",
           decidePeerCxNomination(own, c, decision, reviewedAsRecorded))
  /\ approved' =
       IF DecidedStatus(decision, reviewedAsRecorded)
            = "awaiting-blue-confirmation"
       THEN approved \cup {On(own, c).peerCxId} ELSE approved
  /\ UNCHANGED <<accepted, activated>>

RevokePeerCx(a, site, id) ==
  /\ HasPeerCx(store[site], id)
  /\ Start(a, site, revokePeerCx(store[site], id))
  /\ UNCHANGED history

CommitAdmin(a) ==
  /\ admin[a].busy
  /\ Save(admin[a].site, admin[a].state)
  /\ admin' = [admin EXCEPT ![a] = IdleAdmin]
  /\ UNCHANGED <<call, wire, handler, ended, minted, history>>

-----------------------------------------------------------------------------
(* Time and failures.                                                      *)

\* A fixed end instant passes on one tenant's clock.
AgreementEnds(site, instant) ==
  /\ instant \in Expiring \ ended[site]
  /\ ended' = [ended EXCEPT ![site] = ended[site] \cup {instant}]
  /\ UNCHANGED <<store, call, wire, handler, admin, minted, history>>

\* A request, or an answer, does not arrive.
Lose(b) ==
  /\ wire[b].kind # "quiet" /\ ~handler[b].busy
  /\ Send(b, Quiet)
  /\ UNCHANGED <<store, call, handler, admin, ended, minted, history>>

\* Forge's time limit, or a failed await, ends an invocation where it is;
\* a request it has sent is still under way.
KillCall(b) ==
  /\ call[b].step # "idle"
  /\ call' = [call EXCEPT ![b] = IdleCall]
  /\ UNCHANGED <<store, wire, handler, admin, ended, minted, history>>

KillHandler(b) ==
  /\ handler[b].busy
  /\ handler' = [handler EXCEPT ![b] = IdleHandler]
  /\ Send(b, Quiet)
  /\ UNCHANGED <<store, call, admin, ended, minted, history>>

KillAdmin(a) ==
  /\ admin[a].busy
  /\ admin' = [admin EXCEPT ![a] = IdleAdmin]
  /\ UNCHANGED <<store, call, wire, handler, ended, minted, history>>

-----------------------------------------------------------------------------
Blue(b) ==
  \/ \E c \in Corr, terms \in Terms : NominateSite(b, c, terms)
  \/ RecordConsent(b)
  \/ NominationReceived(b)
  \/ \E c \in Corr : ConfirmActivation(b, c)
  \/ AcceptProposal(b)
  \/ ActivateBlue(b)
  \/ GiveUp(b)

Green(b) ==
  \/ ReceiveNomination(b)
  \/ ReceivePoll(b)
  \/ ReceiveConfirmation(b)
  \/ CommitHandler(b)

Administrator(a) ==
  \/ \E c \in Corr, decision \in {"approve", "reject", "leave-pending"},
        reviewedAsRecorded \in BOOLEAN :
          DecideNomination(a, c, decision, reviewedAsRecorded)
  \/ \E site \in Site, id \in PeerCxId : RevokePeerCx(a, site, id)
  \/ CommitAdmin(a)

Environment ==
  \/ \E site \in Site, instant \in EndInstant : AgreementEnds(site, instant)
  \/ \E b \in Call : Lose(b) \/ KillCall(b) \/ KillHandler(b)
  \/ \E a \in Admin : KillAdmin(a)

Next ==
  \/ \E b \in Call : Blue(b) \/ Green(b)
  \/ \E a \in Admin : Administrator(a)
  \/ Environment

Spec == Init /\ [][Next]_vars

-----------------------------------------------------------------------------
(* What holds however invocations interleave, requests are lost and        *)
(* invocations are killed.                                                 *)

\* Neither tenant holds a PeerCX, live or revoked, on its own word: Green
\* has durably activated every ID that either tenant holds, and it activated
\* only what its administrator approved and Blue durably accepted.
BilateralActivation ==
  /\ \A site \in Site, id \in PeerCxId :
        HasPeerCx(store[site], id) => id \in activated
  /\ activated \subseteq approved \cap accepted

\* The two lists kept under the one key never tell different stories: a
\* tenant holds a PeerCX exactly when one active nomination names it, so a
\* stale overwrite replaces both or neither.
RecordsConsistent ==
  \A site \in Site, id \in PeerCxId :
    HasPeerCx(store[site], id) <=>
      \E c \in Corr : /\ On(store[site], c).status = "active"
                      /\ On(store[site], c).peerCxId = id

\* No PeerCX is shared by two agreements: a random ID, once proposed for an
\* invitation, is never on record for another at either tenant.
IdNamesOneAgreement ==
  \A s1, s2 \in Site, c1, c2 \in Corr :
    /\ Recorded(store[s1], c1) /\ Recorded(store[s2], c2)
    /\ On(store[s1], c1).peerCxId = On(store[s2], c2).peerCxId
    => c1 = c2

\* Both tenants approve, accept and activate only the version and the end of
\* Green's invitation, whatever terms a consent, a resubmitted consent or a
\* request in flight carried.  (Not its operations: no envelope after the
\* nomination repeats them, and Blue keeps those of its first consent.)
ActiveOnInvitedTerms ==
  \A site \in Site, c \in Corr :
    Approved(store[site], c) =>
      /\ On(store[site], c).terms.version = InvitedTerms[c].version
      /\ On(store[site], c).terms.expiresAt = InvitedTerms[c].expiresAt

(* The strengthening of BilateralActivation that one step preserves: it   *)
(* follows the IDs through every value an invocation holds and every       *)
(* message that is under way.                                              *)

\* Green never holds, stored or about to be stored, an approval that its
\* administrator did not give.
ApprovalsHonest(s) ==
  \A c \in Corr : Approved(s, c) => On(s, c).peerCxId \in approved

PeerCxsHonest(s) == \A id \in PeerCxId : HasPeerCx(s, id) => id \in activated

\* A handler at work still has its request; what it will write is honest once
\* the activation it is confirming is durable.
HandlerHonest(b) ==
  handler[b].busy =>
    /\ wire[b].kind \in {"nominate", "confirm"}
    /\ ApprovalsHonest(handler[b].state)
    /\ \A id \in PeerCxId :
         HasPeerCx(handler[b].state, id) =>
           \/ id \in activated
           \/ wire[b].kind = "confirm" /\ id = wire[b].peerCxId
    /\ wire[b].kind = "confirm" => wire[b].peerCxId \in approved

MessageHonest(b) ==
  /\ wire[b].kind = "confirm" => wire[b].peerCxId \in accepted
  /\ wire[b].kind = "activated" => wire[b].peerCxId \in activated

\* An invocation that has not sent its request yet has its slot to itself.
CallHonest(b) ==
  /\ PeerCxsHonest(call[b].state)
  /\ call[b].step = "nominating" =>
       /\ call[b].request.kind = "nominate"
       /\ wire[b].kind = "quiet"
       /\ ~handler[b].busy

AdminHonest(a) ==
  admin[a].busy =>
    /\ PeerCxsHonest(admin[a].state)
    /\ admin[a].site = "green" => ApprovalsHonest(admin[a].state)

\* Every activation in the system, stored, held or in flight, traces back to
\* Green's administrator and to Blue's acceptance.
ActivationTraced ==
  /\ activated \subseteq approved \cap accepted
  /\ \A site \in Site : PeerCxsHonest(store[site])
  /\ ApprovalsHonest(store["green"])
  /\ \A b \in Call : CallHonest(b) /\ HandlerHonest(b) /\ MessageHonest(b)
  /\ \A a \in Admin : AdminHonest(a)

(* What holds only while no invocation's read and write are separated by   *)
(* another's write (PeerCxSerial); the races that break it are findings.   *)

\* A revoked PeerCX never becomes anything else, and never disappears.
RevocationIsFinal ==
  [][\A site \in Site, id \in PeerCxId :
       store[site].peerCxs[id] = "revoked"
         => store'[site].peerCxs[id] = "revoked"]_vars

\* Blue and Green never record different PeerCX IDs for one invitation.
TenantsAgreeOnId ==
  \A c \in Corr :
    /\ Recorded(store["blue"], c)
    /\ Recorded(store["green"], c)
    => On(store["blue"], c).peerCxId = On(store["green"], c).peerCxId
=============================================================================
