----------------------------- MODULE PeerCxSetup -----------------------------
(***************************************************************************)
(* The pure transitions of a PeerCX setup: what one tenant's durable setup *)
(* state becomes when it nominates, receives a nomination, decides it,     *)
(* answers a poll, accepts a proposal, confirms, activates or revokes.     *)
(* Each operator is one function of src/src/pairing/peer-cx-*.ts.          *)
(*                                                                         *)
(* What is abstracted.  An ARI, an instant or an operation list is told    *)
(* apart only by equality.  Both sites' identities are fixed, so of the    *)
(* fields a peer repeats only the PeerCX ID and the terms can differ; the  *)
(* terms keep their three fields, because not every envelope repeats, and  *)
(* not every comparison looks at, all of them.                             *)
(* Invitation reference, correlation ID and idempotency key are in         *)
(* bijection (`${correlationId}:nominate`), so the correlation ID stands   *)
(* for all three.  acceptedAt is present exactly from status               *)
(* "awaiting-blue-confirmation" on in a blue record, so the status says    *)
(* it.  processedIdempotencyKeys is written and never read, and is left    *)
(* out.                                                                    *)
(***************************************************************************)

CONSTANTS
  Corr,           \* correlation IDs of the invitations Green has issued
  PeerCxId,       \* the random UUIDs Blue can mint
  Version,        \* termsVersion values a payload can carry
  EndInstant,     \* expiresAt instants
  Operations,     \* allowedOperations lists
  InvitedTerms,   \* the terms of the invitation with a correlation ID
  NoId, NoTerms   \* the fields of a nomination that is not on record

Terms ==
  [version : Version, expiresAt : EndInstant, allowedOperations : Operations]

ASSUME SetupAssumption ==
  /\ InvitedTerms \in [Corr -> Terms]
  /\ NoId \notin PeerCxId
  /\ NoTerms \notin Terms

NominationStatus ==
  {"awaiting-green-approval", "awaiting-blue-confirmation", "active",
   "rejected", "invalidated"}

NoNomination == [status |-> "none", peerCxId |-> NoId, terms |-> NoTerms]

\* The nomination recorded for a correlation ID.
Nomination ==
  [status : NominationStatus, peerCxId : PeerCxId, terms : Terms]
    \cup {NoNomination}

\* One tenant's value under the KVS key "peer-cx-setup-state".
PeerCxSetupState ==
  [nominations : [Corr -> Nomination],
   peerCxs : [PeerCxId -> {"none", "active", "revoked"}]]

emptyState ==
  [nominations |-> [c \in Corr |-> NoNomination],
   peerCxs |-> [i \in PeerCxId |-> "none"]]

\* The record of correlation c in state s, and whether there is one.
On(s, c) == s.nominations[c]
Recorded(s, c) == On(s, c).status # "none"

WithStatus(s, c, status) ==
  [s EXCEPT !.nominations[c] = [On(s, c) EXCEPT !.status = status]]

\* What an envelope or a receipt carries that its reader compares.
Envelope(kind, c, id, terms) ==
  [kind |-> kind, corr |-> c, peerCxId |-> id, terms |-> terms]

-----------------------------------------------------------------------------
(* Nomination: Blue records its consent, Green what it received.           *)

\* Both keep the record a correlation already has.
RecordNomination(s, c, id, terms) ==
  IF Recorded(s, c) THEN s
  ELSE [s EXCEPT !.nominations[c] =
          [status |-> "awaiting-green-approval", peerCxId |-> id,
           terms |-> terms]]

nominatePeerCx(s, c, id, terms) == RecordNomination(s, c, id, terms)

\* Mutant of NominationAccepted: any terms will do.
AnyTermsAccepted(request, ended) ==
  InvitedTerms[request.corr].expiresAt \notin ended

\* Green refuses a nomination after the agreement's end or on other terms
\* than the invitation's.  ended: the end instants past on the local clock.
NominationAccepted(request, ended) ==
  /\ InvitedTerms[request.corr].expiresAt \notin ended
  /\ request.terms = InvitedTerms[request.corr]

receivePeerCxNomination(s, request) ==
  RecordNomination(s, request.corr, request.peerCxId, request.terms)

(* Green's decision on a pending nomination. *)

Pending(s, c) == On(s, c).status = "awaiting-green-approval"

\* Mutant of DecidedStatus: the decision's name as the status.
DecisionAsStatus(decision, reviewedAsRecorded) ==
  IF reviewedAsRecorded THEN decision ELSE "invalidated"

\* The status an administrator's decision gives: a decision on something
\* other than what is recorded voids the nomination whatever was decided.
DecidedStatus(decision, reviewedAsRecorded) ==
  CASE decision = "leave-pending" -> "awaiting-green-approval"
    [] decision # "leave-pending" /\ ~reviewedAsRecorded -> "invalidated"
    [] decision = "reject" /\ reviewedAsRecorded -> "rejected"
    [] decision = "approve" /\ reviewedAsRecorded -> "awaiting-blue-confirmation"

decidePeerCxNomination(s, c, decision, reviewedAsRecorded) ==
  WithStatus(s, c, DecidedStatus(decision, reviewedAsRecorded))

-----------------------------------------------------------------------------
(* Activation: Green proposes, Blue accepts, Green confirms, Blue          *)
(* activates.                                                              *)

\* Mutant of Approved: what is not refused is approved.
NotRefused(s, c) ==
  On(s, c).status \notin {"none", "rejected", "invalidated"}

Approved(s, c) ==
  On(s, c).status \in {"awaiting-blue-confirmation", "active"}

\* A poll repeats the terms' version alone, a proposal and a confirmation
\* their end too; none repeats the operations.
SameVersion(s, message) ==
  /\ Recorded(s, message.corr)
  /\ message.peerCxId = On(s, message.corr).peerCxId
  /\ message.terms.version = On(s, message.corr).terms.version

SameAgreement(s, message) ==
  /\ SameVersion(s, message)
  /\ message.terms.expiresAt = On(s, message.corr).terms.expiresAt

Ended(s, c, ended) == On(s, c).terms.expiresAt \in ended

\* Mutant of proposePeerCxActivation: an active record is not proposed again.
ProposeOnce(s, request, ended) ==
  IF /\ SameVersion(s, request)
     /\ On(s, request.corr).status = "awaiting-blue-confirmation"
     /\ ~Ended(s, request.corr, ended)
  THEN Envelope("proposal", request.corr, request.peerCxId,
                On(s, request.corr).terms)
  ELSE Envelope("refused", request.corr, NoId, NoTerms)

\* Green's answer to a poll: its proposal, or nothing Blue can act on.
proposePeerCxActivation(s, request, ended) ==
  IF /\ SameVersion(s, request)
     /\ Approved(s, request.corr)
     /\ ~Ended(s, request.corr, ended)
  THEN Envelope("proposal", request.corr, request.peerCxId,
                On(s, request.corr).terms)
  ELSE Envelope("refused", request.corr, NoId, NoTerms)

ProposalAcceptable(s, proposal, ended) ==
  SameAgreement(s, proposal) /\ ~Ended(s, proposal.corr, ended)

\* Mutants of acceptActivationProposal: every proposal is accepted anew; the
\* proposal activates by itself.
AcceptAgain(s, proposal) ==
  WithStatus(s, proposal.corr, "awaiting-blue-confirmation")
ActivateOnProposal(s, proposal) ==
  [WithStatus(s, proposal.corr, "active")
     EXCEPT !.peerCxs[proposal.peerCxId] = "active"]

\* A retry must not move an acceptance that is already on record.
acceptActivationProposal(s, proposal) ==
  IF On(s, proposal.corr).status = "awaiting-green-approval"
  THEN WithStatus(s, proposal.corr, "awaiting-blue-confirmation")
  ELSE s

\* Mutant of Activate: the nomination's status is left behind.
ActivatePeerCxOnly(s, c) ==
  [s EXCEPT !.peerCxs[On(s, c).peerCxId] = "active"]

\* The local PeerCX and the nomination become active together.
Activate(s, c) ==
  [WithStatus(s, c, "active") EXCEPT !.peerCxs[On(s, c).peerCxId] = "active"]

ConfirmationAcceptable(s, request, ended) ==
  /\ SameAgreement(s, request)
  /\ Approved(s, request.corr)
  /\ ~Ended(s, request.corr, ended)

\* Mutant of receivePeerCxConfirmation: a duplicate activates again.
ConfirmAgain(s, request) == Activate(s, request.corr)

\* A duplicate confirmation changes nothing and gets the same receipt.
receivePeerCxConfirmation(s, request) ==
  IF On(s, request.corr).status = "active" THEN s ELSE Activate(s, request.corr)

ReceiptAcceptable(s, receipt) ==
  /\ Recorded(s, receipt.corr)
  /\ receipt.peerCxId = On(s, receipt.corr).peerCxId
  /\ On(s, receipt.corr).status # "awaiting-green-approval"

\* A PeerCX Blue already has, revoked or not, is left as it is.
activateAfterConfirmation(s, receipt) ==
  IF s.peerCxs[receipt.peerCxId] # "none" THEN s ELSE Activate(s, receipt.corr)

-----------------------------------------------------------------------------
(* Revocation of the local PeerCX.                                         *)

HasPeerCx(s, id) == s.peerCxs[id] # "none"

revokePeerCx(s, id) ==
  [s EXCEPT !.peerCxs[id] = "revoked"]

=============================================================================
