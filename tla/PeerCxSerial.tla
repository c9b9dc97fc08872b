----------------------------- MODULE PeerCxSerial -----------------------------
(***************************************************************************)
(* The handshake of PeerCxHandshake when no two invocations of one tenant  *)
(* overlap between reading and writing the setup state: the discipline     *)
(* under which the code keeps the promise of PeerCxAgreement.  Messages    *)
(* are still lost and late, invocations are still killed, and the two      *)
(* tenants still run side by side.  Nothing in the code enforces the       *)
(* discipline; the findings are what happens without it.                   *)
(***************************************************************************)
EXTENDS PeerCxHandshake

\* No two invocations hold a value they may write back for one tenant.
OneWriterPerTenant ==
  LET calls == {b \in Call : call[b].step \in {"nominating", "polling", "confirming"}}
      handlers == {b \in Call : handler[b].busy}
      admins(site) == {a \in Admin : admin[a].busy /\ admin[a].site = site}
      Alone(S, T) == /\ \A x, y \in S : x = y
                     /\ \A x, y \in T : x = y
                     /\ S = {} \/ T = {}
  IN Alone(calls, admins("blue")) /\ Alone(handlers, admins("green"))

SerialNext == Next /\ OneWriterPerTenant'

SerialSpec == Init /\ [][SerialNext]_vars

\* The rungs of PeerCxAgreement a tenant's stored state stands on.
BlueStage(c) ==
  LET n == On(store["blue"], c) IN
  CASE n.status = "none" -> "none"
    [] n.status = "awaiting-green-approval" -> "consented"
    [] n.status = "awaiting-blue-confirmation" -> "accepted"
    [] n.status = "active" -> store["blue"].peerCxs[n.peerCxId]

GreenStage(c) ==
  LET n == On(store["green"], c) IN
  CASE n.status = "none" -> "none"
    [] n.status = "awaiting-green-approval" -> "pending"
    [] n.status = "awaiting-blue-confirmation" -> "approved"
    [] n.status \in {"rejected", "invalidated"} -> "refused"
    [] n.status = "active" -> store["green"].peerCxs[n.peerCxId]

Agreement == INSTANCE PeerCxAgreement WITH
  blue <- [c \in Corr |-> BlueStage(c)],
  green <- [c \in Corr |-> GreenStage(c)]

\* The setup implements the ladder: nobody activates, accepts, approves or
\* records ahead of the other tenant, a refusal and a revocation are final,
\* and no retry, late delivery or killed invocation moves a tenant back.
ImplementsAgreement == Agreement!Spec

-----------------------------------------------------------------------------
(* Why the discipline is enough: what a step of it keeps.                  *)

\* What an invocation will write is one legal transition of what its tenant
\* has stored now, not of what it had stored when the invocation read it.
CallFresh(b) ==
  LET own == store["blue"]
      request == call[b].request
  IN /\ call[b].step \in {"polling", "confirming"} => call[b].state = own
     /\ call[b].step = "nominating" =>
          /\ call[b].state = nominatePeerCx(own, request.corr,
                                           request.peerCxId, request.terms)
          /\ Recorded(own, request.corr) =>
               request.peerCxId = On(own, request.corr).peerCxId

HandlerFresh(b) ==
  LET own == store["green"]
      request == wire[b]
  IN handler[b].busy =>
       \/ /\ request.kind = "nominate"
          /\ handler[b].state = receivePeerCxNomination(own, request)
       \/ /\ request.kind = "confirm"
          /\ SameAgreement(own, request) /\ Approved(own, request.corr)
          /\ handler[b].state = receivePeerCxConfirmation(own, request)

AdminFresh(a) ==
  LET own == store[admin[a].site] IN
  admin[a].busy =>
    \/ /\ admin[a].site = "green"
       /\ \E c \in Corr, status \in NominationStatus \ {"active"} :
            Pending(own, c) /\ admin[a].state = WithStatus(own, c, status)
    \/ \E id \in PeerCxId :
         HasPeerCx(own, id) /\ admin[a].state = revokePeerCx(own, id)

NothingStale ==
  /\ \A b \in Call : CallFresh(b) /\ HandlerFresh(b)
  /\ \A a \in Admin : AdminFresh(a)

Active(s, c) == On(s, c).status = "active"

\* Each tenant's rung rests on the other's.
RungsRest ==
  LET blue == store["blue"]
      green == store["green"]
  IN \A c \in Corr :
       /\ Recorded(green, c) =>
            Recorded(blue, c) /\ On(blue, c).peerCxId = On(green, c).peerCxId
       /\ Approved(blue, c) => Approved(green, c)
       /\ Active(green, c) => Approved(blue, c)
       /\ Active(blue, c) => Active(green, c)

\* However late a message is, its sender still stands on the rung it speaks of.
MessageBacked(b) ==
  LET blue == store["blue"]
      green == store["green"]
      m == wire[b]
  IN /\ m.kind = "nominate" =>
          Recorded(blue, m.corr) /\ On(blue, m.corr).peerCxId = m.peerCxId
     /\ m.kind = "proposal" => Approved(green, m.corr)
     /\ m.kind = "confirm" => Approved(blue, m.corr)
     /\ m.kind = "activated" => Active(green, m.corr)

\* With one writer per tenant no copy is ever stale, so each tenant's state
\* only climbs, and a message that says so stays true until it is read.
SerialInvariant ==
  /\ NothingStale
  /\ RungsRest
  /\ \A b \in Call : MessageBacked(b)

\* As long as the agreement lasts, Blue is never stranded behind an active
\* Green: asked again, Green proposes what Blue has on record, confirms it
\* without activating anew, and the receipt makes Blue active.
NeverStranded ==
  \A c \in Corr :
    LET blue == store["blue"]
        green == store["green"]
        poll == Envelope("poll", c, On(blue, c).peerCxId, On(blue, c).terms)
        proposal == proposePeerCxActivation(green, poll, ended["green"])
        next == acceptActivationProposal(blue, proposal)
        confirmation ==
          Envelope("confirm", c, proposal.peerCxId, On(blue, c).terms)
        receipt == [confirmation EXCEPT !.kind = "activated"]
    IN /\ Active(green, c)
       /\ InvitedTerms[c].expiresAt \notin ended["blue"] \cup ended["green"]
       => /\ proposal.kind = "proposal"
          /\ ProposalAcceptable(blue, proposal, ended["blue"])
          /\ ConfirmationAcceptable(green, confirmation, ended["green"])
          /\ receivePeerCxConfirmation(green, confirmation) = green
          /\ ReceiptAcceptable(next, receipt)
          /\ Active(activateAfterConfirmation(next, receipt), c)
=============================================================================
