----------------------------- MODULE PeerCxRetry -----------------------------
(***************************************************************************)
(* The handshake of PeerCxSerial under the fairness its environment gives. *)
(* Forge runs a started invocation on unless it kills it, and the one that *)
(* has the turn of its tenant is not held up for ever by the others; the   *)
(* network delivers what it does not lose; Blue's administrator keeps      *)
(* pressing the button that confirms a pending activation; and there are   *)
(* finitely many failures, however many.                                   *)
(***************************************************************************)
EXTENDS PeerCxSerial

\* What may go wrong: a message or an invocation that still matters is lost.
\* A message to an invocation that was killed, or one held by an invocation
\* that has nothing more to do, is dropped without harm.
Failure ==
  \/ \E b \in Call :
       \/ call[b].step # "idle" /\ Lose(b)
       \/ KillHandler(b)
       \/ KillCall(b) /\ (call[b].step = "nominating" \/ wire[b].kind # "quiet")
  \/ \E a \in Admin : KillAdmin(a) /\ store[admin[a].site] # admin[a].state

Running(b) ==
  \/ RecordConsent(b) \/ NominationReceived(b) \/ AcceptProposal(b)
  \/ ActivateBlue(b) \/ GiveUp(b) \/ Green(b)
  \/ call[b].step = "idle" /\ Lose(b)

InTurn(A) == A /\ OneWriterPerTenant'

RetrySpec ==
  /\ SerialSpec
  /\ \A b \in Call : SF_vars(InTurn(Running(b)))
  /\ \A b \in Call, c \in Corr : SF_vars(InTurn(ConfirmActivation(b, c)))
  /\ \A a \in Admin : WF_vars(InTurn(CommitAdmin(a)))
  /\ <>[][~Failure]_vars

\* A confirmation whose receipt was lost is healed by asking again: once
\* Green is active, Blue comes to hold the same PeerCX, unless the agreement
\* ends first.  Green keeps answering for an active record, and a repeated
\* confirmation returns the recorded activation.
LostReceiptHeals ==
  \A c \in Corr :
    (On(store["green"], c).status = "active") ~>
      \/ On(store["blue"], c).status = "active"
      \/ InvitedTerms[c].expiresAt \in ended["blue"] \cup ended["green"]
=============================================================================
