--------------------------- MODULE PeerCxAgreement ---------------------------
(***************************************************************************)
(* What a PeerCX setup promises, without invocations, messages or stored   *)
(* records: for each invitation the two tenants climb one ladder, each     *)
(* rung resting on the other tenant's last one, and nobody climbs down     *)
(* except by revoking for good.                                            *)
(***************************************************************************)
CONSTANT Corr

VARIABLES blue, green    \* the rung of each tenant, per invitation

BlueRung == {"none", "consented", "accepted", "active", "revoked"}
GreenRung == {"none", "pending", "approved", "refused", "active", "revoked"}

Init ==
  /\ blue = [c \in Corr |-> "none"]
  /\ green = [c \in Corr |-> "none"]

BlueMoves(c, from, to) ==
  /\ blue[c] = from
  /\ blue' = [blue EXCEPT ![c] = to]
  /\ UNCHANGED green

GreenMoves(c, from, to) ==
  /\ green[c] = from
  /\ green' = [green EXCEPT ![c] = to]
  /\ UNCHANGED blue

Consent(c) == BlueMoves(c, "none", "consented")
Nominated(c) == blue[c] = "consented" /\ GreenMoves(c, "none", "pending")
Approve(c) == GreenMoves(c, "pending", "approved")
Refuse(c) == GreenMoves(c, "pending", "refused")
Accept(c) == green[c] = "approved" /\ BlueMoves(c, "consented", "accepted")
ActivateGreen(c) == blue[c] = "accepted" /\ GreenMoves(c, "approved", "active")
ActivateBlue(c) ==
  green[c] \in {"active", "revoked"} /\ BlueMoves(c, "accepted", "active")
Revoke(c) ==
  BlueMoves(c, "active", "revoked") \/ GreenMoves(c, "active", "revoked")

Next ==
  \E c \in Corr :
    \/ Consent(c) \/ Nominated(c) \/ Approve(c) \/ Refuse(c)
    \/ Accept(c) \/ ActivateGreen(c) \/ ActivateBlue(c) \/ Revoke(c)

Spec == Init /\ [][Next]_<<blue, green>>
=============================================================================
