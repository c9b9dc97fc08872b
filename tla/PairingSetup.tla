----------------------------- MODULE PairingSetup -----------------------------
(***************************************************************************)
(* How two sites set a Pairing up, as the command cores compute it.  Every *)
(* site runs the same app and may be the manufacturer of one Pairing and   *)
(* the supplier of another; both roles share one PairingSetupState         *)
(* (pairing/apply-pairing-setup-command.ts).  The manufacturer initiates   *)
(* and hands a reference out, the supplier's administrator accepts with a  *)
(* Paired Epic, the acceptance crosses to the manufacturer, whose          *)
(* collaboration core accepts the pending request                          *)
(* (collaboration/apply-command.ts), and the manufacturer's system applies *)
(* it.  An acceptance can arrive late, again, or never.                    *)
(*                                                                         *)
(* What is abstracted.  A Pairing ID stands for the IDs made with it: the  *)
(* correlation ID, the reference and the request.  Repeating a command     *)
(* repeats its idempotency key, and two acceptances of a Pairing are the   *)
(* same command when one site gives both for the same Paired Epic.  The    *)
(* setup core collects keys and never looks at them, so they are left out  *)
(* there.                                                                  *)
(* Nothing in the repository stores these states or carries the commands:  *)
(* a command is one step here, and the wiring around it is external.       *)
(***************************************************************************)
EXTENDS Naturals, Sequences, FiniteSets

CONSTANTS
  Site, PairingId,
  Epic,             \* the Epics a supplier can pair
  Manufacturer,     \* the site that initiates each Pairing
  NoEpic,           \* a manufacturer's record names no Paired Epic
  MaxLocalPairings  \* bound: the records all sites keep together

ASSUME PairingSetupAssumption ==
  /\ Manufacturer \in [PairingId -> Site]
  /\ NoEpic \notin Epic
  /\ MaxLocalPairings \in Nat

VARIABLES
  setup,        \* each site's PairingSetupState
  requests,     \* the manufacturers' pairing requests: CollaborationState
  processed,    \* the acceptances the collaboration cores have applied
  acceptances,  \* the acceptance commands sent to a manufacturer, for good
  answered      \* acceptances answered "active" and not applied yet

vars == <<setup, requests, processed, acceptances, answered>>

LocalPairing ==
  [role : {"manufacturer"}, pairingId : PairingId, pairedEpic : {NoEpic},
   status : {"awaiting-supplier-acceptance", "active"}]
    \cup [role : {"supplier"}, pairingId : PairingId, pairedEpic : Epic,
          status : {"accepted-awaiting-peer-application"}]

PairingSetupState ==
  [consumed : SUBSET PairingId, localPairings : Seq(LocalPairing)]

PairingRequestAcceptance ==
  [pairingId : PairingId, supplier : Site, pairedEpic : Epic]

TypeOK ==
  /\ setup \in [Site -> PairingSetupState]
  /\ requests \in [PairingId -> {"none", "pending", "accepted"}]
  /\ acceptances \subseteq PairingRequestAcceptance
  /\ processed \subseteq acceptances
  /\ answered \subseteq processed

Init ==
  /\ setup = [s \in Site |-> [consumed |-> {}, localPairings |-> <<>>]]
  /\ requests = [p \in PairingId |-> "none"]
  /\ processed = {} /\ acceptances = {} /\ answered = {}

-----------------------------------------------------------------------------
(* applyPairingSetupCommand, one operator per command: what becomes of a    *)
(* site's state.                                                            *)

Outbound(p) ==
  [role |-> "manufacturer", pairingId |-> p, pairedEpic |-> NoEpic,
   status |-> "awaiting-supplier-acceptance"]
Accepted(p, e) ==
  [role |-> "supplier", pairingId |-> p, pairedEpic |-> e,
   status |-> "accepted-awaiting-peer-application"]

\* Mutant of pairingInitiate: the new record replaces the others.
InitiateAlone(state, p) ==
  [consumed |-> {}, localPairings |-> <<Outbound(p)>>]

\* The next state is written without the consumed references.
pairingInitiate(state, p) ==
  [consumed |-> {}, localPairings |-> Append(state.localPairings, Outbound(p))]

Acceptable(state, p) == p \notin state.consumed

pairingAccept(state, p, e) ==
  [consumed |-> state.consumed \cup {p},
   localPairings |-> Append(state.localPairings, Accepted(p, e))]

\* Mutant of Awaiting: any outbound Pairing is taken for the accepted one.
AwaitingAny(state, p) ==
  {i \in DOMAIN state.localPairings :
     state.localPairings[i].status = "awaiting-supplier-acceptance"}

\* The manufacturer's records of p that an acceptance can activate.
Awaiting(state, p) ==
  {i \in DOMAIN state.localPairings : state.localPairings[i] = Outbound(p)}

\* Mutant of applyPeerAcceptance: the record is given the other role's status.
ApplyAsAccepted(state, p) ==
  [consumed |-> {},
   localPairings |->
     [i \in DOMAIN state.localPairings |->
        IF i \in Awaiting(state, p)
        THEN [state.localPairings[i] EXCEPT
                !.status = "accepted-awaiting-peer-application"]
        ELSE state.localPairings[i]]]

\* The first of them, if any, becomes active; here too the consumed
\* references are not carried over.  Without one the command is refused.
applyPeerAcceptance(state, p) ==
  LET awaiting == Awaiting(state, p) IN
  IF awaiting = {} THEN state
  ELSE LET first == CHOOSE i \in awaiting : \A j \in awaiting : i <= j
       IN [consumed |-> {},
           localPairings |->
             [state.localPairings EXCEPT ![first].status = "active"]]

Set(s, state) == setup' = [setup EXCEPT ![s] = state]

Room ==
  Cardinality({place \in Site \X (1..MaxLocalPairings) :
                 place[2] <= Len(setup[place[1]].localPairings)})
    < MaxLocalPairings

-----------------------------------------------------------------------------
\* A manufacturer's administrator initiates, or a repeated command does.  The
\* request that its reference leads to is pending from then on.
Initiate(p) ==
  LET s == Manufacturer[p] IN
  /\ Room
  /\ Set(s, pairingInitiate(setup[s], p))
  /\ requests' = [requests EXCEPT ![p] = IF @ = "none" THEN "pending" ELSE @]
  /\ UNCHANGED <<processed, acceptances, answered>>

\* Another site's administrator follows the reference; a consumed one is
\* refused.  The acceptance goes out.
Accept(s, p, e) ==
  /\ s # Manufacturer[p] /\ requests[p] # "none"
  /\ Room
  /\ Acceptable(setup[s], p)
  /\ Set(s, pairingAccept(setup[s], p, e))
  /\ acceptances' = acceptances
       \cup {[pairingId |-> p, supplier |-> s, pairedEpic |-> e]}
  /\ UNCHANGED <<requests, processed, answered>>

\* Mutant of RequestAcceptable: the request need not be pending any more.
RequestKnown(a) == requests[a.pairingId] # "none"

\* What the collaboration core asks of an acceptance it has not seen.
RequestAcceptable(a) == requests[a.pairingId] = "pending"

\* applyCollaborationCommand: an acceptance seen before is answered as it
\* was, and changes nothing; a new one needs its request to be pending.
ReceiveAcceptance(a) ==
  /\ \/ /\ a \in processed
        /\ UNCHANGED <<requests, processed>>
     \/ /\ a \notin processed
        /\ RequestAcceptable(a)
        /\ requests' = [requests EXCEPT ![a.pairingId] = "accepted"]
        /\ processed' = processed \cup {a}
  /\ answered' = answered \cup {a}
  /\ UNCHANGED <<setup, acceptances>>

\* The manufacturer's system applies what its collaboration core accepted.
ApplyAcceptance(a) ==
  LET s == Manufacturer[a.pairingId] IN
  /\ a \in answered
  /\ Set(s, applyPeerAcceptance(setup[s], a.pairingId))
  /\ answered' = answered \ {a}
  /\ UNCHANGED <<requests, processed, acceptances>>

\* It stops before applying: only another delivery of the acceptance helps.
Interrupted(a) ==
  /\ a \in answered
  /\ answered' = answered \ {a}
  /\ UNCHANGED <<setup, requests, processed, acceptances>>

Next ==
  \/ \E p \in PairingId : Initiate(p)
  \/ \E s \in Site, p \in PairingId, e \in Epic : Accept(s, p, e)
  \/ \E a \in acceptances :
       ReceiveAcceptance(a) \/ ApplyAcceptance(a) \/ Interrupted(a)

Spec == Init /\ [][Next]_vars

-----------------------------------------------------------------------------
Held(s) == {setup[s].localPairings[i] : i \in DOMAIN setup[s].localPairings}

Bindings(s, p) ==
  {i \in DOMAIN setup[s].localPairings :
     /\ setup[s].localPairings[i].role = "supplier"
     /\ setup[s].localPairings[i].pairingId = p}

\* A Pairing is bilateral: a manufacturer's record of it becomes active only
\* when another site's administrator has bound a Paired Epic to it, however
\* acceptances are delayed, repeated and cut short between the two cores.
ActiveIsAccepted ==
  \A s \in Site, p \in PairingId :
    [Outbound(p) EXCEPT !.status = "active"] \in Held(s) =>
      \E a \in processed :
        /\ a.pairingId = p /\ a.supplier # s
        /\ Accepted(p, a.pairedEpic) \in Held(a.supplier)

\* Whichever sites follow a reference, and accept again, the manufacturer takes
\* one acceptance of a request and no other: one supplier, one Paired Epic.
OneAcceptanceTaken ==
  \A p \in PairingId :
    Cardinality({a \in processed : a.pairingId = p})
      = (IF requests[p] = "accepted" THEN 1 ELSE 0)

\* A Pairing reference is single-use (CONTEXT.md:56-57): a site binds a Paired
\* Epic with it once.  The code does not keep this: an initiation and an
\* application write a next state without the consumed references.
ReferenceUsedOnce ==
  \A s \in Site, p \in PairingId : Cardinality(Bindings(s, p)) <= 1

\* A site's Pairings are never dropped, exchanged or taken back by a command
\* for another one: only an awaiting record changes, and only to active.
PairingsKept ==
  [][\A s \in Site :
       \A i \in DOMAIN setup[s].localPairings :
         LET old == setup[s].localPairings[i] IN
         /\ i \in DOMAIN setup'[s].localPairings
         /\ \/ setup'[s].localPairings[i] = old
            \/ /\ old = Outbound(old.pairingId)
               /\ setup'[s].localPairings[i] = [old EXCEPT !.status = "active"]
    ]_vars
=============================================================================
