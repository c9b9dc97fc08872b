-------------------------- MODULE PairingSetupProofs ---------------------------
(***************************************************************************)
(* What the setup and collaboration cores keep of Pairings between any     *)
(* number of sites: a Pairing is active at its manufacturer only when      *)
(* another site holds it, one acceptance of it is taken, and no record is  *)
(* lost, however commands repeat and acceptances are delayed.              *)
(***************************************************************************)
EXTENDS PairingSetup, FiniteSetTheorems, WellFoundedInduction, TLAPS

Active(p) ==
  [role |-> "manufacturer", pairingId |-> p, pairedEpic |-> NoEpic,
   status |-> "active"]

(* What a command makes of the records in a state.                         *)

Appended(old, new, record) ==
  LET n == Len(old.localPairings) IN
  /\ DOMAIN old.localPairings = 1..n /\ n \in Nat
  /\ DOMAIN new.localPairings = 1..(n + 1)
  /\ \A i \in 1..n : new.localPairings[i] = old.localPairings[i]
  /\ new.localPairings[n + 1] = record

Activated(old, new, p) ==
  /\ DOMAIN new.localPairings = DOMAIN old.localPairings
  /\ \E first \in DOMAIN old.localPairings :
       /\ old.localPairings[first] = Outbound(p)
       /\ new.localPairings[first] = Active(p)
       /\ \A i \in DOMAIN old.localPairings \ {first} :
            new.localPairings[i] = old.localPairings[i]

KeepsPairings(old, new) ==
  \A i \in DOMAIN old.localPairings :
    LET record == old.localPairings[i] IN
    /\ i \in DOMAIN new.localPairings
    /\ \/ new.localPairings[i] = record
       \/ /\ record = Outbound(record.pairingId)
          /\ new.localPairings[i] = [record EXCEPT !.status = "active"]

(* The invariant.                                                          *)

\* Whoever accepted is another site than the manufacturer and holds the record
\* of what it accepted.
AcceptancesHeld ==
  \A a \in acceptances :
    /\ a.supplier # Manufacturer[a.pairingId]
    /\ Accepted(a.pairingId, a.pairedEpic) \in Held(a.supplier)

\* A manufacturer's record is at its manufacturer, and active ones follow from
\* an acceptance that the collaboration core took.
ActiveFollows ==
  \A s \in Site, p \in PairingId :
    /\ Outbound(p) \in Held(s) => s = Manufacturer[p]
    /\ Active(p) \in Held(s) =>
         s = Manufacturer[p] /\ \E a \in processed : a.pairingId = p

TakenOnce ==
  /\ \A a \in processed : requests[a.pairingId] = "accepted"
  /\ \A a, b \in processed : a.pairingId = b.pairingId => a = b
  /\ \A p \in PairingId :
       requests[p] = "accepted" => \E a \in processed : a.pairingId = p

Inv == TypeOK /\ AcceptancesHeld /\ ActiveFollows /\ TakenOnce

-----------------------------------------------------------------------------
(* The operators.                                                          *)

\* A set of natural numbers that is not empty has a least one.
LEMMA LeastNatural ==
  ASSUME NEW T \in SUBSET Nat, T # {}
  PROVE  \E m \in T : \A k \in T : m <= k
<1> DEFINE Less == {ss \in Nat \X Nat : ss[1] < ss[2]}
<1>1. IsWellFoundedOn(Less, Nat)
  BY NatLessThanWellFounded DEF OpToRel
<1> HIDE DEF Less
<1>2. PICK m \in T : \A k \in T : <<k, m>> \notin Less
  BY <1>1, WFMin
<1>3. \A k \in T : ~(k < m)
  BY <1>2 DEF Less
<1>4. QED
  BY <1>3

LEMMA RecordType ==
  ASSUME NEW p \in PairingId
  PROVE  /\ Outbound(p) \in LocalPairing /\ Active(p) \in LocalPairing
         /\ \A e \in Epic : Accepted(p, e) \in LocalPairing
         /\ [Outbound(p) EXCEPT !.status = "active"] = Active(p)
  BY DEF Outbound, Active, Accepted, LocalPairing

WithRecord(old, consumed, record) ==
  [consumed |-> consumed, localPairings |-> Append(old.localPairings, record)]

LEMMA AppendKeeps ==
  ASSUME NEW old \in PairingSetupState, NEW record \in LocalPairing,
         NEW consumed \in SUBSET PairingId
  PROVE  LET new == WithRecord(old, consumed, record) IN
         /\ new \in PairingSetupState
         /\ Appended(old, new, record) /\ KeepsPairings(old, new)
<1> DEFINE new == WithRecord(old, consumed, record)
<1>0. /\ new = [consumed |-> consumed,
                localPairings |-> Append(old.localPairings, record)]
      /\ new.localPairings = Append(old.localPairings, record)
  BY DEF WithRecord
<1> HIDE DEF new
<1>1. old.localPairings \in Seq(LocalPairing)
  BY DEF PairingSetupState
<1>2. Append(old.localPairings, record) \in Seq(LocalPairing)
  BY <1>1
<1>3. Appended(old, new, record)
  BY <1>0, <1>1 DEF Appended
<1>4. new \in PairingSetupState
  BY <1>0, <1>2 DEF PairingSetupState
<1>5. KeepsPairings(old, new)
  BY <1>3 DEF Appended, KeepsPairings
<1>6. QED
  BY <1>0, <1>3, <1>4, <1>5 DEF new

LEMMA ActivateKeeps ==
  ASSUME NEW old \in PairingSetupState, NEW p \in PairingId,
         NEW new, new = applyPeerAcceptance(old, p)
  PROVE  /\ new \in PairingSetupState
         /\ KeepsPairings(old, new)
         /\ \/ new = old
            \/ Activated(old, new, p)
<1> DEFINE seq == old.localPairings
<1>1. seq \in Seq(LocalPairing)
  BY DEF PairingSetupState
<1>2. CASE Awaiting(old, p) = {}
  BY <1>2 DEF applyPeerAcceptance, KeepsPairings
<1>3. CASE Awaiting(old, p) # {}
  <2>1. Awaiting(old, p) \in SUBSET Nat
    BY <1>1 DEF Awaiting
  <2>2. \E first \in Awaiting(old, p) : \A j \in Awaiting(old, p) : first <= j
    BY <1>3, <2>1, LeastNatural
  <2>3. PICK first \in Awaiting(old, p) :
          new = [consumed |-> {},
                 localPairings |-> [seq EXCEPT ![first].status = "active"]]
    BY <1>3, <2>2 DEF applyPeerAcceptance
  <2>4. first \in DOMAIN seq /\ seq[first] = Outbound(p)
    BY DEF Awaiting
  <2>5. new.localPairings = [seq EXCEPT ![first] = Active(p)]
    BY <2>3, <2>4, RecordType
  <2>6. new.localPairings \in Seq(LocalPairing)
    BY <1>1, <2>4, <2>5, RecordType
  <2>7. new \in PairingSetupState
    BY <2>3, <2>6 DEF PairingSetupState
  <2>8. Activated(old, new, p)
    BY <1>1, <2>4, <2>5 DEF Activated
  <2>9. KeepsPairings(old, new)
    <3> SUFFICES ASSUME NEW i \in DOMAIN seq
                 PROVE  /\ i \in DOMAIN new.localPairings
                        /\ \/ new.localPairings[i] = seq[i]
                           \/ /\ seq[i] = Outbound(seq[i].pairingId)
                              /\ new.localPairings[i] =
                                   [seq[i] EXCEPT !.status = "active"]
      BY DEF KeepsPairings
    <3>1. i \in DOMAIN new.localPairings
      BY <1>1, <2>5
    <3>2. CASE i # first
      BY <1>1, <2>5, <3>1, <3>2
    <3>3. CASE i = first
      <4>1. seq[i] = Outbound(p) /\ new.localPairings[i] = Active(p)
        BY <1>1, <2>4, <2>5, <3>3
      <4>2. Outbound(p).pairingId = p
        BY DEF Outbound
      <4>3. seq[i] = Outbound(seq[i].pairingId)
        BY <4>1, <4>2
      <4>4. new.localPairings[i] = [seq[i] EXCEPT !.status = "active"]
        BY <4>1, RecordType
      <4>5. QED
        BY <3>1, <4>3, <4>4
    <3>4. QED
      BY <3>2, <3>3
  <2>10. QED
    BY <2>7, <2>8, <2>9
<1>4. QED
  BY <1>2, <1>3

-----------------------------------------------------------------------------
(* What a step does to what sites hold.                                    *)

\* The three kinds of record are told apart by their status.
LEMMA RecordsDiffer ==
  ASSUME NEW p, NEW q, NEW e
  PROVE  /\ Outbound(p) # Active(q) /\ Outbound(p) # Accepted(q, e)
         /\ Active(p) # Accepted(q, e)
         /\ Outbound(p) = Outbound(q) => p = q
         /\ Active(p) = Active(q) => p = q
         /\ Outbound(p).role = "manufacturer" /\ Active(p).role = "manufacturer"
         /\ Accepted(p, e).role = "supplier" /\ Accepted(p, e).pairingId = p
<1>1. /\ Outbound(p).status = "awaiting-supplier-acceptance"
      /\ Active(p).status = "active" /\ Active(q).status = "active"
      /\ Accepted(q, e).status = "accepted-awaiting-peer-application"
      /\ Outbound(p).pairingId = p /\ Outbound(q).pairingId = q
      /\ Active(p).pairingId = p /\ Active(q).pairingId = q
  BY DEF Outbound, Active, Accepted
<1>2. QED
  BY <1>1 DEF Outbound, Active, Accepted

LEMMA SetStep ==
  ASSUME TypeOK, NEW s \in Site, NEW state \in PairingSetupState, Set(s, state)
  PROVE  /\ setup' \in [Site -> PairingSetupState]
         /\ setup'[s] = state
         /\ \A t \in Site \ {s} : setup'[t] = setup[t]
  BY DEF Set, TypeOK, PairingSetupState

LEMMA SameHeld ==
  ASSUME NEW s \in Site, setup'[s] = setup[s]
  PROVE  Held(s)' = Held(s)
  BY DEF Held

LEMMA AppendedHeld ==
  ASSUME NEW s \in Site, NEW record, Appended(setup[s], setup'[s], record)
  PROVE  Held(s)' = Held(s) \cup {record}
<1> DEFINE n == Len(setup[s].localPairings)
           old == setup[s].localPairings
           new == setup'[s].localPairings
<1>1. /\ DOMAIN old = 1..n /\ n \in Nat /\ DOMAIN new = 1..(n + 1)
      /\ \A i \in 1..n : new[i] = old[i]
      /\ new[n + 1] = record
  BY DEF Appended
<1>2. 1..(n + 1) = (1..n) \cup {n + 1} /\ n + 1 \notin 1..n
  BY <1>1
<1>3. /\ Held(s) = {old[i] : i \in 1..n}
      /\ Held(s)' = {new[i] : i \in (1..n) \cup {n + 1}}
  BY <1>1, <1>2 DEF Held
<1> HIDE DEF n, old, new
<1>4. QED
  BY <1>1, <1>3

LEMMA ActivatedHeld ==
  ASSUME NEW s \in Site, NEW p \in PairingId, Activated(setup[s], setup'[s], p)
  PROVE  /\ Outbound(p) \in Held(s)
         /\ Held(s)' \subseteq Held(s) \cup {Active(p)}
         /\ Held(s) \subseteq Held(s)' \cup {Outbound(p)}
<1> DEFINE old == setup[s].localPairings
           new == setup'[s].localPairings
<1>1. PICK first \in DOMAIN old :
        /\ old[first] = Outbound(p) /\ new[first] = Active(p)
        /\ \A i \in DOMAIN old \ {first} : new[i] = old[i]
  BY DEF Activated
<1>2. DOMAIN new = DOMAIN old
  BY DEF Activated
<1>3. /\ Held(s) = {old[i] : i \in DOMAIN old}
      /\ Held(s)' = {new[i] : i \in DOMAIN new}
  BY DEF Held
<1> HIDE DEF old, new
<1>4. QED
  BY <1>1, <1>2, <1>3

\* An acceptance names a Pairing and a site.
LEMMA AcceptanceType ==
  ASSUME TypeOK, NEW a \in acceptances
  PROVE  a.pairingId \in PairingId /\ a.supplier \in Site /\ a.pairedEpic \in Epic
  BY DEF TypeOK, PairingRequestAcceptance

-----------------------------------------------------------------------------
LEMMA InitInv == Init => Inv
<1> SUFFICES ASSUME Init PROVE Inv
  OBVIOUS
<1>1. \A s \in Site : setup[s] = [consumed |-> {}, localPairings |-> <<>>]
  BY DEF Init
<1>2. [consumed |-> {}, localPairings |-> <<>>] \in PairingSetupState
  BY DEF PairingSetupState
<1>3. TypeOK
  BY <1>2 DEF Init, TypeOK
<1>4. \A s \in Site : Held(s) = {}
  <2>1. \A s \in Site : DOMAIN setup[s].localPairings = {}
    BY <1>1
  <2>2. QED
    BY <2>1 DEF Held
<1>5. processed = {} /\ acceptances = {} /\ \A p \in PairingId : requests[p] = "none"
  BY DEF Init
<1>6. QED
  BY <1>3, <1>4, <1>5 DEF Inv, AcceptancesHeld, ActiveFollows, TakenOnce

\* An initiation adds an awaiting record at the manufacturer.
LEMMA InitiateStep ==
  ASSUME Inv, NEW p \in PairingId, Initiate(p)
  PROVE  Inv' /\ \A s \in Site : KeepsPairings(setup[s], setup'[s])
<1> DEFINE site == Manufacturer[p]
<1>1. site \in Site /\ setup[site] \in PairingSetupState
  BY PairingSetupAssumption DEF Inv, TypeOK
<1>2. /\ Set(site, pairingInitiate(setup[site], p))
      /\ UNCHANGED <<processed, acceptances, answered>>
      /\ \A q \in PairingId : requests'[q] = "accepted" <=> requests[q] = "accepted"
      /\ requests' \in [PairingId -> {"none", "pending", "accepted"}]
  BY DEF Initiate, Inv, TypeOK
<1>3. /\ pairingInitiate(setup[site], p) \in PairingSetupState
      /\ Appended(setup[site], pairingInitiate(setup[site], p), Outbound(p))
      /\ KeepsPairings(setup[site], pairingInitiate(setup[site], p))
  <2>1. pairingInitiate(setup[site], p) = WithRecord(setup[site], {}, Outbound(p))
    BY DEF pairingInitiate, WithRecord
  <2>2. {} \in SUBSET PairingId
    OBVIOUS
  <2>3. Outbound(p) \in LocalPairing
    BY RecordType
  <2>4. QED
    BY <1>1, <2>1, <2>2, <2>3, AppendKeeps
<1> HIDE DEF site
<1>4. /\ setup' \in [Site -> PairingSetupState]
      /\ setup'[site] = pairingInitiate(setup[site], p)
      /\ \A t \in Site \ {site} : setup'[t] = setup[t]
  BY <1>1, <1>2, <1>3, SetStep DEF Inv
<1>5. Held(site)' = Held(site) \cup {Outbound(p)}
  BY <1>1, <1>3, <1>4, AppendedHeld
<1>6. \A t \in Site \ {site} : Held(t)' = Held(t)
  BY <1>4, SameHeld
<1>7. TypeOK'
  BY <1>2, <1>4 DEF Inv, TypeOK
<1>8. AcceptancesHeld'
  BY <1>2, <1>5, <1>6, AcceptanceType DEF Inv, AcceptancesHeld
<1>9. ActiveFollows'
  <2>1. ASSUME NEW q \in PairingId
        PROVE  /\ Outbound(q) = Outbound(p) => q = p
               /\ Active(q) # Outbound(p)
    BY RecordsDiffer
  <2>2. ASSUME NEW q \in PairingId
        PROVE  /\ Outbound(q) \in Held(site)' => Outbound(q) \in Held(site) \/ q = p
               /\ Active(q) \in Held(site)' => Active(q) \in Held(site)
    BY <1>5, <2>1
  <2>3. processed' = processed
    BY <1>2
  <2>4. QED
    BY <1>1, <1>6, <2>2, <2>3 DEF Inv, ActiveFollows, site
<1>10. TakenOnce'
  BY <1>2 DEF Inv, TypeOK, TakenOnce, PairingRequestAcceptance
<1>11. \A s \in Site : KeepsPairings(setup[s], setup'[s])
  BY <1>3, <1>4 DEF KeepsPairings
<1>12. QED
  BY <1>7, <1>8, <1>9, <1>10, <1>11 DEF Inv

\* An acceptance adds a supplier's record at another site.
LEMMA AcceptStep ==
  ASSUME Inv, NEW site \in Site, NEW p \in PairingId, NEW e \in Epic,
         Accept(site, p, e)
  PROVE  Inv' /\ \A s \in Site : KeepsPairings(setup[s], setup'[s])
<1> DEFINE next == pairingAccept(setup[site], p, e)
           a == [pairingId |-> p, supplier |-> site, pairedEpic |-> e]
<1>1. setup[site] \in PairingSetupState
  BY DEF Inv, TypeOK
<1>2. /\ site # Manufacturer[p]
      /\ Set(site, next)
      /\ acceptances' = acceptances \cup {a}
      /\ UNCHANGED <<requests, processed, answered>>
  BY DEF Accept
<1>3. /\ next \in PairingSetupState
      /\ Appended(setup[site], next, Accepted(p, e))
      /\ KeepsPairings(setup[site], next)
  <2>1. next = WithRecord(setup[site], setup[site].consumed \cup {p}, Accepted(p, e))
    BY DEF pairingAccept, WithRecord
  <2>2. setup[site].consumed \cup {p} \in SUBSET PairingId
    BY <1>1 DEF PairingSetupState
  <2>3. Accepted(p, e) \in LocalPairing
    BY RecordType
  <2>4. QED
    BY <1>1, <2>1, <2>2, <2>3, AppendKeeps
<1> HIDE DEF next
<1>4. /\ setup' \in [Site -> PairingSetupState]
      /\ setup'[site] = next
      /\ \A t \in Site \ {site} : setup'[t] = setup[t]
  BY <1>2, <1>3, SetStep DEF Inv
<1>5. Held(site)' = Held(site) \cup {Accepted(p, e)}
  BY <1>1, <1>3, <1>4, AppendedHeld
<1>6. \A t \in Site \ {site} : Held(t)' = Held(t)
  BY <1>4, SameHeld
<1>7. TypeOK'
  BY <1>2, <1>4 DEF Inv, TypeOK, PairingRequestAcceptance
<1>8. AcceptancesHeld'
  BY <1>2, <1>5, <1>6, AcceptanceType DEF Inv, AcceptancesHeld
<1>9. ActiveFollows'
  <2>1. ASSUME NEW q \in PairingId
        PROVE  /\ Outbound(q) \in Held(site)' => Outbound(q) \in Held(site)
               /\ Active(q) \in Held(site)' => Active(q) \in Held(site)
    <3>1. Outbound(q) # Accepted(p, e) /\ Active(q) # Accepted(p, e)
      BY RecordsDiffer
    <3>2. QED
      BY <1>5, <3>1
  <2>2. processed' = processed
    BY <1>2
  <2>3. QED
    BY <1>6, <2>1, <2>2 DEF Inv, ActiveFollows
<1>10. TakenOnce'
  BY <1>2 DEF Inv, TakenOnce
<1>11. \A s \in Site : KeepsPairings(setup[s], setup'[s])
  BY <1>3, <1>4 DEF KeepsPairings
<1>12. QED
  BY <1>7, <1>8, <1>9, <1>10, <1>11 DEF Inv

\* The collaboration core takes the first acceptance of a request, and answers
\* every other delivery without changing its state.
LEMMA ReceiveStep ==
  ASSUME Inv, NEW a \in acceptances, ReceiveAcceptance(a)
  PROVE  Inv' /\ \A s \in Site : KeepsPairings(setup[s], setup'[s])
<1>1. /\ UNCHANGED <<setup, acceptances>>
      /\ a.pairingId \in PairingId
  BY DEF ReceiveAcceptance, Inv, TypeOK, PairingRequestAcceptance
<1>2. \A s \in Site : Held(s)' = Held(s)
  BY <1>1, SameHeld
<1>3. processed \subseteq processed' /\ processed' \subseteq acceptances
  BY DEF ReceiveAcceptance, Inv, TypeOK
<1>4. TypeOK'
  BY <1>1, <1>3 DEF ReceiveAcceptance, Inv, TypeOK
<1>5. AcceptancesHeld' /\ ActiveFollows'
  <2>1. AcceptancesHeld'
    BY <1>1, <1>2, AcceptanceType DEF Inv, AcceptancesHeld
  <2>2. ActiveFollows'
    BY <1>2, <1>3 DEF Inv, ActiveFollows
  <2>3. QED
    BY <2>1, <2>2
<1>6. TakenOnce'
  <2>1. CASE a \in processed
    BY <2>1 DEF ReceiveAcceptance, Inv, TakenOnce
  <2>2. CASE a \notin processed
    <3>1. /\ requests[a.pairingId] = "pending"
          /\ requests' = [requests EXCEPT ![a.pairingId] = "accepted"]
          /\ processed' = processed \cup {a}
      BY <2>2 DEF ReceiveAcceptance, RequestAcceptable
    <3>2. \A b \in processed : b.pairingId # a.pairingId /\ b.pairingId \in PairingId
      BY <3>1 DEF Inv, TypeOK, TakenOnce, PairingRequestAcceptance
    <3>3. QED
      BY <1>1, <3>1, <3>2 DEF Inv, TypeOK, TakenOnce
  <2>3. QED
    BY <2>1, <2>2
<1>7. QED
  BY <1>1, <1>4, <1>5, <1>6 DEF Inv, KeepsPairings

\* The manufacturer's record becomes active on an acceptance that was taken.
LEMMA ApplyStep ==
  ASSUME Inv, NEW a \in acceptances, ApplyAcceptance(a)
  PROVE  Inv' /\ \A s \in Site : KeepsPairings(setup[s], setup'[s])
<1> DEFINE p == a.pairingId
           site == Manufacturer[p]
           next == applyPeerAcceptance(setup[site], p)
<1>1. /\ p \in PairingId /\ site \in Site /\ setup[site] \in PairingSetupState
      /\ a \in processed
  BY PairingSetupAssumption
     DEF Inv, TypeOK, PairingRequestAcceptance, ApplyAcceptance
<1>2. /\ Set(site, next)
      /\ answered' \subseteq answered
      /\ UNCHANGED <<requests, processed, acceptances>>
  BY DEF ApplyAcceptance
<1>3. /\ next \in PairingSetupState
      /\ KeepsPairings(setup[site], next)
      /\ \/ next = setup[site]
         \/ Activated(setup[site], next, p)
  BY <1>1, ActivateKeeps
<1> HIDE DEF next, site
<1>4. /\ setup' \in [Site -> PairingSetupState]
      /\ setup'[site] = next
      /\ \A t \in Site \ {site} : setup'[t] = setup[t]
  BY <1>1, <1>2, <1>3, SetStep DEF Inv
<1>5. /\ Held(site)' \subseteq Held(site) \cup {Active(p)}
      /\ Held(site) \subseteq Held(site)' \cup {Outbound(p)}
  <2>1. CASE next = setup[site]
    BY <1>1, <1>4, <2>1, SameHeld
  <2>2. CASE Activated(setup[site], next, p)
    BY <1>1, <1>4, <2>2, ActivatedHeld
  <2>3. QED
    BY <1>3, <2>1, <2>2
<1>6. \A t \in Site \ {site} : Held(t)' = Held(t)
  BY <1>4, SameHeld
<1>7. TypeOK'
  BY <1>2, <1>4 DEF Inv, TypeOK
<1>8. AcceptancesHeld'
  <2>1. ASSUME NEW b \in acceptances
        PROVE  Accepted(b.pairingId, b.pairedEpic) \in Held(b.supplier)'
    <3>1. b.supplier \in Site
      BY DEF Inv, TypeOK, PairingRequestAcceptance
    <3>2. Accepted(b.pairingId, b.pairedEpic) # Outbound(p)
      BY RecordsDiffer
    <3>3. QED
      BY <1>5, <1>6, <3>1, <3>2 DEF Inv, AcceptancesHeld
  <2>2. QED
    BY <1>2, <2>1 DEF Inv, AcceptancesHeld
<1>9. ActiveFollows'
  <2>1. ASSUME NEW q \in PairingId
        PROVE  /\ Outbound(q) \in Held(site)' => Outbound(q) \in Held(site)
               /\ Active(q) \in Held(site)' => Active(q) \in Held(site) \/ q = p
    BY <1>5, RecordsDiffer
  <2>2. QED
    BY <1>1, <1>2, <1>6, <2>1 DEF Inv, ActiveFollows, site
<1>10. TakenOnce'
  BY <1>2 DEF Inv, TakenOnce
<1>11. \A s \in Site : KeepsPairings(setup[s], setup'[s])
  BY <1>3, <1>4 DEF KeepsPairings
<1>12. QED
  BY <1>7, <1>8, <1>9, <1>10, <1>11 DEF Inv

LEMMA StepInv ==
  Inv /\ [Next]_vars => Inv' /\ \A s \in Site : KeepsPairings(setup[s], setup'[s])
<1> SUFFICES ASSUME Inv, [Next]_vars
             PROVE  Inv' /\ \A s \in Site : KeepsPairings(setup[s], setup'[s])
  OBVIOUS
<1>1. ASSUME UNCHANGED <<setup, requests, processed, acceptances>>,
             answered' \subseteq answered
      PROVE  Inv' /\ \A s \in Site : KeepsPairings(setup[s], setup'[s])
  <2>1. \A s \in Site : Held(s)' = Held(s)
    BY <1>1, SameHeld
  <2>2. TypeOK'
    BY <1>1 DEF Inv, TypeOK
  <2>3. AcceptancesHeld'
    BY <1>1, <2>1, AcceptanceType DEF Inv, AcceptancesHeld
  <2>4. ActiveFollows' /\ TakenOnce'
    BY <1>1, <2>1 DEF Inv, ActiveFollows, TakenOnce
  <2>5. QED
    BY <1>1, <2>2, <2>3, <2>4 DEF Inv, KeepsPairings
<1>2. ASSUME NEW a \in acceptances, Interrupted(a)
      PROVE  Inv' /\ \A s \in Site : KeepsPairings(setup[s], setup'[s])
  BY <1>1, <1>2 DEF Interrupted
<1>3. CASE UNCHANGED vars
  BY <1>1, <1>3 DEF vars
<1>4. QED
  BY <1>2, <1>3, InitiateStep, AcceptStep, ReceiveStep, ApplyStep DEF Next

-----------------------------------------------------------------------------
\* The stored states are the ones the cores define.
THEOREM SetupTyped == Spec => []TypeOK
<1>1. Inv => TypeOK
  BY DEF Inv
<1>2. QED
  BY <1>1, InitInv, StepInv, PTL DEF Spec

\* A manufacturer's Pairing is active only when another site's administrator
\* has bound a Paired Epic to it.
THEOREM ActivationIsBilateral == Spec => []ActiveIsAccepted
<1>1. Inv => ActiveIsAccepted
  <2> SUFFICES ASSUME Inv, NEW s \in Site, NEW p \in PairingId,
                      Active(p) \in Held(s)
               PROVE  \E a \in processed :
                        /\ a.pairingId = p /\ a.supplier # s
                        /\ Accepted(p, a.pairedEpic) \in Held(a.supplier)
    BY RecordType DEF ActiveIsAccepted
  <2>1. s = Manufacturer[p] /\ \E a \in processed : a.pairingId = p
    BY DEF Inv, ActiveFollows
  <2>2. QED
    BY <2>1 DEF Inv, TypeOK, AcceptancesHeld
<1>2. QED
  BY <1>1, InitInv, StepInv, PTL DEF Spec

\* Of all acceptances of a request, however many sites send them, one is taken.
THEOREM OneAcceptance == Spec => []OneAcceptanceTaken
<1>1. Inv => OneAcceptanceTaken
  <2> SUFFICES ASSUME Inv, NEW p \in PairingId
               PROVE  Cardinality({a \in processed : a.pairingId = p})
                        = (IF requests[p] = "accepted" THEN 1 ELSE 0)
    BY DEF OneAcceptanceTaken
  <2> DEFINE taken == {a \in processed : a.pairingId = p}
  <2>1. CASE requests[p] = "accepted"
    <3>1. PICK a \in processed : a.pairingId = p
      BY <2>1 DEF Inv, TakenOnce
    <3>2. taken = {a}
      BY <3>1 DEF Inv, TakenOnce
    <3>3. QED
      BY <2>1, <3>2, FS_Singleton
  <2>2. CASE requests[p] # "accepted"
    <3>1. taken = {}
      BY <2>2 DEF Inv, TakenOnce
    <3>2. QED
      BY <2>2, <3>1, FS_EmptySet
  <2>3. QED
    BY <2>1, <2>2
<1>2. QED
  BY <1>1, InitInv, StepInv, PTL DEF Spec

\* No command takes a site's record of another Pairing away or back.
THEOREM RecordsAreKept == Spec => PairingsKept
<1>1. Inv /\ [Next]_vars =>
        [\A s \in Site : KeepsPairings(setup[s], setup'[s])]_vars
  BY StepInv
<1>2. QED
  BY <1>1, InitInv, StepInv, PTL DEF Spec, PairingsKept, KeepsPairings
=============================================================================
