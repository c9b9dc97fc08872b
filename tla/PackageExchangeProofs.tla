------------------------- MODULE PackageExchangeProofs -------------------------
(***************************************************************************)
(* What the publication and receipt cores keep of the packages of an Epic, *)
(* for any number of publications and any concurrency between them.        *)
(***************************************************************************)
EXTENDS PackageExchange, TLAPS

\* The destination counts a package as received when it promotes it, once.
Counted ==
  \A key \in Key :
    promotions[key] = (IF <<"receive", key>> \in receipt.processed THEN 1 ELSE 0)

\* What was received was sent, and what was sent was saved.
Sent ==
  /\ deliveries \subseteq stored
  /\ \A key \in Key : <<"receive", key>> \in receipt.processed => key \in deliveries

\* A publication that nothing has overtaken will save the stored state and its
\* own candidate, under a key that is new there.
HeldFresh ==
  ~raced =>
    \A r \in Run : run[r] # Idle =>
      /\ run[r].key \notin publication.processed
      /\ run[r].state = With(publication, run[r].key, "queued")

\* A candidate on record was published under its key.
RecordedProcessed ==
  ~raced => \A key \in Key : OnRecord(key) => key \in publication.processed

Inv ==
  /\ TypeOK /\ Counted /\ Sent /\ NewestIsCurrent
  /\ HeldFresh /\ RecordedProcessed /\ CandidatesKept

-----------------------------------------------------------------------------
\* What a command makes of a publication state is a publication state.
LEMMA WithType ==
  ASSUME NEW state \in PublicationState, NEW key \in Key,
         NEW outcome \in CandidateState
  PROVE  /\ With(state, key, outcome) \in PublicationState
         /\ With(state, key, outcome).candidates[key] = outcome
         /\ With(state, key, outcome).processed = state.processed \cup {key}
         /\ \A other \in Key \ {key} :
              With(state, key, outcome).candidates[other] = state.candidates[other]
  BY DEF With, PublicationState

\* A failure and a cancellation change one candidate's state and nothing else.
LEMMA OutcomeType ==
  ASSUME NEW state \in PublicationState, NEW key \in Key,
         NEW next \in {applyDeliveryFailureCommand(state, key),
                       applyPublicationCancellationCommand(state, key)}
  PROVE  /\ next \in PublicationState
         /\ next.candidates[key] \in {"failed", "cancelled"}
         /\ next.processed = state.processed
         /\ \A other \in Key \ {key} : next.candidates[other] = state.candidates[other]
  BY DEF applyDeliveryFailureCommand, applyPublicationCancellationCommand,
     PublicationState, CandidateState

\* A run at work holds its key and the state it will save.
LEMMA AtWork ==
  ASSUME TypeOK, NEW r \in Run, run[r] # Idle
  PROVE  run[r].key \in Key /\ run[r].state \in PublicationState
  BY DEF TypeOK, RunState, Idle

\* HeldFresh is about the stored state, what publications hold, and the flag.
LEMMA SameHeld ==
  ASSUME HeldFresh, UNCHANGED <<publication, run, raced>>
  PROVE  HeldFresh'
<1>1. \A key : With(publication, key, "queued")' = With(publication, key, "queued")
  BY DEF With
<1>2. QED
  BY <1>1 DEF HeldFresh

\* So are the properties of the source about candidates.
LEMMA SameSource ==
  ASSUME Inv, UNCHANGED <<publication, run, published, stored, raced>>
  PROVE  HeldFresh' /\ RecordedProcessed' /\ CandidatesKept'
<1>1. HeldFresh'
  BY SameHeld DEF Inv
<1>2. QED
  BY <1>1 DEF Inv, RecordedProcessed, CandidatesKept, OnRecord

-----------------------------------------------------------------------------
LEMMA InitInv == Init => Inv
<1> SUFFICES ASSUME Init PROVE Inv
  OBVIOUS
<1>1. TypeOK
  <2>1. publication \in PublicationState
    BY DEF Init, PublicationState, CandidateState
  <2>2. run \in [Run -> RunState]
    BY DEF Init, RunState, Idle
  <2>3. receipt \in SupplierReceiptState
    BY DEF Init, SupplierReceiptState
  <2>4. promotions \in [Key -> Nat] /\ published \in 0..MaxPublications
    BY ExchangeAssumption DEF Init
  <2>5. QED
    BY <2>1, <2>2, <2>3, <2>4 DEF Init, TypeOK
<1>2. Counted /\ Sent /\ NewestIsCurrent
  BY DEF Init, Counted, Sent, NewestIsCurrent
<1>3. HeldFresh /\ RecordedProcessed /\ CandidatesKept
  BY DEF Init, HeldFresh, RecordedProcessed, CandidatesKept, OnRecord
<1>4. QED
  BY <1>1, <1>2, <1>3 DEF Inv

\* A publication begins: the state it holds is the stored one and its candidate.
LEMMA PublishStep ==
  ASSUME Inv, NEW r \in Run, NEW key \in Key, PublishWorkPackage(r, key)
  PROVE  Inv'
<1> DEFINE next == With(publication, key, "queued")
<1>1. key \notin publication.processed
  BY DEF PublishWorkPackage, applyPublicationCommand
<1>2. run' = [run EXCEPT ![r] = [step |-> "saving", key |-> key, state |-> next]]
  BY <1>1 DEF PublishWorkPackage, applyPublicationCommand
<1>3. next \in PublicationState
  BY WithType DEF Inv, TypeOK, CandidateState
<1>4. published' \in 0..MaxPublications
  BY ExchangeAssumption DEF PublishWorkPackage, Inv, TypeOK, Key
<1>5. TypeOK'
  <2>1. run' \in [Run -> RunState]
    BY <1>2, <1>3 DEF Inv, TypeOK, RunState
  <2>2. QED
    BY <1>4, <2>1 DEF PublishWorkPackage, Inv, TypeOK, destination
<1>6. HeldFresh'
  <2>1. UNCHANGED <<publication, raced>>
    BY DEF PublishWorkPackage
  <2>2. ASSUME NEW q \in Run, ~raced, run'[q] # Idle
        PROVE  /\ run'[q].key \notin publication.processed
               /\ run'[q].state = With(publication, run'[q].key, "queued")
    <3>1. CASE q = r
      BY <1>1, <1>2, <3>1 DEF Inv, TypeOK
    <3>2. CASE q # r
      BY <1>2, <2>2, <3>2 DEF Inv, TypeOK, HeldFresh
    <3>3. QED
      BY <3>1, <3>2
  <2>3. \A k : With(publication, k, "queued")' = With(publication, k, "queued")
    BY <2>1 DEF With
  <2>4. QED
    BY <2>1, <2>2, <2>3 DEF HeldFresh
<1>7. QED
  BY <1>5, <1>6 DEF PublishWorkPackage, destination, Inv, Counted, Sent,
     NewestIsCurrent, RecordedProcessed, CandidatesKept, OnRecord

\* A publication saves.  If it was alone since it loaded, only its own candidate
\* changes, and that one is new.
LEMMA SaveStep ==
  ASSUME Inv, NEW r \in Run, SaveCandidate(r)
  PROVE  /\ Inv'
         /\ ~raced' => \A key \in Key : Ended(key) => Ended(key)'
<1> DEFINE own == run[r].key
<1>1. own \in Key /\ run[r].state \in PublicationState
  BY AtWork DEF SaveCandidate, Inv
<1>2. /\ publication' = run[r].state
      /\ stored' = stored \cup {own}
      /\ deliveries' = deliveries \cup {own}
      /\ run' = [run EXCEPT ![r] = Idle]
      /\ UNCHANGED <<published, cancelled, receipt, promotions, reordered>>
  BY DEF SaveCandidate, destination
<1>3. ASSUME ~raced'
      PROVE  /\ ~raced /\ own \notin publication.processed
             /\ publication' = With(publication, own, "queued")
             /\ \A q \in Run : run'[q] = Idle
  <2>1. ~raced /\ Held = {r}
    BY <1>3 DEF SaveCandidate
  <2>2. \A q \in Run : run'[q] = Idle
    BY <1>2, <2>1 DEF Held, Inv, TypeOK
  <2>3. QED
    BY <1>2, <2>1, <2>2 DEF SaveCandidate, Inv, HeldFresh
<1>4. TypeOK'
  <2>1. raced' \in BOOLEAN
    BY DEF SaveCandidate
  <2>2. run' \in [Run -> RunState]
    BY <1>2 DEF Inv, TypeOK, RunState, Idle
  <2>3. QED
    BY <1>1, <1>2, <2>1, <2>2 DEF Inv, TypeOK
<1>5. Counted' /\ Sent' /\ NewestIsCurrent'
  BY <1>1, <1>2 DEF Inv, Counted, Sent, NewestIsCurrent
<1>6. HeldFresh'
  BY <1>3 DEF HeldFresh
<1>7. ASSUME ~raced'
      PROVE  /\ \A key \in Key : OnRecord(key)' => key \in publication'.processed
             /\ \A key \in stored' : OnRecord(key)'
             /\ \A key \in Key : Ended(key) => Ended(key)'
  <2>1. /\ publication'.candidates[own] = "queued"
        /\ publication'.processed = publication.processed \cup {own}
        /\ \A other \in Key \ {own} :
             publication'.candidates[other] = publication.candidates[other]
    <3>1. "queued" \in CandidateState /\ publication \in PublicationState
      BY DEF CandidateState, Inv, TypeOK
    <3>2. publication' = With(publication, own, "queued")
      BY <1>3, <1>7
    <3>3. QED
      BY <1>1, <3>1, <3>2, WithType
  <2>2. ~OnRecord(own)
    BY <1>1, <1>3, <1>7 DEF Inv, RecordedProcessed
  <2>3. QED
    BY <1>1, <1>2, <1>3, <1>7, <2>1, <2>2
       DEF Inv, TypeOK, RecordedProcessed, CandidatesKept, OnRecord, Ended
<1>8. QED
  BY <1>4, <1>5, <1>6, <1>7 DEF Inv, RecordedProcessed, CandidatesKept

\* A failure or a cancellation at the source: its candidate stays on record, and
\* what publications hold is no longer the stored state.
LEMMA EndStep ==
  ASSUME Inv, NEW key \in Key, FailCandidate(key) \/ CancelCandidate(key)
  PROVE  /\ Inv'
         /\ \A k \in Key : Ended(k) => Ended(k)'
<1>1. publication' \in {applyDeliveryFailureCommand(publication, key),
                        applyPublicationCancellationCommand(publication, key)}
  BY DEF FailCandidate, CancelCandidate
<1>2. /\ publication' \in PublicationState
      /\ publication'.candidates[key] \in {"failed", "cancelled"}
      /\ publication'.processed = publication.processed
      /\ \A other \in Key \ {key} :
           publication'.candidates[other] = publication.candidates[other]
  BY <1>1, OutcomeType DEF Inv, TypeOK
<1>3. /\ UNCHANGED <<run, published, stored, deliveries, receipt, promotions, reordered>>
      /\ raced' = (raced \/ Held # {})
      /\ cancelled' \subseteq Key
      /\ OnRecord(key)
  BY DEF FailCandidate, CancelCandidate, destination, Inv, TypeOK
<1>4. TypeOK' /\ Counted' /\ Sent' /\ NewestIsCurrent'
  BY <1>2, <1>3 DEF Inv, TypeOK, Counted, Sent, NewestIsCurrent
<1>5. HeldFresh'
  BY <1>3 DEF HeldFresh, Held
<1>6. RecordedProcessed' /\ CandidatesKept'
  BY <1>2, <1>3 DEF Inv, TypeOK, RecordedProcessed, CandidatesKept, OnRecord
<1>7. QED
  BY <1>2, <1>4, <1>5, <1>6 DEF Inv, Ended

\* A delivery: promoted the first time, answered from the record after that.
LEMMA ReceiveStep ==
  ASSUME Inv, NEW key \in Key, ReceivePackage(key)
  PROVE  Inv'
<1>0. UNCHANGED <<publication, run, published, stored, raced, deliveries, cancelled>>
  BY DEF ReceivePackage, source
<1>1. CASE <<"receive", key>> \in receipt.processed
  <2>1. UNCHANGED <<receipt, promotions, reordered>>
    BY <1>1 DEF ReceivePackage, applySupplierReceiptCommand, Inv, TypeOK,
       SupplierReceiptState, Key, NoPackage
  <2>2. QED
    BY <1>0, <2>1, SameSource DEF Inv, TypeOK, Counted, Sent, NewestIsCurrent
<1>2. CASE <<"receive", key>> \notin receipt.processed
  <2>1. /\ receipt' = [currentPackage |-> key,
                       processed |-> receipt.processed \cup {<<"receive", key>>}]
        /\ promotions' = [promotions EXCEPT ![key] = @ + 1]
        /\ reordered' = (reordered \/ key < receipt.currentPackage)
        /\ key \in deliveries
    BY <1>2 DEF ReceivePackage, applySupplierReceiptCommand
  <2>2. TypeOK'
    BY <1>0, <2>1 DEF Inv, TypeOK, SupplierReceiptState
  <2>3. Counted' /\ Sent'
    BY <1>0, <1>2, <2>1 DEF Inv, TypeOK, Counted, Sent
  <2>4. NewestIsCurrent'
    <3> SUFFICES ASSUME ~reordered', NEW k \in Key, promotions'[k] > 0
                 PROVE  k <= receipt'.currentPackage
      BY DEF NewestIsCurrent
    <3>1. /\ ~reordered /\ ~(key < receipt.currentPackage)
          /\ receipt'.currentPackage = key
      BY <2>1
    <3>2. receipt.currentPackage \in Nat /\ key \in Nat /\ k \in Nat
      BY DEF Inv, TypeOK, SupplierReceiptState, Key, NoPackage
    <3>3. k # key => promotions[k] > 0
      BY <2>1 DEF Inv, TypeOK
    <3>4. k # key => k <= receipt.currentPackage
      BY <3>1, <3>3 DEF Inv, NewestIsCurrent
    <3>5. QED
      BY <3>1, <3>2, <3>4
  <2>5. QED
    BY <1>0, <2>2, <2>3, <2>4, SameSource DEF Inv
<1>3. QED
  BY <1>1, <1>2

LEMMA StepInv ==
  Inv /\ [Next]_vars =>
    /\ Inv'
    /\ ~raced' => \A key \in Key : Ended(key) => Ended(key)'
<1> SUFFICES ASSUME Inv, [Next]_vars
             PROVE  /\ Inv'
                    /\ ~raced' => \A key \in Key : Ended(key) => Ended(key)'
  OBVIOUS
<1>1. ASSUME NEW r \in Run, NEW key \in Key, PublishWorkPackage(r, key)
      PROVE  Inv' /\ UNCHANGED publication
  BY <1>1, PublishStep DEF PublishWorkPackage
<1>2. ASSUME NEW r \in Run, KillRun(r)
      PROVE  Inv' /\ UNCHANGED publication
  <2>1. UNCHANGED <<publication, published, stored, raced, deliveries, cancelled,
                    receipt, promotions, reordered>>
    BY <1>2 DEF KillRun, destination
  <2>2. TypeOK'
    BY <1>2, <2>1 DEF KillRun, Inv, TypeOK, RunState, Idle
  <2>3. HeldFresh'
    <3>1. \A key : With(publication, key, "queued")' = With(publication, key, "queued")
      BY <2>1 DEF With
    <3>2. \A q \in Run : run'[q] # Idle => run'[q] = run[q]
      BY <1>2 DEF KillRun, Inv, TypeOK
    <3>3. QED
      BY <2>1, <3>1, <3>2 DEF Inv, HeldFresh
  <2>4. QED
    BY <2>1, <2>2, <2>3 DEF Inv, Counted, Sent, NewestIsCurrent,
       RecordedProcessed, CandidatesKept, OnRecord
<1>3. ASSUME NEW key \in Key, ReceivePackage(key)
      PROVE  Inv' /\ UNCHANGED publication
  BY <1>3, ReceiveStep DEF ReceivePackage, source
<1>4. ASSUME NEW key \in Key, ReceiveCancellation(key)
      PROVE  Inv' /\ UNCHANGED publication
  <2>1. /\ receipt' = [currentPackage |-> receipt.currentPackage,
                       processed |-> receipt.processed \cup {<<"cancel", key>>}]
        /\ UNCHANGED <<publication, run, published, stored, raced, deliveries,
                       cancelled, promotions, reordered>>
    BY <1>4 DEF ReceiveCancellation, source,
       applySupplierCandidateCancellationCommand, Inv, TypeOK, SupplierReceiptState
  <2>2. TypeOK'
    BY <2>1 DEF Inv, TypeOK, SupplierReceiptState
  <2>3. \A k \in Key : <<"receive", k>> \in receipt'.processed
                         <=> <<"receive", k>> \in receipt.processed
    BY <2>1
  <2>4. QED
    BY <2>1, <2>2, <2>3, SameSource DEF Inv, Counted, Sent, NewestIsCurrent
<1>5. CASE UNCHANGED vars
  <2>1. /\ UNCHANGED <<publication, run, published, stored, raced>>
        /\ UNCHANGED <<deliveries, cancelled, receipt, promotions, reordered>>
    BY <1>5 DEF vars, source, destination
  <2>2. QED
    BY <2>1, SameSource DEF Inv, TypeOK, Counted, Sent, NewestIsCurrent, Ended
<1>6. QED
  BY <1>1, <1>2, <1>3, <1>4, <1>5, SaveStep, EndStep DEF Next, Ended

-----------------------------------------------------------------------------
\* The stored states and what publications hold are the ones the cores define.
THEOREM ExchangeTyped == Spec => []TypeOK
<1>1. Inv => TypeOK
  BY DEF Inv
<1>2. QED
  BY <1>1, InitInv, StepInv, PTL DEF Spec

\* However often a package is delivered, it becomes current at most once, and
\* only if the source had saved its candidate.
THEOREM PromotedAtMostOnce == Spec => []PromotedOnce
<1>1. Inv => PromotedOnce
  <2> SUFFICES ASSUME Inv, NEW key \in Key
               PROVE  promotions[key] <= (IF key \in stored THEN 1 ELSE 0)
    BY DEF PromotedOnce
  <2> DEFINE received == <<"receive", key>> \in receipt.processed
  <2>1. promotions[key] = (IF received THEN 1 ELSE 0)
    BY DEF Inv, Counted
  <2>2. received => key \in stored
    BY DEF Inv, Sent
  <2> HIDE DEF received
  <2>3. QED
    BY <2>1, <2>2
<1>2. QED
  BY <1>1, InitInv, StepInv, PTL DEF Spec

\* Replays and cancellations never take the newest promoted package's place.
THEOREM ReplaysKeepNewest == Spec => []NewestIsCurrent
<1>1. Inv => NewestIsCurrent
  BY DEF Inv
<1>2. QED
  BY <1>1, InitInv, StepInv, PTL DEF Spec

\* Without a publication that saves over a change, no candidate is lost.
THEOREM NoCandidateLost == Spec => []CandidatesKept
<1>1. Inv => CandidatesKept
  BY DEF Inv
<1>2. QED
  BY <1>1, InitInv, StepInv, PTL DEF Spec

\* And none that failed or was cancelled is queued again.
THEOREM NoCandidateRevived == Spec => EndedStaysEnded
<1>1. Inv /\ [Next]_vars =>
        [~raced' => \A key \in Key : Ended(key) => Ended(key)']_vars
  BY StepInv
<1>2. QED
  BY <1>1, InitInv, StepInv, PTL DEF Spec, EndedStaysEnded
=============================================================================
