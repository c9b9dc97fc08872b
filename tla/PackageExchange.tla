---------------------------- MODULE PackageExchange ----------------------------
(***************************************************************************)
(* The packages of one Source Epic, from the source's candidates to the    *)
(* destination's current package, as the command cores compute them        *)
(* (publication/apply-command.ts, receipt/apply-command.ts).  The          *)
(* publication action loads the Epic's publication state, applies the      *)
(* command and saves the result, with awaits in between                    *)
(* (publication/automation-action.ts); a delivery request that is queued   *)
(* reaches the destination late, again, out of order or never.             *)
(*                                                                         *)
(* What is abstracted.  An idempotency key stands for its candidate and    *)
(* the package it publishes; keys are numbers, in the order of the         *)
(* publications, so the newer package has the larger key and its version   *)
(* is its key.  Failures and cancellations have keys of their own that     *)
(* nothing looks up in the source's state, so they are left out there; the *)
(* destination's keep the two kinds apart.  A refusal (preflight,          *)
(* authorization, schema, pairing, installation) returns the state it was  *)
(* given and is no step.  Nothing in the repository carries delivery       *)
(* requests or gives the failure, cancellation and receipt commands for a  *)
(* peer: each is one step here, and who gives it is external.              *)
(***************************************************************************)
EXTENDS Naturals

CONSTANTS
  Run,             \* slots for concurrent publications
  MaxPublications  \* bound: publications in a behaviour

ASSUME ExchangeAssumption == MaxPublications \in Nat \ {0}

Key == 1..MaxPublications
NoPackage == 0

VARIABLES
  publication,  \* the source's stored PublicationState of the Epic
  run,          \* publications at work
  published,    \* publications begun so far
  deliveries,   \* the delivery requests sent, for good
  cancelled,    \* the cancellations sent to the destination, for good
  receipt,      \* the destination's SupplierReceiptState
  stored,       \* history: the keys whose candidate was saved
  promotions,   \* history: how often each key's package became current
  raced,        \* history: the state changed while a publication held it
  reordered     \* history: a package became current after a newer one had

source == <<publication, run, published, stored, raced>>
destination == <<receipt, promotions, reordered>>
vars == <<source, deliveries, cancelled, destination>>

CandidateState == {"none", "queued", "failed", "cancelled"}
PublicationState ==
  [candidates : [Key -> CandidateState], processed : SUBSET Key]
SupplierReceiptState ==
  [currentPackage : Key \cup {NoPackage},
   processed : SUBSET ({"receive", "cancel"} \X Key)]

RunState ==
  [step : {"idle"}] \cup [step : {"saving"}, key : Key, state : PublicationState]
Idle == [step |-> "idle"]

TypeOK ==
  /\ publication \in PublicationState
  /\ run \in [Run -> RunState]
  /\ published \in 0..MaxPublications
  /\ deliveries \subseteq Key /\ cancelled \subseteq Key
  /\ receipt \in SupplierReceiptState
  /\ stored \subseteq Key
  /\ promotions \in [Key -> Nat]
  /\ raced \in BOOLEAN /\ reordered \in BOOLEAN

Init ==
  /\ publication = [candidates |-> [k \in Key |-> "none"], processed |-> {}]
  /\ run = [r \in Run |-> Idle]
  /\ published = 0
  /\ deliveries = {} /\ cancelled = {}
  /\ receipt = [currentPackage |-> NoPackage, processed |-> {}]
  /\ stored = {}
  /\ promotions = [k \in Key |-> 0]
  /\ raced = FALSE /\ reordered = FALSE

-----------------------------------------------------------------------------
(* The cores: from a state to the next one.                                *)

With(state, key, outcome) ==
  [state EXCEPT !.candidates[key] = outcome, !.processed = @ \cup {key}]

\* Mutant of applyPublicationCommand: a processed key queues again.
QueueAgain(state, key) == With(state, key, "queued")

\* Mutant of applyPublicationCommand: the new candidate replaces the others.
QueueAlone(state, key) ==
  IF key \in state.processed THEN state
  ELSE [candidates |-> [k \in Key |-> IF k = key THEN "queued" ELSE "none"],
        processed |-> state.processed \cup {key}]

\* A key processed before changes nothing; any other queues its candidate.
applyPublicationCommand(state, key) ==
  IF key \in state.processed THEN state ELSE With(state, key, "queued")

\* Mutant of applyDeliveryFailureCommand: the outcome is named as the event is.
FailAsEvent(state, key) ==
  [state EXCEPT !.candidates[key] = "delivery-failed"]

\* Whatever the candidate's state is, if it is on record.
applyDeliveryFailureCommand(state, key) ==
  [state EXCEPT !.candidates[key] = "failed"]
applyPublicationCancellationCommand(state, key) ==
  [state EXCEPT !.candidates[key] = "cancelled"]

\* Mutant of applySupplierReceiptCommand: a processed key is not recognised.
ReceiveAgain(state, key) ==
  [currentPackage |-> key, processed |-> state.processed \cup {<<"receive", key>>}]

\* A package of a key not seen before replaces the current one, whatever their
\* versions.  A replay changes nothing.
applySupplierReceiptCommand(state, key) ==
  IF <<"receive", key>> \in state.processed THEN state
  ELSE [currentPackage |-> key,
        processed |-> state.processed \cup {<<"receive", key>>}]

\* Mutant of applySupplierCandidateCancellationCommand: the package goes, too.
CancelCurrent(state, key) ==
  [currentPackage |-> NoPackage,
   processed |-> state.processed \cup {<<"cancel", key>>}]

\* It is recorded under a key of its own, and the current package stays.
applySupplierCandidateCancellationCommand(state, key) ==
  [state EXCEPT !.processed = @ \cup {<<"cancel", key>>}]

-----------------------------------------------------------------------------
(* Source.                                                                 *)

Held == {r \in Run : run[r] # Idle}

\* The action loads the state and computes the next one; only a command that
\* was applied is saved.  The key is a new one, or its caller tries again.
PublishWorkPackage(r, key) ==
  LET next == applyPublicationCommand(publication, key) IN
  /\ run[r] = Idle
  /\ key <= published + 1
  /\ next # publication
  /\ published' = IF key > published THEN key ELSE published
  /\ run' = [run EXCEPT ![r] = [step |-> "saving", key |-> key, state |-> next]]
  /\ UNCHANGED <<publication, stored, raced, deliveries, cancelled, destination>>

\* The candidate is saved and its delivery requested.
SaveCandidate(r) ==
  /\ run[r] # Idle
  /\ publication' = run[r].state
  /\ stored' = stored \cup {run[r].key}
  /\ deliveries' = deliveries \cup {run[r].key}
  /\ run' = [run EXCEPT ![r] = Idle]
  /\ raced' = (raced \/ Held # {r})
  /\ UNCHANGED <<published, cancelled, destination>>

\* Forge's time limit, or a failed await: nothing is saved, and the caller may
\* try again under the key.
KillRun(r) ==
  /\ run[r] # Idle
  /\ run' = [run EXCEPT ![r] = Idle]
  /\ UNCHANGED <<publication, published, stored, raced, deliveries, cancelled,
                 destination>>

OnRecord(key) == publication.candidates[key] # "none"

\* Delivery has failed for good, or its retries are exhausted.
FailCandidate(key) ==
  /\ OnRecord(key)
  /\ publication' = applyDeliveryFailureCommand(publication, key)
  /\ raced' = (raced \/ Held # {})
  /\ UNCHANGED <<run, published, stored, deliveries, cancelled, destination>>

\* A publisher or an administrator cancels; the destination is told.
CancelCandidate(key) ==
  /\ OnRecord(key)
  /\ publication' = applyPublicationCancellationCommand(publication, key)
  /\ cancelled' = cancelled \cup {key}
  /\ raced' = (raced \/ Held # {})
  /\ UNCHANGED <<run, published, stored, deliveries, destination>>

-----------------------------------------------------------------------------
(* Destination.                                                            *)

ReceivePackage(key) ==
  LET next == applySupplierReceiptCommand(receipt, key) IN
  /\ key \in deliveries
  /\ receipt' = next
  /\ promotions' = IF next = receipt THEN promotions
                   ELSE [promotions EXCEPT ![key] = @ + 1]
  /\ reordered' = (reordered \/ next.currentPackage < receipt.currentPackage)
  /\ UNCHANGED <<source, deliveries, cancelled>>

ReceiveCancellation(key) ==
  /\ key \in cancelled
  /\ receipt' = applySupplierCandidateCancellationCommand(receipt, key)
  /\ UNCHANGED <<source, deliveries, cancelled, promotions, reordered>>

Next ==
  \/ \E r \in Run :
       \/ \E key \in Key : PublishWorkPackage(r, key)
       \/ SaveCandidate(r)
       \/ KillRun(r)
  \/ \E key \in Key :
       \/ FailCandidate(key) \/ CancelCandidate(key)
       \/ ReceivePackage(key) \/ ReceiveCancellation(key)

Spec == Init /\ [][Next]_vars

-----------------------------------------------------------------------------
\* However often a package is delivered, under whatever newer packages,
\* failures and cancellations in between, it becomes current at most once, and
\* only if its candidate was saved.
PromotedOnce ==
  \A key \in Key : promotions[key] <= (IF key \in stored THEN 1 ELSE 0)

\* The current package stays the newest the destination ever promoted, through
\* replays of older deliveries and cancellations of any candidate, until a
\* package never received before arrives after a newer one: nothing in the
\* receipt compares versions.
NewestIsCurrent ==
  ~reordered =>
    \A key \in Key : promotions[key] > 0 => key <= receipt.currentPackage

\* A candidate once saved stays on record, unless the publication state was
\* changed while a publication held an older one.
CandidatesKept == ~raced => \A key \in stored : OnRecord(key)

\* A candidate that failed or was cancelled is never queued again: no retry of
\* its publication, no replay and no command on another candidate revives it,
\* except the save of a publication that held an older state.
Ended(key) == publication.candidates[key] \in {"failed", "cancelled"}
EndedStaysEnded ==
  [][~raced' => \A key \in Key : Ended(key) => Ended(key)']_vars
=============================================================================
