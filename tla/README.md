# TLA+ models of Wonder Supply Chain Graph

Two Jira tenants, each with this Forge app installed, agree on a **PeerCX** (a
site-to-site trust), bind **Pairings** under it (one Epic, a list of allowed
operations), and then deliver work package events from one to the other. Each
tenant keeps its state in Forge KVS, runs as short invocations that read a value,
compute, and write the whole value back, and talks to the other tenant through
HMAC-signed requests to a web trigger. There is no lock, no compare-and-set on
the states, and no transaction between the tenants. What can go wrong is therefore
in the interleavings: these models are about them.

All paths below are relative to `src/` unless they say otherwise; line-by-line
correspondence is in `PROJECT.json` under `map`.

## 1. Inventory

### The components

| Component | Code | State it keeps | Operations | Model |
| --- | --- | --- | --- | --- |
| PeerCX setup transitions | `pairing/peer-cx-nomination.ts`, `peer-cx-activation.ts`, `revoke-peer-cx.ts` | none: functions from one tenant's setup state to the next | nominate, receive, decide, propose, accept, confirm, activate, revoke | `PeerCxSetup` |
| PeerCX handshake | `resolvers/nominations.ts`, `resolvers/peer-cx.ts`, `pairing/forge-bootstrap-receiver.ts`, `kvs-peer-cx-store.ts` | KVS `peer-cx-setup-state` at each tenant: nominations and PeerCXs | `nominateSite`, `confirmActivation`, `decideNomination`, `revokePeerCx`, the bootstrap web trigger | `PeerCxHandshake`, `PeerCxSerial`, `PeerCxRetry`, `PeerCxAgreement` |
| Request authentication | `collaboration/peer-replay-guard.ts`, `peer-hmac-auth.ts` | KVS claims with a time to live | verify, consume a request ID | `ReplayGuard` |
| Pairing authorization | `pairing/authorize-pairing.ts`, `kvs-peer-pairing-store.ts`, `resolvers/peer-cx.ts` | KVS list of Pairings at each tenant | `authorizePairing` | `PeerDelivery` |
| Peer operation delivery | `collaboration/forge-peer-event-receiver.ts`, `peer-route-authorization.ts` | none of its own; reads the setup state and the Pairings, claims requests | receive, authorize, forward to Automation | `PeerDelivery` |
| Work package publication | `publication/automation-action.ts`, `forge-automation-action.ts`, `apply-command.ts` | KVS publication state per Epic: candidates and processed keys | publish; fail and cancel a candidate | `PeerDelivery` (the action and its send), `PackageExchange` (the candidates) |
| Package projection | `projection/promote-demo-package.ts`, `publish-demo-package-to-graph.ts`, `ingest-package-projection.ts` | KVS receipt state per connection; the Teamwork Graph | promote, read back, index | `GraphProjection` |
| Graph connection callbacks | `graph-cx-management.ts`, `projection/kvs-graph-cx-store.ts`, `index.ts` | KVS active connection | create, update, delete | `GraphProjection` |
| Supplier receipt | `receipt/apply-command.ts` | receipt state | receive, cancel | `PackageExchange`; the receipt a publication applies to its own store is in `GraphProjection` |
| Lifecycle journal | `audit/lifecycle-journal.ts`, `kvs-lifecycle-journal-store.ts` | KVS list of at most 200 events | record | `TenantRecords` |
| Log sink | `resolvers/log-sink.ts`, `observability/kvs-log-sink-store.ts` | two KVS keys, URL and secret | save, reset | `TenantRecords` |
| Invitations | `resolvers/invitations.ts`, `pairing/invitation-workflow.ts` | KVS list of invitations | create, view | `TenantRecords`; an issued invitation is a constant of the handshake |
| Pairing setup core, collaboration core | `pairing/apply-pairing-setup-command.ts`, `collaboration/apply-command.ts` | pure states nothing stores yet | initiate, accept, accept the request, apply | `PairingSetup` |
| Presentation of PeerCX state | `pairing/peer-cx-status.ts` and the overviews | none | derive on read | the stage of a tenant is in `PeerCxSerial`; the rest is not modelled |
| Parsing, logging, event enrichment, Rovo comment, pages | see `PROJECT.json` | none | check a shape, print, post a comment | not modelled (section 6) |

### How they interact

    Blue tenant                                  Green tenant
    nominateSite ---- nominate ---------------->  bootstrap web trigger
    confirmActivation -- poll ----------------->     (replay guard, setup state)
                   <---- proposal ------------
                   ----- confirm ------------->
                   <---- activated -----------
    decide / revoke / authorizePairing: administrators, each on its own tenant
    publishWorkPackage -- peer operation ------>  peer event web trigger
      (candidate, Pairing, send gate)               (replay guard, four checks,
                                                     forward to Automation)

Publication to the Teamwork Graph is inside one tenant: an action promotes a
package under the active connection and indexes it, while the platform calls back
when a connection is created, updated or removed.

### What is hard, and what makes each part correct

- **Handshake.** Every writer replaces the whole setup state with one it computed
  from an earlier read, `confirmActivation` even across two HTTP exchanges; messages
  and invocations are lost at any point; retries are the only recovery. Correct
  means: no PeerCX without both administrators; the nomination list and the PeerCX
  list tell one story; one ID per agreement; the invited terms and no others;
  revocation is final; a lost receipt heals.
- **Replay guard.** The window of a signature, the life of its claim, and several
  invocations handed the same request. Correct means: a request takes effect at
  most once.
- **Delivery.** The four checks are made on two reads and a clock read made earlier,
  while administrators rebind and revoke at both tenants, and envelopes arrive late
  and again. Correct means: at most once; only what both administrators bound;
  nothing after a revocation.
- **Projection.** Save and index are two steps that can be cut, versions decide which
  package the graph believes, connections come and go. Correct means: only stored packages
  show; versions grow, package by package of an Epic; the graph catches up; removals and
  selections stick.
- **Journal, log sink, invitations.** Unlocked read-modify-write of one list, or of
  two keys that belong together. Correct means: evidence only of what happened, told
  once, and lost only by eviction; a sink that is what administrators were answered.
- **Package exchange.** Candidates are saved from a state loaded earlier, and their
  deliveries arrive late, again and out of order at a receiver that takes the version it
  is given. Correct means: a package becomes current once; replays move nothing back; a
  saved candidate stays on record and an ended one stays ended.
- **Pairing setup.** Long sequences of legal commands at sites that play both roles, with
  acceptances late, again or never, and a stop between two cores. Correct means: active
  only on an acceptance another site holds; one acceptance taken; a reference used once,
  which the code does not keep (section 5).

The full list, each at its line with the properties that cover it, is `hazards` in
`PROJECT.json`.

## 2. The modules

| Module | Role |
| --- | --- |
| `PeerCxSetup` | One operator per function of the setup: guard and next state. No variables. |
| `PeerCxHandshake` | Two tenants, `Call` slots of Blue invocations, Green's handler of each, `Admin` slots; extends `PeerCxSetup`. |
| `PeerCxAgreement` | The abstract specification: per invitation two ladders of rungs, each resting on the other. |
| `PeerCxSerial` | The handshake restricted to one writer per tenant, with the refinement mapping to `PeerCxAgreement`. |
| `PeerCxRetry` | `PeerCxSerial` under fairness, with failures that stop some time; the liveness property. |
| `PeerCxHandshakeProofs` | Type correctness, the inductive invariant, bilateral activation; on top of it, one story of each tenant's records, invited terms, one agreement per ID. |
| `PeerCxSerialProofs` | With one writer per tenant: the invariant, one ID, final revocation, and the refinement of `PeerCxAgreement`. |
| `ReplayGuard`, `ReplayGuardProofs` | Window, claim, expiry; single use proved. |
| `PeerDelivery`, `PeerDeliveryProofs` | Authorization of Pairings, publication, the receiver; all its safety properties proved. |
| `PackageExchange`, `PackageExchangeProofs` | The candidates of one Epic at the source and the current package at the destination; all its safety properties proved. |
| `PairingSetup`, `PairingSetupProofs` | The two setup cores over sites that play both roles; all its safety properties proved. |
| `GraphProjection`, `GraphProjectionProofs` | Publications and connection callbacks of one tenant; all its safety properties proved. |
| `TenantRecords`, `TenantRecordsProofs` | Invitations, the log sink and the lifecycle journal of one tenant; all its safety properties proved. |
| `MC*` | Instances for TLC: terms of the invitations, proposed bindings, symmetry. |

### From code to actions

**Grain.** An invocation's await on KVS or HTTP is where others run. Between two awaits the
code is one action; a local computation after a read is in the action of the read, because
it sees nothing else. So `nominateSite` is `NominateSite` (read, mint, compute),
`RecordConsent` (write and send) and `NominationReceived` or `GiveUp`; `confirmActivation`
is `ConfirmActivation` (read, send the poll), `AcceptProposal` (write, send the
confirmation), `ActivateBlue` or `GiveUp`. `publishWorkPackage` is `QueueCandidate`,
`SaveCandidate`, `ResolveSourcePairing`, `EmitLeanEvent` (the send gate's read and
judgement) and `PostEvent`; a revocation can come between the last two. A write and the
request sent immediately after it are one action, and the cut between them is the action
followed by a lost message. `call[b].state` is the value the invocation holds in a local
variable, which is what makes the stale overwrites appear.

**Kills.** Every invocation that holds something has a `Kill` action: Forge's time
limit and any await that throws. What was written stays, what was sent is still
under way.

**Messages.** `wire[b]` holds the one request or answer of a slot. `Lose` drops it; a
request whose sender was killed can still arrive, as late as anything. Duplicate
delivery is left to `ReplayGuard`, which shows that the second one is denied;
`PeerDelivery` has it again, because there the claim is part of the story. A slot is
free for the next invocation only when its wire is quiet, so the number of messages
under way is at most the number of slots. Refusals are opaque in the code (one 4xx
answer, no reason) and one message here.

**Data.** Both sites' identities are fixed. An ARI, an instant or a list of operations
is a model value that can only be compared. Terms keep three fields because the poll
repeats only the version, the proposal and the confirmation also the end, and nothing
the operations. The decision of an administrator carries `reviewedAsRecorded`: what
was on the screen either is what is stored now or is not. A PeerCX's end on the
clock of each tenant is `ended`, and the two clocks are independent. In `PeerDelivery`
a key stands for idempotency key, request ID and event, which are made together
once per publication; `agreed`, initialised from `OnRecord`, is the list of operations that
each tenant's own PeerCX record carries, which need not be the same at both. In
`GraphProjection` a package is its Epic, its version and the
number of its publication. The Teamwork Graph is external: an older
`updateSequenceNumber` is ignored, and of two packages with the same number either
may be shown.

**Pairing setup.** A Pairing ID stands for the IDs minted with it: correlation,
reference and request. A site's state holds both roles, so an initiation at a site that
has also accepted a reference is a step on the state that remembers the reference. An
acceptance, once given, can reach the manufacturer at any later time, again, or never.
The manufacturer's collaboration core and its setup core are two steps,
`ReceiveAcceptance` and `ApplyAcceptance`; `Interrupted` is a stop between them, after
which only another delivery of the acceptance helps. A replay is answered as before and
applied again. Nothing in the repository stores these states or carries the commands yet, so
who gives a command is external, and each command is one step.

**Package exchange.** A publication loads the Epic's state, computes and saves as
`PublishWorkPackage` and `SaveCandidate`, beside other publications, failures and
cancellations of the same Epic. Keys are numbered in the order of the publications, so
the newer package has the larger key. A delivery request is never removed from
`deliveries`: it arrives late, out of order and any number of times. Failure,
cancellation and receipt commands have no caller in the repository for a peer; who
gives them is external.

**The journal** that every invocation ends by writing is in `TenantRecords` and in no
other module: no decision reads it. There any invocation of a resolver goes through
its own writes and then reads and writes the journal, two steps that others get
between; `RefuseRequest` stands for the denials of the web triggers. An event is
what its ID is made of, and for the sink that is the instant, so two saves at one
instant are one event. The sink's two keys are written in either order and one of the
two writes can fail.

**History variables** record what no KVS value does: `approved`, `accepted`, `activated`;
`queued`, `bound`, `forwarded`, `barredAtSource`, `barredAtDestination`; `stored`,
`promotions`, `raced`, `reordered`; `saved`, `latest`, `overlapped`, `interrupted`;
`happened`, `told`, `doubtful`, and `raced` again in `TenantRecords`. No guard of an action
reads one, except that a publication's key is fresh.

## 3. The runs

| Run | Instance and bounds | What it shows |
| --- | --- | --- |
| `handshake_agreements` | 2 invitations, 1 Blue slot, 1 administrator slot, 2 IDs, 2 versions, ends can pass | `BilateralActivation`, `RecordsConsistent`, `IdNamesOneAgreement`, `ActiveOnInvitedTerms`, under every interleaving, loss and kill, although a consent can be resubmitted on other terms; and the inductive `ActivationTraced`. |
| `handshake_serial` | 1 invitation, 2 Blue slots, 1 administrator slot, 2 IDs, one version, ends can pass, one writer per tenant, fairness, any finite number of failures | `ImplementsAgreement`, `RevocationIsFinal`, `TenantsAgreeOnId`, and `SerialInvariant`, which the proofs of the three rest on; `NeverStranded` and `LostReceiptHeals`: a lost receipt is healed. |
| `revocation_undone` | 1 invitation, 2 Blue slots, 1 administrator slot, 2 IDs, one version; violation | a revocation is overwritten (section 5). |
| `ids_diverge` | 1 invitation, 2 Blue slots, 1 administrator slot, 2 IDs, one version; violation | one invitation, two IDs (section 5). |
| `replay_guard` | 1 request, 2 invocations, the code's times in units of 30 s | `SingleUse`, and `UsedStaysClaimed`, the reason for it. |
| `peer_delivery` | 1 PeerCX, 1 Pairing ID, 2 Epics, 1 publication, 2 receivers, 1 administrator slot | `AtMostOnce`, `BothAdministratorsBound`, `RevocationStops`. |
| `pairing_setup` | 3 sites, 3 Pairings of two manufacturers, 2 Epics, 6 records | `ActiveIsAccepted`, `OneAcceptanceTaken`, `PairingsKept`. |
| `reference_reused` | 2 sites, each the manufacturer of one Pairing, 4 records; violation | a reference is used twice (section 5). |
| `package_exchange` | 3 publications of one Epic, 2 at once | `PromotedOnce` always; `NewestIsCurrent`, `CandidatesKept`, `EndedStaysEnded` until a reordering or an overlap. |
| `graph_projection` | 2 connections, 2 Epics, 2 publications at once of 3 in all, 1 callback | `IndexedWasCurrent` always; the others while nothing overlaps, and `AloneInvariant`, which their proofs rest on. |
| `versions_collide` | 1 connection, 2 Epics, one publication after the other; violation | a version is used twice (section 5). |
| `tenant_records` | 2 invocations of anything, 1 invitation, 2 accounts, 1 target, 1 secret, a journal of 2 events, 1 denial | `EvidenceIsTrue` and `JournalWellFormed` always; `EvidenceIsDurable`, `SinkAsAnswered` while nothing overlaps on them. |

### The bounds, and why they are enough

- *Slots.* A race over one KVS key needs a reader that holds its value and a writer
  that gets in between: two slots show each pair of operations against each other, and
  an administrator's slot adds the third. `handshake_agreements` gives one of the slots
  up for a second invitation: a Blue invocation, Green's handler and an administrator
  still meet on each tenant's key, but not two Blue invocations, which only the violation
  runs have. None of its invariants rests on that: all six are proved for any number of
  slots, invitations and IDs.
- *`PeerCxId`.* Two IDs are enough for two nominations to disagree, or for two
  invitations to mix theirs up. When they are used up no further consent is minted, so
  the runs switch off the deadlock check.
- *`Version`, `Operations`.* `handshake_agreements` has the invited version and another
  one. The other runs have the invited terms only: their properties do not look at terms.
  The proofs about `handshake_serial`'s properties are for any terms, and for any number of
  invitations, slots and administrators.
- *`Expiring`* names the end instants a behaviour may reach: none in the violation
  runs (the ends only refuse), all elsewhere.
- *Failures* are not counted: any number of them may happen before they stop, so a receipt
  and any of its repetitions can be lost.
- *`MaxTime`* is past the claim of a request that is used at the last possible instant,
  so expiry and a late second attempt both happen. Limits are in thirty-second units,
  25 s of Forge rounded up to one; the proof has them as parameters.
- *`Key`.* One publication; the envelope it sends is never removed from the wire, so
  any number of deliveries of it are in the run. Keys share nothing but
  the Pairings and the candidate list, which no guard reads.
- *`Proposed`.* A binding to each of two Epics, and one without the delivery
  operation: the three ways in which a binding can differ from an envelope.
- *`MaxPublications`.* Three: one to be overtaken, one that overtakes, and one that
  heals after either was cut short; in `package_exchange`, one that is replayed after
  two others have come in either order.
- *`MaxLocalPairings`.* Six records over all sites. The run has three Pairings; each
  Pairing has an outbound and an inbound record, and the rest leaves room for a repeated
  initiation and for a second acceptance of one reference.
- *`lifecycleJournalCapacity`* is two: five different events occur, so a full journal
  evicts, an evicted event comes back, and order still means something.
- *`Instant`* has one member: every save and every reset of the run falls on it and
  shares its event ID, the worst case for recognising an event on record.
- *`Target`, `Secret`* have one member each, beside absence: a reset and a save that
  keeps the secret tell them apart.
- *Symmetry* is used over slots, IDs, connections, accounts and keys, never in the run with the
  liveness property.

### Fairness

Only `PeerCxRetry` has any, on top of `SerialSpec`. A started invocation runs on unless
it is killed, and what is not lost is delivered. A step that gives a tenant a second writer
has to wait for the first, and the first ends, by itself or killed; so a step may be
disabled and enabled again for ever, and what is assumed is strong fairness of each slot's
steps when they are in turn (`InTurn`): Forge's invocations last at most its time limit and
none is put off for ever. Blue's administrator has a button that confirms a pending
activation and keeps pressing it while there is something to confirm: strong fairness of
`ConfirmActivation`, since a running invocation disables it again and again. An
administrator's write that has begun completes, by weak fairness. Failures stop some time
(`<>[][~Failure]_vars`), after any number of them; with failures for ever nothing can be
promised. `Failure` is a message or an invocation lost that still matters: dropping an
answer to an invocation that was killed is none. Nothing is assumed of nominations, decisions
or revocations, which people may never make.

`LostReceiptHeals` is therefore checked with one writer per tenant. Without that discipline
a stale overwrite can take back what one invocation has stored, or, with two invitations,
drop the record of the other; that is the first finding again, and retries do not bring
back a record that is gone at Green.

### Conditional properties

`TenantsAgreeOnId` and `RevocationIsFinal` hold under `SerialSpec` and not under
`Spec`. Likewise in `GraphProjection` everything but `IndexedWasCurrent` says "while no
two invocations overlapped" through the history `overlapped`: with overlap the code
lets a removed connection's package come back, clears a newer selection, and gives two
packages the same version. `interrupted` excludes the connections where an invocation
was cut between storing and indexing or in the middle of a removal, until an invocation
on a live connection has indexed again: that is what `IndexCaughtUp` says is healed. It
says so of a package that `Outranks` the earlier ones of its Epic: where a version was used
twice, which is the third finding, the graph cannot tell the newer package, and
`VersionsGrowInARow` says that only another Epic's package in between brings that about.
In `PackageExchange` `raced` says that the Epic's state changed while a publication held
it: from then on the save that follows may drop a candidate (`CandidatesKept`) or bring an
ended one back to queued (`EndedStaysEnded`). `reordered` says that a package became
current after a newer one: the receiver compares no versions, so `NewestIsCurrent` is about
replays and cancellations.
In `TenantRecords` `raced` names the stores on which two invocations have been at work
at once, and `doubtful` the sink's keys that a killed write may have missed, until an
operation that sets them has completed.

## 4. What is proved

With TLAPS, for every value of the constants:

- **`TypeCorrect`, `Traced`, `Bilateral`** (`PeerCxHandshakeProofs`), from
  `SetupAssumption` (the invitations have terms; the absent ID and terms are none of
  the real ones) and `CorrAssumption` (there is an invitation). `BilateralActivation` is
  not inductive: it speaks of stored values, and the next one stored is a value that
  an invocation holds, computed from a message still under way. The invariant
  `TypeOK /\ ActivationTraced` follows an ID through all of these places: an approval
  Green stores, or is about to store, was given by its administrator; a confirmation
  under way was accepted by Blue; a handler at work still has its request, and what it
  will write is honest once the activation it confirms is durable; a receipt names an
  activated ID; and so does every PeerCX in a state that anyone holds. Each group of
  actions has one lemma for the types and one for the traces, and a step of the lemma
  per action. `handshake_agreements` checks the same invariant.
- **`Consistency`, `InvitedTermsOnly`, `OneAgreementPerId`** (`PeerCxHandshakeProofs`), from
  the same assumptions. Each property is about stored values, and each proof carries it over
  to the places a stored value can come from. `HeldConsistent`: whatever a tenant stores and
  whatever an invocation holds has a nomination and a PeerCX list that agree; so a stale
  overwrite replaces one consistent state by another. `TermsHeld`: Green records nothing but
  the invited version and end, so neither does a proposal; Blue may record other terms, but
  they stay pending. `PairedApart`: over all stored and held states and all messages, an ID
  goes with one invitation, and every ID that goes with any is minted, so a new one is in
  none of them.
- **`NothingStaleSerially`, `TenantsAgree`, `RevokedForGood`, `AskingAgainHelps`,
  `SetupImplementsAgreement`**
  (`PeerCxSerialProofs`), from the same assumptions, for the handshake with one writer per
  tenant. The inductive invariant is `SerialInvariant` on top of the ones above.
  `NothingStale`: what an invocation will write is one legal transition of what is stored
  now. It survives the steps of others because the only writer is the invocation
  itself, and because what a tenant's transition asks of the stored state stays so while
  nobody writes. `RungsRest`: Green records only what Blue did, under the same ID, and each
  of the later rungs rests on the other tenant's last; this is where `TenantsAgreeOnId`
  comes from. `MessageBacked`: what a message says of its sender is still so when it is
  read, because the ladders are only climbed; so a late message is no different from a
  prompt one. From there every change of a stored state is one of a few moves on one
  invitation (`StoreMoves`). Each move is a step of `PeerCxAgreement`
  under the mapping `BlueStage`, `GreenStage`, or leaves both stages alone, and everything
  that changes no stored state is a stutter.
  `AskingAgainHelps` (`NeverStranded`) is the safety part of `LostReceiptHeals`: while the
  agreement lasts, an active Green proposes again to a Blue that asks again, confirms
  without activating anew, and its receipt makes Blue active. It follows from `RungsRest`,
  `TermsHeld` and `RecordsConsistent` and needs no strengthening of its own.
- **`RequestsAreSingleUse`, `ClaimsOutliveUse`, `GuardTyped`** (`ReplayGuardProofs`), from
  `TimeAssumption` and `RetentionAssumption` (`Retention > MaxAge + Skew + Limit`). The
  code's numbers are 10 minutes against 5 minutes, 30 seconds and 25 seconds. `SingleUse`
  needs `UsedStaysClaimed` (a used request is claimed beyond its last use, or that use is
  over) and `RunningInTime` (who runs has verified inside the window).
- **`DeliveryTyped`, `ForwardedAtMostOnce`, `NeitherSiteAlone`, `RevokedForGood`**
  (`PeerDeliveryProofs`). Three strengthenings. `Keys`: a key names at most one publication at
  work, one envelope and one handler past the claim, and a key that was forwarded stays
  claimed, so no second handler gets to the forward. `Bindings`: every Pairing that is
  stored, or held by an administrator or a receiver, was bound by that site's administrator
  within the operations agreed there; every envelope was sent on such a one, and every
  forwarded one met such a one at the destination. `Bars`, for `RevokedForGood`:
  `barredAtSource` and `barredAtDestination` are the PeerCXs that were not in force, revoked
  or past their lease, when a publication of a key, and the handler that claimed it, began.
  What was not in force never is again, so whatever such a publication or handler reads
  later tells it so, however the Pairings are rebound: it sends no envelope under that
  PeerCX and forwards none. One that began before may still do so on what it has read; the
  property leaves it free.
- **`ExchangeTyped`, `PromotedAtMostOnce`, `ReplaysKeepNewest`, `NoCandidateLost`,
  `NoCandidateRevived`** (`PackageExchangeProofs`). `HeldFresh`: until the state changes
  under a publication, each publication at work holds exactly the stored state with its own
  key added. `RecordedProcessed`: a candidate on record has its key among the processed
  ones, so a replay finds it. `Counted`: a key is promoted once if the receiver processed
  it, else not at all. `Sent`: what was received was sent, and what was sent was saved.
- **`SetupTyped`, `ActivationIsBilateral`, `OneAcceptance`, `RecordsAreKept`**
  (`PairingSetupProofs`). `AcceptancesHeld`: every acceptance ever sent is on record with
  the supplier that gave it. `ActiveFollows`: an active record is its manufacturer's and has
  a processed acceptance. `TakenOnce`: the acceptances processed of a Pairing are none while
  its request is pending and one after. Counting goes through the library's theorems on
  finite sets.
- **`ProjectionTyped`, `NothingElseShown`** (`GraphProjectionProofs`). The graph shows what
  an invocation holds, not what is stored; so the invariant says of each package held by a
  publication or a callback that it was saved under its connection.
- **`KeptAlone`, `RemovedForGood`, `LatestSelected`, `GraphCatchesUp`, `VersionsCountUp`**
  (`GraphProjectionProofs`), about invocations that do not overlap, for any number of
  Epics. The properties speak of a tenant at rest; `AloneInvariant` says how an
  invocation at work gets from one rest to the next, and what one that is killed leaves
  behind. `ConnectionsKept`: the one invocation at work holds nothing stale, a callback
  that clears the active connection has its own there, and a removed connection
  is empty unless its callback is at work or failed. `NewestKept`: the stored
  package is the newest ever stored for the connection, and, where its version outranks the
  earlier ones, is shown unless its publication is between save and index or was cut there.
  `VersionsCountUp` compares packages of one Epic that were stored in a row: `nextVersion`
  counts from the stored package, and that is the last one of the row. With another Epic's
  package in between the versions collide; that is the third finding, and `versions_collide`
  shows it.
- **`RecordsTyped`, `NothingMadeUp`, `ToldOnce`, `OnlyOldestLost`, `SinkIsAnswered`**
  (`TenantRecordsProofs`), from `RecordsAssumption` (a capacity of at least one). A journal
  that an invocation is about to store is a journal already: `JournalsHeld` says it tells
  each event once within the capacity, and, until two are held at once, that it is the
  stored one after one recording. The lemmas on `recordLifecycleEvent` say what that is
  for every journal and event. `SinkHeld` follows an operation on the sink from key to key:
  it is alone until there is a race, a secret it keeps is still the stored one, and what it
  has written is as it wants it.

Only model-checked: `LostReceiptHeals`, the one liveness property. Liveness under fairness
is out of the prover's reach, as are `ENABLED` and induction over data. The four
violations are TLC's too: each refutes its property for one instance, which is enough.

## 5. Findings

1. **A revocation can be undone** (`revocation_undone`). All writers of
   `peer-cx-setup-state` hold what they read across awaits and write it back whole;
   `confirmActivation` does so across two HTTP exchanges (`resolvers/nominations.ts:160`,
   203, 223). A revocation stored in between is gone and the PeerCX is active again,
   though `resolvers/peer-cx.ts:83-85` promises that it takes effect on this tenant's own
   state and needs no one's consent.
2. **One invitation, two PeerCX IDs** (`ids_diverge`). Two overlapping `nominateSite`
   both find no record and both mint; each tenant keeps a different one, against
   `resolvers/nominations.ts:88-89`. The setup cannot complete then: Green refuses Blue's
   polls, and neither side has a way to replace its record.
3. **Versions repeat** (`versions_collide`). `nextVersion` starts at 1 again when the
   stored package is of another Epic, so A, B, A gives A version 1 twice, and the graph
   has no reason to take the newer one; `docs/explanation/5-concurrency.md:12-21` asks for
   a value that increases and does not collide. No overlap is needed.
4. **A Pairing reference is used twice** (`reference_reused`). `pairing.initiate` and
   `pairing.apply-peer-acceptance` return a next state without `consumedPairingReferenceIds`
   (`pairing/apply-pairing-setup-command.ts:274` and 184). A supplier that has accepted a
   reference and then initiates a Pairing of its own, or applies an acceptance, no longer
   refuses the reference (line 200) and can bind a second Paired Epic with it, against
   `CONTEXT.md:56-57`, which calls the reference single-use.
   `test/pairing/apply-pairing-setup-command.test.ts:174` tests only that it is refused twice
   in a row. The manufacturer still takes one acceptance (`OneAcceptanceTaken`).

Other observations, without a run of their own:

- `activateAfterConfirmation` leaves a revoked record as it is, and the resolver answers
  "active" all the same (`resolvers/nominations.ts:241-244`).
- The operations agreed at the two tenants are compared once, at the nomination; Blue
  keeps those of its first consent, even one that Green refused.
- An update of a connection indexes the stored package again with the connection's
  container visibility, under the same sequence number.
- A removed connection's objects stay in the graph, and its receipt state only is erased.
- Two outcomes recorded at once lose one, although
  `audit/kvs-lifecycle-journal-store.ts:22` speaks of recording an outcome durably; two
  invitations created at once lose one whose link was handed out; a reset of the sink
  during another save's webhook validation is undone. `TenantRecords` has these
  races, and its properties say what holds without them.
- A repeated initiation appends a second outbound record: the setup core collects
  idempotency keys and never looks at them.
- A candidate that failed or was cancelled while a publication of the same Epic held the
  older state comes back as queued, or a candidate saved meanwhile is gone; its event is
  delivered all the same. A candidate cancelled at the destination before its package
  arrives still becomes current there: the two commands have keys of their own.
- A claimed request whose handling fails cannot be delivered again, and a candidate
  whose send throws stays queued: delivery is at most once, never at least once.

## 6. Not modelled, and what is left

Not modelled, because they keep no state and no order of steps can make them wrong:

- *Envelope parsing, lean event enrichment, publication audit events*: pure checks and
  formatting of one value. In the models a message has the shape of its kind or is
  not there. `appendAuditEvents` is called by nothing in the application.
- *Presentation*: derived on read for the administrator's page. Only the stage of a tenant
  (`derivePeerCxStatus`) is used, by the refinement.
- *Log shipping and domain events*: best-effort output that nothing reads back.
- *Rovo comment action, pages, simulator*: one external call on what is stored, user
  interface, and a demonstration fixture.
- *Preflight checks of a publication and refusals of a receipt*: which check refuses is
  left out; a refusal returns the state it was given.
- *Container visibility in the graph*: what the Teamwork Graph does with a package of an
  equal sequence number and another visibility is not in the repository.
- *Cryptography*: a signature is valid or the message is not there.
- *Two invitations created at once* are in `TenantRecords`, with the loss of one; no
  property says more than that the list grows without such a race, so none is stated.

What remains to be proved: every safety property that a passing run checks is a theorem.
`LostReceiptHeals` is checked only; `NeverStranded`, its safety part, is proved.

## 7. Running

    tlc -workers 2 -config HandshakeAgreements.cfg MCPeerCxHandshake
    tlapm PeerCxHandshakeProofs.tla

and so on for each row of `runs` in `PROJECT.json`. The largest run has
about 5.3 million distinct states; each takes about two minutes at most on two cores.
