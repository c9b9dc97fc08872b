----------------------------- MODULE TenantRecords -----------------------------
(***************************************************************************)
(* What the administrators of one tenant keep outside the PeerCX setup:    *)
(* invitations (resolvers/invitations.ts), the log sink                    *)
(* (resolvers/log-sink.ts) and the lifecycle journal that every resolver   *)
(* and web trigger ends by writing to (audit/*.ts).  Each is read and      *)
(* written back without a lock; the sink is two KVS keys that are written  *)
(* side by side.                                                           *)
(*                                                                         *)
(* What is abstracted.  An invitation's reference, correlation ID and ID   *)
(* are drawn together and stand for one another; its terms do not matter   *)
(* here; the list is only searched by reference, so it is a set.  A sink's *)
(* URL and authentication method are one target, and whether a target is   *)
(* permitted and a webhook agrees is anyone's guess.  An event is what its *)
(* ID is made of: a type and what it is about, which is the instant for    *)
(* the sink's and a random number for a denial.                            *)
(***************************************************************************)
EXTENDS Naturals, Sequences, FiniteSets

CONSTANTS
  Invitation, Account, Target, Secret,
  Slot,                      \* concurrent resolver and web trigger invocations
  Instant,                   \* the times at which sinks are saved and reset
  lifecycleJournalCapacity,
  None,                      \* a KVS key that is not there
  MaxDenials                 \* bound: denials in a behaviour

ASSUME RecordsAssumption ==
  /\ lifecycleJournalCapacity \in Nat \ {0}
  /\ MaxDenials \in Nat
  /\ None \notin Target \cup Secret

VARIABLES
  invitations,  \* KVS invitation-workflow-state
  sink,         \* KVS log-sink-configuration and log-sink-secret
  journal,      \* KVS lifecycle-audit-journal
  slot,         \* the invocations at work
  drawn,        \* the invitations created so far
  expired,      \* the invitations whose seven days are over
  denials,      \* the denials so far
  happened,     \* history: the events whose operation took effect
  told,         \* history: the sink, by what administrators were answered
  doubtful,     \* history: the sink's keys that a failed write may have missed
  raced         \* history: the stores two invocations have been at work on

records == <<invitations, sink, journal>>
history == <<happened, told, doubtful, raced>>
vars == <<records, slot, drawn, expired, denials, history>>

SinkKey == {"configuration", "secret"}
Sink == [configuration : Target \cup {None}, secret : Secret \cup {None}]
NoSink == [configuration |-> None, secret |-> None]

IssuedInvitation == [id : Invitation, recipient : Account]

LifecycleEvent ==
  [type : {"invitation-created", "invitation-viewed"}, of : Invitation]
    \cup [type : {"sink-configured", "sink-cleared"}, of : Instant]
    \cup [type : {"denied"}, of : Nat]

Event(type, of) == [type |-> type, of |-> of]

SlotState ==
  [step : {"idle"}]
    \cup [step : {"storing"}, invitations : SUBSET IssuedInvitation,
          event : LifecycleEvent]
    \cup [step : {"validating"}, sink : Sink, typed : BOOLEAN,
          event : LifecycleEvent]
    \cup [step : {"writing"}, sink : Sink, typed : BOOLEAN,
          keys : SUBSET SinkKey, event : LifecycleEvent]
    \cup [step : {"recording"}, event : LifecycleEvent]
    \cup [step : {"appending"}, journal : Seq(LifecycleEvent)]
Idle == [step |-> "idle"]

TypeOK ==
  /\ invitations \subseteq IssuedInvitation
  /\ sink \in Sink
  /\ journal \in Seq(LifecycleEvent)
  /\ slot \in [Slot -> SlotState]
  /\ drawn \subseteq Invitation /\ expired \subseteq drawn
  /\ denials \in Nat
  /\ happened \subseteq LifecycleEvent
  /\ told \in Sink
  /\ doubtful \subseteq SinkKey
  /\ raced \subseteq {"sink", "journal"}

Init ==
  /\ invitations = {} /\ sink = NoSink /\ journal = <<>>
  /\ slot = [s \in Slot |-> Idle]
  /\ drawn = {} /\ expired = {} /\ denials = 0
  /\ happened = {} /\ told = NoSink /\ doubtful = {} /\ raced = {}

Goes(s, state) == slot' = [slot EXCEPT ![s] = state]
Record(s, event) == Goes(s, [step |-> "recording", event |-> event])
At(steps) == {s \in Slot : slot[s].step \in steps}
RacedOn(store, steps) ==
  raced' = IF At(steps) # {} THEN raced \cup {store} ELSE raced

-----------------------------------------------------------------------------
(* Invitations.                                                            *)

createInvitation(list, i, recipient) ==
  list \cup {[id |-> i, recipient |-> recipient]}

\* What an account that follows an invitation's link gets to see.
readInvitation(invitation, account) ==
  IF account # invitation.recipient THEN "recipient-mismatch"
  ELSE IF invitation.id \in expired THEN "expired"
  ELSE "details"

CreateInvitation(s, i, recipient) ==
  /\ slot[s] = Idle
  /\ i \notin drawn
  /\ drawn' = drawn \cup {i}
  /\ Goes(s, [step |-> "storing",
              invitations |-> createInvitation(invitations, i, recipient),
              event |-> Event("invitation-created", i)])
  /\ UNCHANGED <<records, expired, denials, history>>

\* Mutant of StoreInvitation: the evidence is recorded and the invitation not.
RecordOnly(s) ==
  /\ slot[s].step = "storing"
  /\ Record(s, slot[s].event)
  /\ UNCHANGED <<records, drawn, expired, denials, history>>

StoreInvitation(s) ==
  /\ slot[s].step = "storing"
  /\ invitations' = slot[s].invitations
  /\ happened' = happened \cup {slot[s].event}
  /\ Record(s, slot[s].event)
  /\ UNCHANGED <<sink, journal, drawn, expired, denials, told, doubtful, raced>>

Deny(s) ==
  /\ denials < MaxDenials
  /\ denials' = denials + 1
  /\ happened' = happened \cup {Event("denied", denials)}
  /\ Record(s, Event("denied", denials))
  /\ UNCHANGED <<records, drawn, expired, told, doubtful, raced>>

\* A mismatch is a denial worth evidence; an expired invitation, or one that
\* is not on the list, leaves no trace.
ReadInvitation(s, invitation, account) ==
  LET viewed == Event("invitation-viewed", invitation.id) IN
  /\ slot[s] = Idle
  /\ invitation \in invitations
  /\ \/ /\ readInvitation(invitation, account) = "details"
        /\ happened' = happened \cup {viewed}
        /\ Record(s, viewed)
        /\ UNCHANGED <<records, drawn, expired, denials, told, doubtful, raced>>
     \/ readInvitation(invitation, account) = "recipient-mismatch" /\ Deny(s)

\* A web trigger refuses a request for a reason it keeps evidence of.
RefuseRequest(s) == slot[s] = Idle /\ Deny(s)

-----------------------------------------------------------------------------
(* The log sink.                                                           *)

\* An administrator who leaves the secret empty keeps the stored one, and is
\* refused when there is none.
configureLogSink(target, typed) ==
  [configuration |-> target, secret |-> IF typed # None THEN typed ELSE sink.secret]

SaveLogSink(s, target, typed, at) ==
  LET configured == configureLogSink(target, typed) IN
  /\ slot[s] = Idle
  /\ configured.secret # None
  /\ Goes(s, [step |-> "validating", sink |-> configured, typed |-> typed # None,
              event |-> Event("sink-configured", at)])
  /\ RacedOn("sink", {"validating", "writing"})
  /\ UNCHANGED <<records, drawn, expired, denials, happened, told, doubtful>>

\* The webhook agrees, or the sink was a bearer token's.
SinkValidated(s) ==
  LET at == slot[s] IN
  /\ at.step = "validating"
  /\ Goes(s, [step |-> "writing", sink |-> at.sink, typed |-> at.typed,
              keys |-> SinkKey, event |-> at.event])
  /\ UNCHANGED <<records, drawn, expired, denials, history>>

SinkRejected(s) ==
  /\ slot[s].step = "validating"
  /\ Goes(s, Idle)
  /\ UNCHANGED <<records, drawn, expired, denials, history>>

\* Mutants of ResetLogSink: the secret is overwritten with an empty one, and
\* is no longer absent; the secret is left in its encrypted storage.
ResetToEmpty(s, at) ==
  /\ slot[s] = Idle
  /\ Goes(s, [step |-> "writing", sink |-> [NoSink EXCEPT !.secret = "empty"],
              typed |-> TRUE, keys |-> SinkKey,
              event |-> Event("sink-cleared", at)])
  /\ RacedOn("sink", {"validating", "writing"})
  /\ UNCHANGED <<records, drawn, expired, denials, happened, told, doubtful>>
ResetConfiguration(s, at) ==
  /\ slot[s] = Idle
  /\ Goes(s, [step |-> "writing", sink |-> NoSink, typed |-> TRUE,
              keys |-> {"configuration"}, event |-> Event("sink-cleared", at)])
  /\ RacedOn("sink", {"validating", "writing"})
  /\ UNCHANGED <<records, drawn, expired, denials, happened, told, doubtful>>

ResetLogSink(s, at) ==
  /\ slot[s] = Idle
  /\ Goes(s, [step |-> "writing", sink |-> NoSink, typed |-> TRUE,
              keys |-> SinkKey, event |-> Event("sink-cleared", at)])
  /\ RacedOn("sink", {"validating", "writing"})
  /\ UNCHANGED <<records, drawn, expired, denials, happened, told, doubtful>>

\* Both keys are under way at once and arrive in either order.  With the last
\* one the operation has taken effect.
WriteSinkKey(s, key) ==
  LET at == slot[s]
      left == at.keys \ {key}
  IN /\ at.step = "writing" /\ key \in at.keys
     /\ sink' = [sink EXCEPT ![key] = at.sink[key]]
     /\ IF left # {}
          THEN /\ Goes(s, [at EXCEPT !.keys = left])
               /\ UNCHANGED <<happened, told, doubtful>>
          ELSE /\ Record(s, at.event)
               /\ happened' = happened \cup {at.event}
               /\ told' = IF at.typed THEN at.sink
                          ELSE [told EXCEPT !.configuration = at.sink.configuration]
               /\ doubtful' = doubtful \
                    (IF at.typed THEN SinkKey ELSE {"configuration"})
     /\ UNCHANGED <<invitations, journal, drawn, expired, denials, raced>>

-----------------------------------------------------------------------------
(* The journal.                                                            *)

Kept(events) ==
  LET over == Len(events) - lifecycleJournalCapacity IN
  IF Len(events) <= lifecycleJournalCapacity THEN events
  ELSE SubSeq(events, over + 1, Len(events))

OnRecord(events, event) == \E k \in DOMAIN events : events[k] = event

\* Mutants of recordLifecycleEvent: an event is appended again; a full journal
\* is started over.
AppendAgain(events, event) == Kept(Append(events, event))
StartOver(events, event) ==
  IF OnRecord(events, event) THEN events
  ELSE IF Len(events) = lifecycleJournalCapacity THEN <<event>>
  ELSE Append(events, event)

\* An event on record is not recorded again; the oldest make room.
recordLifecycleEvent(events, event) ==
  IF OnRecord(events, event) THEN events ELSE Kept(Append(events, event))

ReadJournal(s) ==
  /\ slot[s].step = "recording"
  /\ Goes(s, [step |-> "appending",
              journal |-> recordLifecycleEvent(journal, slot[s].event)])
  /\ RacedOn("journal", {"appending"})
  /\ UNCHANGED <<records, drawn, expired, denials, happened, told, doubtful>>

WriteJournal(s) ==
  /\ slot[s].step = "appending"
  /\ journal' = slot[s].journal
  /\ Goes(s, Idle)
  /\ UNCHANGED <<invitations, sink, drawn, expired, denials, history>>

-----------------------------------------------------------------------------
\* A failed await, or Forge, ends an invocation where it is.  A journal that
\* cannot be read or written is no reason to fail, and ends it all the same.
Kill(s) ==
  /\ slot[s] # Idle
  /\ doubtful' = IF slot[s].step = "writing" THEN SinkKey ELSE doubtful
  /\ Goes(s, Idle)
  /\ UNCHANGED <<records, drawn, expired, denials, happened, told, raced>>

Expire(i) ==
  /\ i \in drawn \ expired
  /\ expired' = expired \cup {i}
  /\ UNCHANGED <<records, slot, drawn, denials, history>>

Invitations(s) ==
  \/ \E i \in Invitation, recipient \in Account : CreateInvitation(s, i, recipient)
  \/ StoreInvitation(s)
  \/ \E invitation \in invitations, account \in Account :
       ReadInvitation(s, invitation, account)

LogSink(s) ==
  \/ \E target \in Target, typed \in Secret \cup {None}, at \in Instant :
       SaveLogSink(s, target, typed, at)
  \/ SinkValidated(s)
  \/ SinkRejected(s)
  \/ \E at \in Instant : ResetLogSink(s, at)
  \/ \E key \in SinkKey : WriteSinkKey(s, key)

Journal(s) == RefuseRequest(s) \/ ReadJournal(s) \/ WriteJournal(s)

Next ==
  \/ \E s \in Slot : Invitations(s) \/ LogSink(s) \/ Journal(s) \/ Kill(s)
  \/ \E i \in Invitation : Expire(i)

Spec == Init /\ [][Next]_vars

-----------------------------------------------------------------------------
Events(j) == {j[k] : k \in DOMAIN j}

\* The journal never says what did not happen: whatever invocations interleave
\* and wherever they are killed, evidence, stored or about to be, is of an
\* operation whose own writes were all done.
EvidenceIsTrue ==
  /\ Events(journal) \subseteq happened
  /\ \A s \in At({"recording"}) : slot[s].event \in happened
  /\ \A s \in At({"appending"}) : Events(slot[s].journal) \subseteq happened

\* However it is overwritten, the journal tells each event once and stays
\* within its capacity.
JournalWellFormed ==
  /\ Len(journal) <= lifecycleJournalCapacity
  /\ Cardinality(Events(journal)) = Len(journal)

\* Evidence is durable: while no two invocations were between reading and
\* writing the journal at once, it loses nothing but its oldest event, and
\* that only when it is full; the others keep their order.
EvidenceIsDurable ==
  []["journal" \notin raced' /\ journal' # journal =>
       \/ \E e \in happened : journal' = Append(journal, e)
       \/ /\ Len(journal) = lifecycleJournalCapacity
          /\ \E e \in happened : journal' = Append(Tail(journal), e)]_vars

\* While no two invocations worked on the sink at once, each of its keys holds
\* what the administrators were last answered, across resets, saves that keep
\* the secret and failed writes, which only an operation on the key puts right.
SinkAsAnswered ==
  "sink" \notin raced /\ At({"writing"}) = {} =>
    \A key \in SinkKey \ doubtful : sink[key] = told[key]
=============================================================================
