-------------------------- MODULE TenantRecordsProofs --------------------------
(***************************************************************************)
(* What a tenant's journal and log sink keep, for any number of            *)
(* invocations, invitations, sinks and events, and any capacity.           *)
(***************************************************************************)
EXTENDS TenantRecords, FiniteSetTheorems, SequenceTheorems, TLAPS

(* The invariant.                                                          *)

\* A journal tells each event once and stays within its capacity.
WellFormed(j) ==
  /\ Len(j) <= lifecycleJournalCapacity
  /\ \A m, n \in DOMAIN j : j[m] = j[n] => m = n

\* A journal as one recording leaves it.
Succeeds(j, next, events) ==
  \/ next = j
  \/ \E e \in events : next = Append(j, e)
  \/ /\ Len(j) = lifecycleJournalCapacity
     /\ \E e \in events : next = Append(Tail(j), e)

\* Every journal that is held is well formed, and unless two were held at once
\* it succeeds the stored one.
JournalsHeld ==
  /\ WellFormed(journal)
  /\ \A s \in Slot : slot[s].step = "appending" => WellFormed(slot[s].journal)
  /\ "journal" \notin raced =>
       \A s \in Slot : slot[s].step = "appending" =>
         /\ Succeeds(journal, slot[s].journal, happened)
         /\ \A q \in Slot : slot[q].step = "appending" => q = s

OnSink(state) == state.step \in {"validating", "writing"}

\* An operation on the sink is alone; a secret it keeps is still the stored and
\* the answered one; the keys it has written are as it wants them.
SinkHeld ==
  "sink" \notin raced =>
    /\ \A s, q \in Slot : OnSink(slot[s]) /\ OnSink(slot[q]) => s = q
    /\ \A s \in Slot : OnSink(slot[s]) /\ ~slot[s].typed =>
         /\ slot[s].sink.secret = sink.secret
         /\ "secret" \notin doubtful => sink.secret = told.secret
    /\ \A s \in Slot : slot[s].step = "writing" =>
         \A key \in SinkKey \ slot[s].keys : sink[key] = slot[s].sink[key]
    /\ (\A s \in Slot : slot[s].step # "writing") =>
         \A key \in SinkKey \ doubtful : sink[key] = told[key]

Inv == TypeOK /\ EvidenceIsTrue /\ JournalsHeld /\ SinkHeld

-----------------------------------------------------------------------------
(* What one recording makes of a journal.                                  *)

\* It adds at most one event, at the end, in place of the oldest if need be.
LEMMA RecordedAtEnd ==
  ASSUME NEW j \in Seq(LifecycleEvent), WellFormed(j), NEW e \in LifecycleEvent
  PROVE  \/ recordLifecycleEvent(j, e) = j
         \/ /\ ~OnRecord(j, e) /\ Len(j) < lifecycleJournalCapacity
            /\ recordLifecycleEvent(j, e) = Append(j, e)
         \/ /\ ~OnRecord(j, e) /\ Len(j) = lifecycleJournalCapacity
            /\ recordLifecycleEvent(j, e) = Append(Tail(j), e)
<1> DEFINE cap == lifecycleJournalCapacity
           longer == Append(j, e)
<1>1. cap \in Nat /\ cap > 0 /\ Len(j) \in Nat /\ Len(j) <= cap
  BY RecordsAssumption DEF WellFormed
<1>2. Len(longer) = Len(j) + 1
  OBVIOUS
<1>3. CASE OnRecord(j, e)
  BY <1>3 DEF recordLifecycleEvent
<1>4. CASE ~OnRecord(j, e) /\ Len(j) < cap
  <2>1. Len(longer) <= cap
    BY <1>1, <1>2, <1>4
  <2>2. recordLifecycleEvent(j, e) = Kept(longer)
    BY <1>4 DEF recordLifecycleEvent
  <2>3. Kept(longer) = longer
    BY <2>1 DEF Kept
  <2>4. QED
    BY <1>4, <2>2, <2>3
<1>5. CASE ~OnRecord(j, e) /\ Len(j) = cap
  <2>1. recordLifecycleEvent(j, e) = SubSeq(longer, 2, cap + 1)
    BY <1>1, <1>2, <1>5 DEF recordLifecycleEvent, Kept
  <2>2. /\ longer \in Seq(LifecycleEvent)
        /\ \A i \in 1..cap : longer[i] = j[i]
        /\ longer[cap + 1] = e
    BY <1>5, AppendProperties
  <2>3. /\ SubSeq(longer, 2, cap + 1) \in Seq(LifecycleEvent)
        /\ Len(SubSeq(longer, 2, cap + 1)) = cap
        /\ \A i \in 1..cap : SubSeq(longer, 2, cap + 1)[i] = longer[i + 1]
    BY <1>1, <1>2, <1>5, <2>2, ElementOfSeq, SubSeqProperties
  <2>4. /\ Tail(j) \in Seq(LifecycleEvent) /\ Len(Tail(j)) = cap - 1
        /\ \A i \in 1..(cap - 1) : Tail(j)[i] = j[i + 1]
    BY <1>1, <1>5
  <2>5. /\ Append(Tail(j), e) \in Seq(LifecycleEvent)
        /\ Len(Append(Tail(j), e)) = cap
        /\ \A i \in 1..(cap - 1) : Append(Tail(j), e)[i] = j[i + 1]
        /\ Append(Tail(j), e)[cap] = e
    BY <1>1, <2>4, AppendProperties
  <2>6. \A i \in 1..cap : SubSeq(longer, 2, cap + 1)[i] = Append(Tail(j), e)[i]
    <3>1. \A i \in 1..cap : i # cap => i \in 1..(cap - 1) /\ i + 1 \in 1..cap
      BY <1>1
    <3>2. QED
      BY <1>1, <2>2, <2>3, <2>5, <3>1
  <2>7. SubSeq(longer, 2, cap + 1) = Append(Tail(j), e)
    BY <2>3, <2>5, <2>6, SeqEqual
  <2>8. QED
    BY <1>5, <2>1, <2>7
<1>6. QED
  BY <1>1, <1>3, <1>4, <1>5

LEMMA RecordedWell ==
  ASSUME NEW j \in Seq(LifecycleEvent), WellFormed(j), NEW e \in LifecycleEvent
  PROVE  /\ recordLifecycleEvent(j, e) \in Seq(LifecycleEvent)
         /\ WellFormed(recordLifecycleEvent(j, e))
         /\ Events(recordLifecycleEvent(j, e)) \subseteq Events(j) \cup {e}
<1> DEFINE cap == lifecycleJournalCapacity
           next == recordLifecycleEvent(j, e)
<1>1. cap \in Nat /\ cap > 0 /\ Len(j) \in Nat
  BY RecordsAssumption
<1>2. CASE next = j
  BY <1>2 DEF Events
<1>3. CASE ~OnRecord(j, e) /\ Len(j) < cap /\ next = Append(j, e)
  BY <1>1, <1>3 DEF WellFormed, Events, OnRecord
<1>4. CASE ~OnRecord(j, e) /\ Len(j) = cap /\ next = Append(Tail(j), e)
  <2>1. /\ Tail(j) \in Seq(LifecycleEvent) /\ Len(Tail(j)) = cap - 1
        /\ \A n \in 1..(cap - 1) : Tail(j)[n] = j[n + 1]
    BY <1>1, <1>4
  <2>2. /\ next \in Seq(LifecycleEvent) /\ Len(next) = cap
        /\ \A n \in 1..(cap - 1) : next[n] = j[n + 1]
        /\ next[cap] = e
    BY <1>1, <1>4, <2>1
  <2>3. \A n \in 1..cap : n # cap => n \in 1..(cap - 1) /\ n + 1 \in 1..cap
    BY <1>1
  <2>4. \A m, n \in 1..cap : next[m] = next[n] => m = n
    BY <1>1, <1>4, <2>2, <2>3 DEF WellFormed, OnRecord
  <2>5. Events(next) \subseteq Events(j) \cup {e}
    BY <1>1, <1>4, <2>2, <2>3 DEF Events
  <2>6. QED
    BY <1>1, <2>2, <2>4, <2>5 DEF WellFormed
<1>5. QED
  BY <1>2, <1>3, <1>4, RecordedAtEnd

\* A journal without repetitions has as many events as entries.
LEMMA EventsCounted ==
  ASSUME NEW j \in Seq(LifecycleEvent), WellFormed(j)
  PROVE  Cardinality(Events(j)) = Len(j)
<1>1. DOMAIN j = 1..Len(j) /\ Len(j) \in Nat
  OBVIOUS
<1>2. j \in Bijection(1..Len(j), Events(j))
  BY <1>1 DEF Bijection, Injection, Surjection, IsInjective, Events, WellFormed
<1>3. QED
  BY <1>1, <1>2, FS_CountingElements DEF ExistsBijection

-----------------------------------------------------------------------------

(* Types.                                                                  *)

\* What an invocation holds at each step.
LEMMA AtWork ==
  ASSUME TypeOK, NEW s \in Slot
  PROVE  /\ slot[s].step = "storing" =>
              slot[s].invitations \subseteq IssuedInvitation /\ slot[s].event \in LifecycleEvent
         /\ slot[s].step = "validating" =>
              /\ slot[s].sink \in Sink /\ slot[s].typed \in BOOLEAN
              /\ slot[s].event \in LifecycleEvent
         /\ slot[s].step = "writing" =>
              slot[s] \in [step : {"writing"}, sink : Sink, typed : BOOLEAN,
                           keys : SUBSET SinkKey, event : LifecycleEvent]
         /\ slot[s].step = "recording" => slot[s].event \in LifecycleEvent
         /\ slot[s].step = "appending" => slot[s].journal \in Seq(LifecycleEvent)
<1>1. slot[s] \in SlotState
  BY DEF TypeOK
<1>2. QED
  BY <1>1 DEF SlotState

\* An invocation goes on to another step, and the others stay.
LEMMA Moves ==
  ASSUME TypeOK, NEW s \in Slot, NEW state \in SlotState, Goes(s, state)
  PROVE  /\ slot' \in [Slot -> SlotState]
         /\ slot'[s] = state
         /\ \A q \in Slot : q # s => slot'[q] = slot[q]
  BY DEF TypeOK, Goes

\* The events there are.
LEMMA EventType ==
  /\ \A i \in Invitation : /\ Event("invitation-created", i) \in LifecycleEvent
                           /\ Event("invitation-viewed", i) \in LifecycleEvent
  /\ \A at \in Instant : /\ Event("sink-configured", at) \in LifecycleEvent
                         /\ Event("sink-cleared", at) \in LifecycleEvent
  /\ \A n \in Nat : Event("denied", n) \in LifecycleEvent
  BY DEF Event, LifecycleEvent

LEMMA InitInv == Init => Inv
<1> SUFFICES ASSUME Init PROVE Inv
  OBVIOUS
<1>1. \A s \in Slot : slot[s] = [step |-> "idle"]
  BY DEF Init, Idle
<1>2. journal = <<>> /\ journal \in Seq(LifecycleEvent) /\ Len(journal) = 0
  BY DEF Init
<1>3. TypeOK
  <2>1. slot \in [Slot -> SlotState]
    BY DEF Init, Idle, SlotState
  <2>2. NoSink \in Sink
    BY DEF NoSink, Sink
  <2>3. QED
    BY <1>2, <2>1, <2>2 DEF Init, TypeOK
<1>4. EvidenceIsTrue
  BY <1>1, <1>2 DEF EvidenceIsTrue, Events, At
<1>5. JournalsHeld
  BY <1>1, <1>2, RecordsAssumption DEF JournalsHeld, WellFormed
<1>6. SinkHeld
  BY <1>1 DEF Init, SinkHeld, OnSink
<1>7. QED
  BY <1>3, <1>4, <1>5, <1>6 DEF Inv

LEMMA TypeStep ==
  ASSUME TypeOK, WellFormed(journal), Next
  PROVE  TypeOK'
<1>1. ASSUME NEW s \in Slot, NEW i \in Invitation, NEW recipient \in Account,
             CreateInvitation(s, i, recipient)
      PROVE  TypeOK'
  <2> DEFINE state == [step |-> "storing",
                       invitations |-> createInvitation(invitations, i, recipient),
                       event |-> Event("invitation-created", i)]
  <2>1. createInvitation(invitations, i, recipient) \subseteq IssuedInvitation
    BY DEF TypeOK, createInvitation, IssuedInvitation
  <2>2. state \in SlotState
    BY <2>1, EventType DEF SlotState
  <2>3. QED
    BY <1>1, <2>2, Moves DEF CreateInvitation, TypeOK, records, history
<1>2. ASSUME NEW s \in Slot, StoreInvitation(s)
      PROVE  TypeOK'
  <2>1. [step |-> "recording", event |-> slot[s].event] \in SlotState
    BY <1>2, AtWork DEF StoreInvitation, SlotState
  <2>2. QED
    BY <1>2, <2>1, AtWork, Moves DEF StoreInvitation, Record, TypeOK
<1>3. ASSUME NEW s \in Slot, Deny(s), UNCHANGED invitations
      PROVE  TypeOK'
  <2>1. Event("denied", denials) \in LifecycleEvent
    BY EventType DEF TypeOK
  <2>2. [step |-> "recording", event |-> Event("denied", denials)] \in SlotState
    BY <2>1 DEF SlotState
  <2>3. QED
    BY <1>3, <2>1, <2>2, Moves DEF Deny, Record, TypeOK, records
<1>4. ASSUME NEW s \in Slot, NEW invitation \in invitations, NEW account \in Account,
             ReadInvitation(s, invitation, account)
      PROVE  TypeOK'
  <2> DEFINE viewed == Event("invitation-viewed", invitation.id)
  <2>1. viewed \in LifecycleEvent
    BY EventType DEF TypeOK, IssuedInvitation
  <2>2. [step |-> "recording", event |-> viewed] \in SlotState
    BY <2>1 DEF SlotState
  <2>3. CASE Deny(s)
    BY <1>3, <2>3 DEF Deny, records
  <2>4. CASE ~Deny(s)
    BY <1>4, <2>1, <2>2, <2>4, Moves DEF ReadInvitation, Record, TypeOK, records
  <2>5. QED
    BY <2>3, <2>4
<1>5. ASSUME NEW s \in Slot, NEW target \in Target, NEW typed \in Secret \cup {None},
             NEW at \in Instant, SaveLogSink(s, target, typed, at)
      PROVE  TypeOK'
  <2> DEFINE state == [step |-> "validating", sink |-> configureLogSink(target, typed),
                       typed |-> typed # None, event |-> Event("sink-configured", at)]
  <2>1. configureLogSink(target, typed) \in Sink
    BY DEF TypeOK, configureLogSink, Sink
  <2>2. state \in SlotState
    BY <2>1, EventType DEF SlotState
  <2>3. QED
    BY <1>5, <2>2, Moves DEF SaveLogSink, RacedOn, TypeOK, records
<1>6. ASSUME NEW s \in Slot, SinkValidated(s)
      PROVE  TypeOK'
  <2>1. [step |-> "writing", sink |-> slot[s].sink, typed |-> slot[s].typed,
         keys |-> SinkKey, event |-> slot[s].event] \in SlotState
    BY <1>6, AtWork DEF SinkValidated, SlotState
  <2>2. QED
    BY <1>6, <2>1, Moves DEF SinkValidated, TypeOK, records, history
<1>7. ASSUME NEW s \in Slot, SinkRejected(s)
      PROVE  TypeOK'
  <2>1. Idle \in SlotState
    BY DEF Idle, SlotState
  <2>2. QED
    BY <1>7, <2>1, Moves DEF SinkRejected, TypeOK, records, history
<1>8. ASSUME NEW s \in Slot, NEW at \in Instant, ResetLogSink(s, at)
      PROVE  TypeOK'
  <2>1. [step |-> "writing", sink |-> NoSink, typed |-> TRUE, keys |-> SinkKey,
         event |-> Event("sink-cleared", at)] \in SlotState
    BY EventType DEF SlotState, Sink, NoSink
  <2>2. QED
    BY <1>8, <2>1, Moves DEF ResetLogSink, RacedOn, TypeOK, records
<1>9. ASSUME NEW s \in Slot, NEW key \in SinkKey, WriteSinkKey(s, key)
      PROVE  TypeOK'
  <2> DEFINE at == slot[s]
  <2>1. at \in [step : {"writing"}, sink : Sink, typed : BOOLEAN,
                keys : SUBSET SinkKey, event : LifecycleEvent]
    BY <1>9, AtWork DEF WriteSinkKey
  <2>2. sink' \in Sink
    BY <1>9, <2>1 DEF WriteSinkKey, TypeOK, Sink, SinkKey
  <2>3. [at EXCEPT !.keys = at.keys \ {key}] \in SlotState
    BY <2>1 DEF SlotState
  <2>4. [step |-> "recording", event |-> at.event] \in SlotState
    BY <2>1 DEF SlotState
  <2>5. [told EXCEPT !.configuration = at.sink.configuration] \in Sink
    BY <2>1 DEF TypeOK, Sink
  <2>6. slot' \in [Slot -> SlotState]
    BY <1>9, <2>3, <2>4, Moves DEF WriteSinkKey, Record
  <2>7. told' \in Sink /\ doubtful' \subseteq SinkKey /\ happened' \subseteq LifecycleEvent
    BY <1>9, <2>1, <2>5 DEF WriteSinkKey, TypeOK
  <2>8. QED
    BY <1>9, <2>2, <2>6, <2>7 DEF WriteSinkKey, TypeOK
<1>10. ASSUME NEW s \in Slot, ReadJournal(s)
       PROVE  TypeOK'
  <2>1. recordLifecycleEvent(journal, slot[s].event) \in Seq(LifecycleEvent)
    BY <1>10, AtWork, RecordedWell DEF ReadJournal, TypeOK
  <2>2. [step |-> "appending",
         journal |-> recordLifecycleEvent(journal, slot[s].event)] \in SlotState
    BY <2>1 DEF SlotState
  <2>3. QED
    BY <1>10, <2>2, Moves DEF ReadJournal, RacedOn, TypeOK, records
<1>11. ASSUME NEW s \in Slot, WriteJournal(s)
       PROVE  TypeOK'
  <2>1. Idle \in SlotState
    BY DEF Idle, SlotState
  <2>2. QED
    BY <1>11, <2>1, AtWork, Moves DEF WriteJournal, TypeOK, history
<1>12. ASSUME NEW s \in Slot, Kill(s)
       PROVE  TypeOK'
  <2>1. Idle \in SlotState
    BY DEF Idle, SlotState
  <2>2. QED
    BY <1>12, <2>1, Moves DEF Kill, TypeOK, records
<1>13. ASSUME NEW i \in Invitation, Expire(i)
       PROVE  TypeOK'
  BY <1>13 DEF Expire, TypeOK, records, history
<1>14. ASSUME NEW s \in Slot, RefuseRequest(s)
       PROVE  TypeOK'
  BY <1>3, <1>14 DEF RefuseRequest, Deny, records
<1>15. QED
  BY <1>1, <1>2, <1>4, <1>5, <1>6, <1>7, <1>8, <1>9, <1>10, <1>11, <1>12, <1>13,
     <1>14 DEF Next, Invitations, LogSink, Journal

-----------------------------------------------------------------------------
(* What a step leaves alone.                                               *)

\* Evidence stays true when what is recorded next has happened.
LEMMA EvidenceSame ==
  ASSUME Inv, NEW s \in Slot, NEW state \in SlotState, Goes(s, state),
         UNCHANGED journal, happened \subseteq happened',
         state.step = "recording" => state.event \in happened',
         state.step = "appending" => Events(state.journal) \subseteq happened'
  PROVE  EvidenceIsTrue'
<1>1. /\ slot'[s] = state
      /\ \A q \in Slot : q # s => slot'[q] = slot[q]
  BY Moves DEF Inv
<1>2. Events(journal') \subseteq happened'
  BY DEF Inv, EvidenceIsTrue
<1>3. \A q \in Slot : slot'[q].step = "recording" => slot'[q].event \in happened'
  BY <1>1 DEF Inv, EvidenceIsTrue, At
<1>4. \A q \in Slot : slot'[q].step = "appending"
                        => Events(slot'[q].journal) \subseteq happened'
  BY <1>1 DEF Inv, EvidenceIsTrue, At
<1>5. QED
  BY <1>2, <1>3, <1>4 DEF EvidenceIsTrue, At, Events

\* An invocation that does not come to hold a journal leaves them as they are.
LEMMA JournalsSame ==
  ASSUME Inv, NEW s \in Slot, NEW state \in SlotState, Goes(s, state),
         UNCHANGED journal, happened \subseteq happened',
         state.step # "appending", "journal" \in raced => "journal" \in raced'
  PROVE  JournalsHeld'
<1>1. /\ slot'[s] = state
      /\ \A q \in Slot : q # s => slot'[q] = slot[q]
  BY Moves DEF Inv
<1>2. WellFormed(journal)'
  BY DEF Inv, JournalsHeld, WellFormed
<1>3. \A q \in Slot : slot'[q].step = "appending" => q # s /\ slot'[q] = slot[q]
  BY <1>1
<1>4. \A q \in Slot : slot'[q].step = "appending" => WellFormed(slot[q].journal)
  BY <1>3 DEF Inv, JournalsHeld
<1>5. ASSUME "journal" \notin raced', NEW q \in Slot, slot'[q].step = "appending"
      PROVE  /\ Succeeds(journal, slot[q].journal, happened')
             /\ \A r \in Slot : slot'[r].step = "appending" => r = q
  <2>1. Succeeds(journal, slot[q].journal, happened)
    BY <1>3, <1>5 DEF Inv, JournalsHeld
  <2>2. QED
    BY <1>3, <1>5, <2>1 DEF Inv, JournalsHeld, Succeeds
<1>6. QED
  BY <1>2, <1>3, <1>4, <1>5 DEF JournalsHeld, WellFormed, Succeeds

\* An invocation that is not on the sink any more leaves it as it is, and the
\* keys in doubt that it was writing.
LEMMA SinkSame ==
  ASSUME Inv, NEW s \in Slot, NEW state \in SlotState, Goes(s, state),
         UNCHANGED <<sink, told>>, doubtful \subseteq doubtful', ~OnSink(state),
         slot[s].step = "writing" => SinkKey \subseteq doubtful',
         "sink" \in raced => "sink" \in raced'
  PROVE  SinkHeld'
<1> SUFFICES ASSUME "sink" \notin raced'
             PROVE  SinkHeld'
  BY DEF SinkHeld
<1>1. /\ slot'[s] = state
      /\ \A q \in Slot : q # s => slot'[q] = slot[q]
  BY Moves DEF Inv
<1>2. \A q \in Slot : OnSink(slot'[q]) => q # s /\ slot'[q] = slot[q]
  BY <1>1
<1>3. \A q \in Slot : slot'[q].step = "writing" => OnSink(slot'[q])
  BY DEF OnSink
<1>4. \A q, r \in Slot : OnSink(slot'[q]) /\ OnSink(slot'[r]) => q = r
  BY <1>2 DEF Inv, SinkHeld
<1>5. \A q \in Slot : OnSink(slot'[q]) /\ ~slot'[q].typed =>
        /\ slot'[q].sink.secret = sink'.secret
        /\ "secret" \notin doubtful' => sink'.secret = told'.secret
  BY <1>2 DEF Inv, SinkHeld
<1>6. \A q \in Slot : slot'[q].step = "writing" =>
        \A key \in SinkKey \ slot'[q].keys : sink'[key] = slot'[q].sink[key]
  BY <1>2, <1>3 DEF Inv, SinkHeld
<1>7. (\A q \in Slot : slot'[q].step # "writing") =>
        \A key \in SinkKey \ doubtful' : sink'[key] = told'[key]
  <2>1. CASE slot[s].step = "writing"
    BY <2>1
  <2>2. CASE slot[s].step # "writing"
    BY <1>1, <2>2 DEF Inv, SinkHeld
  <2>3. QED
    BY <2>1, <2>2
<1>8. QED
  BY <1>4, <1>5, <1>6, <1>7 DEF SinkHeld, OnSink

Held == EvidenceIsTrue /\ JournalsHeld /\ SinkHeld

\* All three, when an invocation goes on to none of the shared stores.
LEMMA Quiet ==
  ASSUME Inv, NEW s \in Slot, NEW state \in SlotState, Goes(s, state),
         UNCHANGED <<journal, sink, told>>, happened \subseteq happened',
         doubtful \subseteq doubtful', raced \subseteq raced',
         slot[s].step = "writing" => SinkKey \subseteq doubtful',
         state.step \in {"idle", "storing", "recording"},
         state.step = "recording" => state.event \in happened'
  PROVE  Held'
<1>1. EvidenceIsTrue'
  BY EvidenceSame
<1>2. JournalsHeld'
  BY JournalsSame
<1>3. SinkHeld'
  BY SinkSame DEF OnSink
<1>4. QED
  BY <1>1, <1>2, <1>3 DEF Held

-----------------------------------------------------------------------------
(* The steps.                                                              *)

\* No step of an invitation touches the sink or the journal.
LEMMA InvitationSteps ==
  ASSUME Inv, NEW s \in Slot, Invitations(s) \/ RefuseRequest(s)
  PROVE  Held' /\ UNCHANGED journal
<1>1. ASSUME NEW i \in Invitation, NEW recipient \in Account,
             CreateInvitation(s, i, recipient)
      PROVE  Held' /\ UNCHANGED journal
  <2> DEFINE state == [step |-> "storing",
                       invitations |-> createInvitation(invitations, i, recipient),
                       event |-> Event("invitation-created", i)]
  <2>1. createInvitation(invitations, i, recipient) \subseteq IssuedInvitation
    BY DEF Inv, TypeOK, createInvitation, IssuedInvitation
  <2>2. state \in SlotState /\ state.step = "storing"
    BY <2>1, EventType DEF SlotState
  <2>3. /\ Goes(s, state) /\ slot[s].step = "idle"
        /\ UNCHANGED <<journal, sink, told, happened, doubtful, raced>>
    BY <1>1 DEF CreateInvitation, records, history, Idle
  <2>4. QED
    BY <2>2, <2>3, Quiet
<1>2. ASSUME NEW event \in LifecycleEvent, Record(s, event), event \in happened',
             slot[s].step # "writing", happened \subseteq happened',
             UNCHANGED <<journal, sink, told, doubtful, raced>>
      PROVE  Held' /\ UNCHANGED journal
  <2> DEFINE state == [step |-> "recording", event |-> event]
  <2>1. state \in SlotState /\ state.step = "recording" /\ state.event = event
    BY DEF SlotState
  <2>2. Goes(s, state)
    BY <1>2 DEF Record
  <2>3. QED
    BY <1>2, <2>1, <2>2, Quiet
<1>3. ASSUME StoreInvitation(s)
      PROVE  Held' /\ UNCHANGED journal
  BY <1>2, <1>3, AtWork DEF StoreInvitation, Inv
<1>4. ASSUME Deny(s), slot[s] = Idle
      PROVE  Held' /\ UNCHANGED journal
  <2>1. Event("denied", denials) \in LifecycleEvent
    BY EventType DEF Inv, TypeOK
  <2>2. QED
    BY <1>2, <1>4, <2>1 DEF Deny, records, Idle
<1>5. ASSUME NEW invitation \in invitations, NEW account \in Account,
             ReadInvitation(s, invitation, account)
      PROVE  Held' /\ UNCHANGED journal
  <2>1. Event("invitation-viewed", invitation.id) \in LifecycleEvent
    BY EventType DEF Inv, TypeOK, IssuedInvitation
  <2>2. CASE Deny(s)
    BY <1>4, <1>5, <2>2 DEF ReadInvitation
  <2>3. CASE ~Deny(s)
    BY <1>2, <1>5, <2>1, <2>3 DEF ReadInvitation, records, Idle
  <2>4. QED
    BY <2>2, <2>3
<1>6. QED
  BY <1>1, <1>3, <1>4, <1>5 DEF Invitations, RefuseRequest

\* An operation on the sink begins alone or is in a race.
LEMMA SinkBegins ==
  ASSUME Inv, NEW s \in Slot, NEW state \in SlotState, Goes(s, state),
         slot[s] = Idle, OnSink(state),
         RacedOn("sink", {"validating", "writing"}),
         UNCHANGED <<journal, sink, told, doubtful, happened>>,
         state.step = "writing" => state.keys = SinkKey,
         ~state.typed => state.sink.secret = sink.secret
  PROVE  Held' /\ UNCHANGED journal
<1>1. /\ slot'[s] = state
      /\ \A q \in Slot : q # s => slot'[q] = slot[q]
  BY Moves DEF Inv
<1>2. EvidenceIsTrue'
  BY EvidenceSame DEF OnSink
<1>3. "journal" \in raced <=> "journal" \in raced'
  BY DEF RacedOn
<1>4. JournalsHeld'
  BY <1>3, JournalsSame DEF OnSink
<1>5. ASSUME "sink" \notin raced'
      PROVE  /\ "sink" \notin raced
             /\ \A q \in Slot : ~OnSink(slot[q])
  BY <1>5 DEF RacedOn, At, OnSink
<1>6. ASSUME "sink" \notin raced'
      PROVE  \A key \in SinkKey \ doubtful : sink[key] = told[key]
  BY <1>5, <1>6 DEF Inv, SinkHeld, OnSink
<1>7. SinkHeld'
  <2> SUFFICES ASSUME "sink" \notin raced'
               PROVE  SinkHeld'
    BY DEF SinkHeld
  <2>1. \A q \in Slot : OnSink(slot'[q]) => q = s
    BY <1>1, <1>5
  <2>2. \A q \in Slot : slot'[q].step = "writing" => OnSink(slot'[q])
    BY DEF OnSink
  <2>3. "secret" \notin doubtful => sink.secret = told.secret
    BY <1>6 DEF SinkKey
  <2>4. (\A q \in Slot : slot'[q].step # "writing") =>
          \A key \in SinkKey \ doubtful' : sink'[key] = told'[key]
    BY <1>6
  <2>5. QED
    BY <1>1, <2>1, <2>2, <2>3, <2>4 DEF SinkHeld, OnSink
<1>8. QED
  BY <1>2, <1>4, <1>7 DEF Held

\* The operation goes on to write both keys.
LEMMA ValidatedStep ==
  ASSUME Inv, NEW s \in Slot, SinkValidated(s)
  PROVE  Held' /\ UNCHANGED journal
<1> DEFINE state == [step |-> "writing", sink |-> slot[s].sink,
                     typed |-> slot[s].typed, keys |-> SinkKey,
                     event |-> slot[s].event]
<1>1. state \in SlotState
  BY AtWork DEF SinkValidated, SlotState, Inv
<1>2. /\ Goes(s, state) /\ slot[s].step = "validating"
      /\ UNCHANGED <<journal, sink, told, doubtful, happened, raced>>
  BY DEF SinkValidated, records, history
<1>3. /\ slot'[s] = state
      /\ \A q \in Slot : q # s => slot'[q] = slot[q]
  BY <1>1, <1>2, Moves DEF Inv
<1>4. EvidenceIsTrue' /\ JournalsHeld'
  BY <1>1, <1>2, EvidenceSame, JournalsSame
<1>5. SinkHeld'
  <2> SUFFICES ASSUME "sink" \notin raced'
               PROVE  SinkHeld'
    BY DEF SinkHeld
  <2>1. \A q \in Slot : OnSink(slot'[q]) => OnSink(slot[q])
    BY <1>2, <1>3 DEF OnSink
  <2>2. \A q \in Slot : OnSink(slot[q]) =>
          slot'[q].sink = slot[q].sink /\ slot'[q].typed = slot[q].typed
    BY <1>3
  <2>3. slot'[s].step = "writing" /\ slot'[s].keys = SinkKey
    BY <1>3
  <2>4. \A q \in Slot : slot'[q].step = "writing" =>
          \A key \in SinkKey \ slot'[q].keys : sink'[key] = slot'[q].sink[key]
    BY <1>2, <1>3, <2>3 DEF Inv, SinkHeld
  <2>5. QED
    BY <1>2, <2>1, <2>2, <2>3, <2>4 DEF Inv, SinkHeld, OnSink
<1>6. QED
  BY <1>2, <1>4, <1>5 DEF Held

\* One of the keys is written: the first, or the one that completes the
\* operation and is answered.
LEMMA WriteKeyStep ==
  ASSUME Inv, NEW s \in Slot, NEW key \in SinkKey, WriteSinkKey(s, key)
  PROVE  Held' /\ UNCHANGED journal
<1> DEFINE at == slot[s]
           left == at.keys \ {key}
<1>1. /\ at \in [step : {"writing"}, sink : Sink, typed : BOOLEAN,
                 keys : SUBSET SinkKey, event : LifecycleEvent]
      /\ at.step = "writing" /\ key \in at.keys
  BY AtWork DEF WriteSinkKey, Inv
<1>2. /\ sink' = [sink EXCEPT ![key] = at.sink[key]]
      /\ UNCHANGED <<journal, raced>>
  BY DEF WriteSinkKey
<1>3. sink' \in Sink /\ sink \in Sink /\ told \in Sink
  BY <1>1, <1>2 DEF Inv, TypeOK, Sink, SinkKey
<1>4. sink'[key] = at.sink[key] /\ \A k \in SinkKey \ {key} : sink'[k] = sink[k]
  BY <1>1, <1>2, <1>3 DEF Sink, SinkKey
<1>5. ASSUME "sink" \notin raced
      PROVE  /\ \A q \in Slot : OnSink(slot[q]) => q = s
             /\ ~at.typed => /\ sink'.secret = sink.secret /\ at.sink.secret = sink.secret
                             /\ "secret" \notin doubtful => sink.secret = told.secret
             /\ \A k \in SinkKey \ left : sink'[k] = at.sink[k]
  <2>1. OnSink(slot[s])
    BY <1>1 DEF OnSink
  <2>2. ~at.typed => sink'["secret"] = sink["secret"]
    BY <1>4, <1>5, <2>1 DEF Inv, SinkHeld, SinkKey
  <2>3. QED
    BY <1>1, <1>4, <1>5, <2>1, <2>2 DEF Inv, SinkHeld
<1>6. CASE left # {}
  <2> DEFINE state == [at EXCEPT !.keys = left]
  <2>1. state \in SlotState
    BY <1>1 DEF SlotState
  <2>2. /\ state.step = "writing" /\ state.sink = at.sink
        /\ state.typed = at.typed /\ state.keys = left
    BY <1>1
  <2>3. Goes(s, state) /\ UNCHANGED <<happened, told, doubtful>>
    BY <1>6 DEF WriteSinkKey
  <2>4. /\ slot'[s] = state
        /\ \A q \in Slot : q # s => slot'[q] = slot[q]
    BY <2>1, <2>3, Moves DEF Inv
  <2>5. EvidenceIsTrue' /\ JournalsHeld'
    BY <1>2, <2>1, <2>2, <2>3, EvidenceSame, JournalsSame
  <2>6. SinkHeld'
    <3> SUFFICES ASSUME "sink" \notin raced
                 PROVE  SinkHeld'
      BY <1>2 DEF SinkHeld
    <3>1. \A q \in Slot : OnSink(slot'[q]) => q = s
      BY <1>5, <2>4
    <3>2. \A q \in Slot : slot'[q].step = "writing" => q = s
      BY <3>1 DEF OnSink
    <3>3. slot'[s].step = "writing" /\ slot'[s].sink = at.sink
          /\ slot'[s].typed = at.typed /\ slot'[s].keys = left
      BY <2>2, <2>4
    <3>4. ~slot'[s].typed =>
            /\ slot'[s].sink.secret = sink'.secret
            /\ "secret" \notin doubtful' => sink'.secret = told'.secret
      BY <1>5, <2>3, <3>3
    <3>5. \A k \in SinkKey \ slot'[s].keys : sink'[k] = slot'[s].sink[k]
      BY <1>5, <3>3
    <3>6. QED
      BY <3>1, <3>2, <3>3, <3>4, <3>5 DEF SinkHeld, OnSink
  <2>7. QED
    BY <1>2, <2>5, <2>6 DEF Held
<1>7. CASE left = {}
  <2> DEFINE state == [step |-> "recording", event |-> at.event]
  <2>1. state \in SlotState
    BY <1>1 DEF SlotState
  <2>2. /\ Goes(s, state) /\ happened' = happened \cup {at.event}
        /\ told' = IF at.typed THEN at.sink
                   ELSE [told EXCEPT !.configuration = at.sink.configuration]
        /\ doubtful' = doubtful \ (IF at.typed THEN SinkKey ELSE {"configuration"})
    BY <1>7 DEF WriteSinkKey, Record
  <2>3. /\ slot'[s] = state
        /\ \A q \in Slot : q # s => slot'[q] = slot[q]
    BY <2>1, <2>2, Moves DEF Inv
  <2>4. EvidenceIsTrue' /\ JournalsHeld'
    BY <1>2, <2>1, <2>2, EvidenceSame, JournalsSame
  <2>5. SinkHeld'
    <3> SUFFICES ASSUME "sink" \notin raced
                 PROVE  SinkHeld'
      BY <1>2 DEF SinkHeld
    <3>1. \A q \in Slot : ~OnSink(slot'[q])
      BY <1>5, <2>3 DEF OnSink
    <3>2. \A k \in SinkKey : sink'[k] = at.sink[k]
      BY <1>5, <1>7
    <3>3. ASSUME NEW k \in SinkKey \ doubtful'
          PROVE  sink'[k] = told'[k]
      <4>1. CASE at.typed
        BY <2>2, <3>2, <4>1
      <4>2. CASE ~at.typed /\ k = "configuration"
        BY <1>3, <2>2, <3>2, <4>2 DEF Sink
      <4>3. CASE ~at.typed /\ k = "secret"
        <5>1. "secret" \notin doubtful
          BY <2>2, <3>3, <4>3
        <5>2. told'.secret = told.secret
          BY <1>3, <2>2, <4>3 DEF Sink
        <5>3. QED
          BY <1>5, <4>3, <5>1, <5>2
      <4>4. QED
        BY <3>3, <4>1, <4>2, <4>3 DEF SinkKey
    <3>4. QED
      BY <3>1, <3>3 DEF SinkHeld, OnSink
  <2>6. QED
    BY <1>2, <2>4, <2>5 DEF Held
<1>8. QED
  BY <1>6, <1>7

\* No step on the sink touches the journal.
LEMMA SinkSteps ==
  ASSUME Inv, NEW s \in Slot, LogSink(s)
  PROVE  Held' /\ UNCHANGED journal
<1>1. ASSUME NEW target \in Target, NEW typed \in Secret \cup {None},
             NEW at \in Instant, SaveLogSink(s, target, typed, at)
      PROVE  Held' /\ UNCHANGED journal
  <2> DEFINE state == [step |-> "validating", sink |-> configureLogSink(target, typed),
                       typed |-> typed # None, event |-> Event("sink-configured", at)]
  <2>1. configureLogSink(target, typed) \in Sink
    BY DEF Inv, TypeOK, configureLogSink, Sink
  <2>2. state \in SlotState /\ OnSink(state)
    BY <2>1, EventType DEF SlotState, OnSink
  <2>3. ~state.typed => state.sink.secret = sink.secret
    BY DEF configureLogSink
  <2>4. /\ Goes(s, state) /\ slot[s] = Idle /\ RacedOn("sink", {"validating", "writing"})
        /\ UNCHANGED <<journal, sink, told, doubtful, happened>>
    BY <1>1 DEF SaveLogSink, records
  <2>5. state.step # "writing"
    OBVIOUS
  <2>6. QED
    BY <2>2, <2>3, <2>4, <2>5, SinkBegins
<1>2. ASSUME NEW at \in Instant, ResetLogSink(s, at)
      PROVE  Held' /\ UNCHANGED journal
  <2> DEFINE state == [step |-> "writing", sink |-> NoSink, typed |-> TRUE,
                       keys |-> SinkKey, event |-> Event("sink-cleared", at)]
  <2>1. state \in SlotState /\ OnSink(state) /\ state.keys = SinkKey /\ state.typed
    BY EventType DEF SlotState, OnSink, Sink, NoSink
  <2>2. /\ Goes(s, state) /\ slot[s] = Idle /\ RacedOn("sink", {"validating", "writing"})
        /\ UNCHANGED <<journal, sink, told, doubtful, happened>>
    BY <1>2 DEF ResetLogSink, records
  <2>3. QED
    BY <2>1, <2>2, SinkBegins
<1>3. ASSUME SinkRejected(s)
      PROVE  Held' /\ UNCHANGED journal
  <2>1. Idle \in SlotState /\ Idle.step = "idle"
    BY DEF Idle, SlotState
  <2>2. /\ Goes(s, Idle) /\ slot[s].step = "validating"
        /\ UNCHANGED <<journal, sink, told, doubtful, happened, raced>>
    BY <1>3 DEF SinkRejected, records, history
  <2>3. QED
    BY <2>1, <2>2, Quiet
<1>4. QED
  BY <1>1, <1>2, <1>3, ValidatedStep, WriteKeyStep DEF LogSink

\* A journal is read, and the event added to the copy.
LEMMA ReadStep ==
  ASSUME Inv, NEW s \in Slot, ReadJournal(s)
  PROVE  Held' /\ UNCHANGED journal
<1> DEFINE next == recordLifecycleEvent(journal, slot[s].event)
           state == [step |-> "appending", journal |-> next]
<1>1. /\ Goes(s, state) /\ slot[s].step = "recording"
      /\ RacedOn("journal", {"appending"})
      /\ UNCHANGED <<journal, sink, told, doubtful, happened>>
  BY DEF ReadJournal, records
<1>2. /\ slot[s].event \in LifecycleEvent /\ slot[s].event \in happened
      /\ journal \in Seq(LifecycleEvent) /\ WellFormed(journal)
      /\ Events(journal) \subseteq happened
  BY <1>1, AtWork DEF Inv, TypeOK, EvidenceIsTrue, At, JournalsHeld
<1>3. /\ next \in Seq(LifecycleEvent) /\ WellFormed(next)
      /\ Events(next) \subseteq happened
  BY <1>2, RecordedWell
<1>4. state \in SlotState
  BY <1>3 DEF SlotState
<1>5. /\ slot'[s] = state
      /\ \A q \in Slot : q # s => slot'[q] = slot[q]
  BY <1>1, <1>4, Moves DEF Inv
<1>6. EvidenceIsTrue'
  BY <1>1, <1>3, <1>4, EvidenceSame
<1>7. Succeeds(journal, next, happened)
  BY <1>2, RecordedAtEnd DEF Succeeds
<1>8. JournalsHeld'
  <2>1. WellFormed(journal)'
    BY <1>1, <1>2 DEF WellFormed
  <2>2. \A q \in Slot : slot'[q].step = "appending" => WellFormed(slot'[q].journal)
    BY <1>3, <1>5 DEF Inv, JournalsHeld
  <2>3. "journal" \notin raced' =>
          \A q \in Slot : slot'[q].step = "appending" => q = s
    BY <1>1, <1>5 DEF RacedOn, At
  <2>4. "journal" \notin raced' =>
          \A q \in Slot : slot'[q].step = "appending" =>
            /\ Succeeds(journal, slot'[q].journal, happened)
            /\ \A r \in Slot : slot'[r].step = "appending" => r = q
    BY <1>5, <1>7, <2>3
  <2>5. QED
    BY <1>1, <2>1, <2>2, <2>4 DEF JournalsHeld, WellFormed, Succeeds
<1>9. SinkHeld'
  BY <1>1, <1>4, SinkSame DEF RacedOn, OnSink
<1>10. QED
  BY <1>1, <1>6, <1>8, <1>9 DEF Held

\* The copy is stored: unless another was held, it is the stored journal with
\* one event more.
LEMMA WriteStep ==
  ASSUME Inv, NEW s \in Slot, WriteJournal(s)
  PROVE  /\ Held'
         /\ "journal" \notin raced' => Succeeds(journal, journal', happened)
<1>1. /\ Goes(s, Idle) /\ slot[s].step = "appending"
      /\ journal' = slot[s].journal
      /\ UNCHANGED <<sink, told, doubtful, happened, raced>>
  BY DEF WriteJournal, history
<1>2. Idle \in SlotState /\ Idle.step = "idle"
  BY DEF Idle, SlotState
<1>3. /\ slot'[s] = Idle
      /\ \A q \in Slot : q # s => slot'[q] = slot[q]
  BY <1>1, <1>2, Moves DEF Inv
<1>4. /\ WellFormed(slot[s].journal) /\ Events(slot[s].journal) \subseteq happened
      /\ "journal" \notin raced => Succeeds(journal, slot[s].journal, happened)
  BY <1>1 DEF Inv, JournalsHeld, EvidenceIsTrue, At
<1>5. EvidenceIsTrue'
  <2>1. Events(journal)' \subseteq happened'
    BY <1>1, <1>4 DEF Events
  <2>2. \A q \in Slot : /\ slot'[q].step = "recording" => slot'[q].event \in happened
                        /\ slot'[q].step = "appending"
                             => Events(slot'[q].journal) \subseteq happened
    BY <1>2, <1>3 DEF Inv, EvidenceIsTrue, At
  <2>3. QED
    BY <1>1, <2>1, <2>2 DEF EvidenceIsTrue, At, Events
<1>6. JournalsHeld'
  <2>1. WellFormed(journal)'
    BY <1>1, <1>4 DEF WellFormed
  <2>2. \A q \in Slot : slot'[q].step = "appending" => WellFormed(slot'[q].journal)
    BY <1>2, <1>3 DEF Inv, JournalsHeld
  <2>3. "journal" \notin raced => \A q \in Slot : slot'[q].step # "appending"
    BY <1>1, <1>2, <1>3 DEF Inv, JournalsHeld
  <2>4. QED
    BY <1>1, <2>1, <2>2, <2>3 DEF JournalsHeld, WellFormed
<1>7. SinkHeld'
  BY <1>1, <1>2, SinkSame DEF OnSink
<1>8. QED
  BY <1>1, <1>4, <1>5, <1>6, <1>7 DEF Held

\* An invocation ends where it is.
LEMMA KillStep ==
  ASSUME Inv, NEW s \in Slot, Kill(s)
  PROVE  Held' /\ UNCHANGED journal
<1>1. Idle \in SlotState /\ Idle.step = "idle"
  BY DEF Idle, SlotState
<1>2. /\ Goes(s, Idle) /\ UNCHANGED <<journal, sink, told, happened, raced>>
      /\ doubtful' = IF slot[s].step = "writing" THEN SinkKey ELSE doubtful
  BY DEF Kill, records
<1>3. doubtful \subseteq doubtful'
  BY <1>2 DEF Inv, TypeOK
<1>4. QED
  BY <1>1, <1>2, <1>3, Quiet

\* Nothing, or time passes for an invitation.
LEMMA StillStep ==
  ASSUME Inv, (\E i \in Invitation : Expire(i)) \/ UNCHANGED vars
  PROVE  Held' /\ UNCHANGED journal
<1>1. UNCHANGED <<journal, sink, slot, told, doubtful, happened, raced>>
  BY DEF Expire, vars, records, history
<1>2. EvidenceIsTrue'
  BY <1>1 DEF Inv, EvidenceIsTrue, At, Events
<1>3. JournalsHeld'
  BY <1>1 DEF Inv, JournalsHeld, WellFormed, Succeeds
<1>4. SinkHeld'
  BY <1>1 DEF Inv, SinkHeld, OnSink
<1>5. QED
  BY <1>1, <1>2, <1>3, <1>4 DEF Held

LEMMA StepInv ==
  ASSUME Inv, [Next]_vars
  PROVE  /\ Inv'
         /\ "journal" \notin raced' /\ journal' # journal
              => Succeeds(journal, journal', happened)
<1>1. TypeOK'
  <2>1. CASE UNCHANGED vars
    BY <2>1 DEF vars, records, history, Inv, TypeOK
  <2>2. CASE Next
    BY <2>2, TypeStep DEF Inv, JournalsHeld
  <2>3. QED
    BY <2>1, <2>2
<1>2. /\ Held'
      /\ "journal" \notin raced' /\ journal' # journal
           => Succeeds(journal, journal', happened)
  <2>1. CASE \E s \in Slot : Invitations(s) \/ RefuseRequest(s)
    BY <2>1, InvitationSteps
  <2>2. CASE \E s \in Slot : LogSink(s)
    BY <2>2, SinkSteps
  <2>3. CASE \E s \in Slot : ReadJournal(s)
    BY <2>3, ReadStep
  <2>4. CASE \E s \in Slot : WriteJournal(s)
    BY <2>4, WriteStep
  <2>5. CASE \E s \in Slot : Kill(s)
    BY <2>5, KillStep
  <2>6. CASE (\E i \in Invitation : Expire(i)) \/ UNCHANGED vars
    BY <2>6, StillStep
  <2>7. QED
    BY <2>1, <2>2, <2>3, <2>4, <2>5, <2>6 DEF Next, Journal
<1>3. QED
  BY <1>1, <1>2 DEF Inv, Held

-----------------------------------------------------------------------------
(* The results.                                                            *)

\* The records and whatever invocations hold of them are always well typed.
THEOREM RecordsTyped == Spec => []TypeOK
<1>1. Inv => TypeOK
  BY DEF Inv
<1>2. QED
  BY <1>1, InitInv, StepInv, PTL DEF Spec

\* The journal tells only what took effect, however recordings overwrite one
\* another and wherever invocations are killed.
THEOREM NothingMadeUp == Spec => []EvidenceIsTrue
<1>1. Inv => EvidenceIsTrue
  BY DEF Inv
<1>2. QED
  BY <1>1, InitInv, StepInv, PTL DEF Spec

\* It tells each event once and stays within its capacity.
THEOREM ToldOnce == Spec => []JournalWellFormed
<1>1. Inv => JournalWellFormed
  BY EventsCounted DEF Inv, TypeOK, JournalsHeld, WellFormed, JournalWellFormed
<1>2. QED
  BY <1>1, InitInv, StepInv, PTL DEF Spec

\* Until two recordings overlap, it loses only its oldest event, when full.
THEOREM OnlyOldestLost == Spec => EvidenceIsDurable
<1>1. Inv /\ [Next]_vars =>
        ["journal" \notin raced' /\ journal' # journal =>
            \/ \E e \in happened : journal' = Append(journal, e)
            \/ /\ Len(journal) = lifecycleJournalCapacity
               /\ \E e \in happened : journal' = Append(Tail(journal), e)]_vars
  BY StepInv DEF Succeeds
<1>2. QED
  BY <1>1, InitInv, StepInv, PTL DEF Spec, EvidenceIsDurable

\* Until two operations on the sink overlap, each key not in doubt holds what
\* the administrators were answered.
THEOREM SinkIsAnswered == Spec => []SinkAsAnswered
<1>1. Inv => SinkAsAnswered
  BY DEF Inv, SinkHeld, SinkAsAnswered, At
<1>2. QED
  BY <1>1, InitInv, StepInv, PTL DEF Spec
=============================================================================
