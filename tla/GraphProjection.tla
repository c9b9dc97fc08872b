---------------------------- MODULE GraphProjection ----------------------------
(***************************************************************************)
(* Publication of a package to the Teamwork Graph in one tenant.  A        *)
(* publication reads the active connection, promotes a new current package *)
(* into that connection's receipt state, reads the state back and indexes  *)
(* it; a connection callback selects a connection and indexes what is      *)
(* stored for it, or forgets it.  Every await on KVS or the graph lets     *)
(* other invocations in, and an invocation can end at any of them.         *)
(*                                                                         *)
(* What is abstracted.  A package is its Epic, its version and the number  *)
(* of its publication, which stands for the fresh correlation ID and the   *)
(* time it carries; its objects are indexed together, so one entry stands  *)
(* for all.  A publication's idempotency key is fresh, so the receipt      *)
(* never replays, and the demo pairing it adds makes its refusals          *)
(* unreachable.  The graph is external: it ignores an object that is older *)
(* than the one it has, by updateSequenceNumber, and may keep or replace   *)
(* one of the same number.                                                 *)
(***************************************************************************)
EXTENDS Naturals

CONSTANTS
  GraphCx,          \* connection IDs, each created at most once
  Epic,             \* source Epics of publications
  Run,              \* slots for concurrent publications
  Change,           \* slots for concurrent connection callbacks
  NoCx, NoPackage,
  MaxPublications   \* bound: publications in a behaviour

ASSUME ProjectionAssumption ==
  /\ MaxPublications \in Nat
  /\ NoCx \notin GraphCx
  /\ Epic # {} /\ NoPackage \notin [epic : Epic, version : Nat, publication : Nat]

VARIABLES
  receipt,     \* the receipt state stored for each connection
  active,      \* the stored active connection
  indexed,     \* the package the graph shows, per connection and Epic
  run,         \* publications at work
  change,      \* connection callbacks at work
  connection,  \* the platform's view of each connection
  published,   \* publications begun so far
  saved,       \* history: every package ever stored for a connection
  latest,      \* history: the connection that was selected last
  overlapped,  \* history: two invocations have been at work at once
  interrupted  \* history: connections an invocation left half done

vars == <<receipt, active, indexed, run, change, connection, published,
          saved, latest, overlapped, interrupted>>

Package == [epic : Epic, version : Nat, publication : Nat]
SupplierReceiptState ==
  [currentPackage : Package \cup {NoPackage}, pairings : SUBSET Epic]
emptySupplierReceiptState == [currentPackage |-> NoPackage, pairings |-> {}]

RunStep == {"idle", "promoting", "saving", "rereading", "indexing"}
ChangeStep ==
  {"idle", "selecting", "reading", "indexing",
   "checking", "clearing", "forgetting"}

\* An invocation holds its connection and the state it read or will write; a
\* publication also its Epic and its number.
IdleRun == [step |-> "idle", cx |-> NoCx, epic |-> CHOOSE e \in Epic : TRUE,
            publication |-> 0, state |-> emptySupplierReceiptState]
IdleChange ==
  [step |-> "idle", cx |-> NoCx, state |-> emptySupplierReceiptState]

TypeOK ==
  /\ receipt \in [GraphCx -> SupplierReceiptState]
  /\ active \in GraphCx \cup {NoCx}
  /\ indexed \in [GraphCx -> [Epic -> Package \cup {NoPackage}]]
  /\ run \in [Run -> [step : RunStep, cx : GraphCx \cup {NoCx}, epic : Epic,
                      publication : Nat, state : SupplierReceiptState]]
  /\ change \in [Change -> [step : ChangeStep, cx : GraphCx \cup {NoCx},
                            state : SupplierReceiptState]]
  /\ connection \in [GraphCx -> {"unknown", "live", "gone"}]
  /\ published \in Nat
  /\ saved \in [GraphCx -> SUBSET Package]
  /\ latest \in GraphCx \cup {NoCx}
  /\ overlapped \in BOOLEAN
  /\ interrupted \subseteq GraphCx

Init ==
  /\ receipt = [cx \in GraphCx |-> emptySupplierReceiptState]
  /\ active = NoCx
  /\ indexed = [cx \in GraphCx |-> [e \in Epic |-> NoPackage]]
  /\ run = [r \in Run |-> IdleRun]
  /\ change = [k \in Change |-> IdleChange]
  /\ connection = [cx \in GraphCx |-> "unknown"]
  /\ published = 0
  /\ saved = [cx \in GraphCx |-> {}]
  /\ latest = NoCx
  /\ overlapped = FALSE
  /\ interrupted = {}

AtWork == {r \in Run : run[r].step # "idle"}
Changing == {k \in Change : change[k].step # "idle"}
NoteOverlap ==
  overlapped' = (overlapped \/ AtWork # {} \/ Changing # {})

RunGoes(r, step, state) ==
  run' = [run EXCEPT ![r] = [@ EXCEPT !.step = step, !.state = state]]
ChangeGoes(k, step, state) ==
  change' = [change EXCEPT ![k] = [@ EXCEPT !.step = step, !.state = state]]

-----------------------------------------------------------------------------
(* The pure parts.                                                         *)

\* Mutant of nextVersion: the stored version is used again.
SameVersionAgain(state, epic) ==
  IF state.currentPackage # NoPackage /\ state.currentPackage.epic = epic
  THEN state.currentPackage.version ELSE 1

\* Versions count up from the stored package while it is of the same Epic.
nextVersion(state, epic) ==
  IF state.currentPackage # NoPackage /\ state.currentPackage.epic = epic
  THEN state.currentPackage.version + 1 ELSE 1

\* withDemoPairing, then the receipt: the package replaces any other.
Promote(state, epic, publication) ==
  [currentPackage |-> [epic |-> epic, version |-> nextVersion(state, epic),
                       publication |-> publication],
   pairings |-> state.pairings \cup {epic}]

\* Mutant of updateSequenceNumber: every object is a first version.
AlwaysFirst(package) == 1

updateSequenceNumber(package) == package.version

\* What the graph may show of an Epic after setObjects.
AfterSetObjects(shown, package) ==
  IF shown = NoPackage THEN {package}
  ELSE LET old == updateSequenceNumber(shown)
           new == updateSequenceNumber(package)
       IN {p \in {shown, package} :
             (p = shown => new <= old) /\ (p = package => new >= old)}

\* Nothing is indexed without a current package, and what was is removed when
\* its pairing is gone.
Ingest(cx, state) ==
  LET package == state.currentPackage
      Show(p) == indexed' = [indexed EXCEPT ![cx][package.epic] = p]
  IN IF package = NoPackage THEN UNCHANGED indexed
     ELSE IF package.epic \notin state.pairings THEN Show(NoPackage)
     ELSE \E p \in AfterSetObjects(indexed[cx][package.epic], package) : Show(p)

-----------------------------------------------------------------------------
(* publishPackageToGraph                                                   *)

\* Reads the active connection; there is nothing to do without one.
BeginPublish(r, epic) ==
  /\ run[r].step = "idle"
  /\ active # NoCx
  /\ published < MaxPublications
  /\ published' = published + 1
  /\ run' = [run EXCEPT ![r] =
               [IdleRun EXCEPT !.step = "promoting", !.cx = active,
                               !.epic = epic, !.publication = published + 1]]
  /\ NoteOverlap
  /\ UNCHANGED <<receipt, active, indexed, change, connection, saved, latest,
                 interrupted>>

Promotion(r) == Promote(receipt[run[r].cx], run[r].epic, run[r].publication)

\* Mutant of PromotePackage: the promotion is indexed and never stored.
PromoteUnsaved(r) ==
  /\ run[r].step = "promoting"
  /\ RunGoes(r, "indexing", Promotion(r))
  /\ UNCHANGED <<receipt, active, indexed, change, connection, published,
                 saved, latest, overlapped, interrupted>>

\* promoteDemoPackage reads the receipt state and computes the next one.
PromotePackage(r) ==
  /\ run[r].step = "promoting"
  /\ RunGoes(r, "saving", Promotion(r))
  /\ UNCHANGED <<receipt, active, indexed, change, connection, published,
                 saved, latest, overlapped, interrupted>>

SavePromotion(r) ==
  LET cx == run[r].cx IN
  /\ run[r].step = "saving"
  /\ receipt' = [receipt EXCEPT ![cx] = run[r].state]
  /\ saved' = [saved EXCEPT ![cx] = @ \cup {run[r].state.currentPackage}]
  /\ RunGoes(r, "rereading", emptySupplierReceiptState)
  /\ UNCHANGED <<active, indexed, change, connection, published, latest,
                 overlapped, interrupted>>

ReadBack(r) ==
  /\ run[r].step = "rereading"
  /\ RunGoes(r, "indexing", receipt[run[r].cx])
  /\ UNCHANGED <<receipt, active, indexed, change, connection, published,
                 saved, latest, overlapped, interrupted>>

\* A connection's stored package is in the graph again.
Healed(cx) ==
  interrupted' = IF connection[cx] = "live" THEN interrupted \ {cx}
                 ELSE interrupted

IndexPromotion(r) ==
  /\ run[r].step = "indexing"
  /\ Ingest(run[r].cx, run[r].state)
  /\ Healed(run[r].cx)
  /\ run' = [run EXCEPT ![r] = IdleRun]
  /\ UNCHANGED <<receipt, active, change, connection, published, saved,
                 latest, overlapped>>

-----------------------------------------------------------------------------
(* onGraphCxChange                                                         *)

BeginChange(k, cx, from, to, step) ==
  /\ change[k].step = "idle"
  /\ connection[cx] \in from
  /\ connection' = [connection EXCEPT ![cx] = to]
  /\ change' = [change EXCEPT ![k] = [IdleChange EXCEPT !.step = step, !.cx = cx]]
  /\ NoteOverlap
  /\ UNCHANGED <<receipt, active, indexed, run, published, saved, latest,
                 interrupted>>

\* The platform reports that a connection was created, or updated.
CreatedOrUpdated(k, cx) ==
  BeginChange(k, cx, {"unknown", "live"}, "live", "selecting")

Deleted(k, cx) == BeginChange(k, cx, {"live"}, "gone", "checking")

SelectConnection(k) ==
  /\ change[k].step = "selecting"
  /\ active' = change[k].cx
  /\ latest' = change[k].cx
  /\ ChangeGoes(k, "reading", emptySupplierReceiptState)
  /\ UNCHANGED <<receipt, indexed, run, connection, published, saved,
                 overlapped, interrupted>>

ReadStored(k) ==
  /\ change[k].step = "reading"
  /\ ChangeGoes(k, "indexing", receipt[change[k].cx])
  /\ UNCHANGED <<receipt, active, indexed, run, connection, published, saved,
                 latest, overlapped, interrupted>>

IndexStored(k) ==
  /\ change[k].step = "indexing"
  /\ Ingest(change[k].cx, change[k].state)
  /\ Healed(change[k].cx)
  /\ change' = [change EXCEPT ![k] = IdleChange]
  /\ UNCHANGED <<receipt, active, run, connection, published, saved, latest,
                 overlapped>>

\* Mutants of CheckActive: the active connection is cleared whichever it is;
\* it is never cleared.
ClearAny(k) ==
  /\ change[k].step = "checking"
  /\ ChangeGoes(k, "clearing", emptySupplierReceiptState)
  /\ UNCHANGED <<receipt, active, indexed, run, connection, published, saved,
                 latest, overlapped, interrupted>>
ClearNone(k) ==
  /\ change[k].step = "checking"
  /\ ChangeGoes(k, "forgetting", emptySupplierReceiptState)
  /\ UNCHANGED <<receipt, active, indexed, run, connection, published, saved,
                 latest, overlapped, interrupted>>

\* clearActiveGraphCxId reads the active connection, and deletes the key, in
\* another call, when it read its own connection there.
CheckActive(k) ==
  /\ change[k].step = "checking"
  /\ ChangeGoes(k, IF active = change[k].cx THEN "clearing" ELSE "forgetting",
                emptySupplierReceiptState)
  /\ UNCHANGED <<receipt, active, indexed, run, connection, published, saved,
                 latest, overlapped, interrupted>>

ClearActive(k) ==
  /\ change[k].step = "clearing"
  /\ active' = NoCx
  /\ ChangeGoes(k, "forgetting", emptySupplierReceiptState)
  /\ UNCHANGED <<receipt, indexed, run, connection, published, saved, latest,
                 overlapped, interrupted>>

\* Mutant of Forget: a forgotten connection does not read as empty.
ForgetToNothing(k) ==
  /\ change[k].step = "forgetting"
  /\ receipt' = [receipt EXCEPT ![change[k].cx] = NoPackage]
  /\ change' = [change EXCEPT ![k] = IdleChange]
  /\ UNCHANGED <<active, indexed, run, connection, published, saved, latest,
                 overlapped, interrupted>>

\* What the connection indexed stays in the graph.
Forget(k) ==
  /\ change[k].step = "forgetting"
  /\ receipt' = [receipt EXCEPT ![change[k].cx] = emptySupplierReceiptState]
  /\ change' = [change EXCEPT ![k] = IdleChange]
  /\ UNCHANGED <<active, indexed, run, connection, published, saved, latest,
                 overlapped, interrupted>>

-----------------------------------------------------------------------------
(* A failed await, or Forge, ends an invocation where it is.               *)

KillRun(r) ==
  /\ run[r].step # "idle"
  /\ run' = [run EXCEPT ![r] = IdleRun]
  /\ interrupted' = IF run[r].step \in {"rereading", "indexing"}
                    THEN interrupted \cup {run[r].cx} ELSE interrupted
  /\ UNCHANGED <<receipt, active, indexed, change, connection, published,
                 saved, latest, overlapped>>

KillChange(k) ==
  /\ change[k].step # "idle"
  /\ change' = [change EXCEPT ![k] = IdleChange]
  /\ interrupted' = IF connection[change[k].cx] = "gone"
                    THEN interrupted \cup {change[k].cx} ELSE interrupted
  /\ UNCHANGED <<receipt, active, indexed, run, connection, published, saved,
                 latest, overlapped>>

-----------------------------------------------------------------------------
Publishing(r) ==
  \/ \E epic \in Epic : BeginPublish(r, epic)
  \/ PromotePackage(r)
  \/ SavePromotion(r)
  \/ ReadBack(r)
  \/ IndexPromotion(r)
  \/ KillRun(r)

ConnectionChange(k) ==
  \/ \E cx \in GraphCx : CreatedOrUpdated(k, cx) \/ Deleted(k, cx)
  \/ SelectConnection(k)
  \/ ReadStored(k)
  \/ IndexStored(k)
  \/ CheckActive(k)
  \/ ClearActive(k)
  \/ Forget(k)
  \/ KillChange(k)

Next ==
  \/ \E r \in Run : Publishing(r)
  \/ \E k \in Change : ConnectionChange(k)

Spec == Init /\ [][Next]_vars

-----------------------------------------------------------------------------
\* However invocations interleave, the graph shows only packages that were
\* stored first as a connection's current package: nothing that is still being
\* promoted, and nothing of another connection, is ever discoverable.
IndexedWasCurrent ==
  \A cx \in GraphCx, e \in Epic :
    indexed[cx][e] # NoPackage => indexed[cx][e] \in saved[cx]

\* The version of a package grows with every publication of its Epic under its
\* connection, so that the graph can tell the newer one.
VersionsGrow ==
  ~overlapped =>
    \A cx \in GraphCx : \A old, new \in saved[cx] :
      /\ old.epic = new.epic
      /\ old.publication < new.publication
      => old.version < new.version

\* They do for as long as one Epic is published in a row, whatever failed in
\* between and whichever connection was selected meanwhile: a later package of
\* the row has a higher version.
VersionsGrowInARow ==
  ~overlapped =>
    \A cx \in GraphCx : \A old, new \in saved[cx] :
      /\ old.publication < new.publication
      /\ \A package \in saved[cx] :
           /\ old.publication <= package.publication
           /\ package.publication <= new.publication
           => package.epic = new.epic
      => old.version < new.version

Resting == AtWork = {} /\ Changing = {}

\* The stored package is the one that the graph can tell for the newest of its
\* Epic by its version.
Outranks(cx) ==
  LET current == receipt[cx].currentPackage IN
  \A old \in saved[cx] :
    old.epic = current.epic /\ old # current => old.version < current.version

\* Once its invocations have ended, one after the other, a live connection's
\* current package is what the graph shows of its Epic, unless its version
\* collides with an earlier one's; after a failure between storing and
\* indexing, the next publication or update makes it so.
IndexCaughtUp ==
  ~overlapped /\ Resting =>
    \A cx \in GraphCx :
      LET package == receipt[cx].currentPackage IN
      /\ connection[cx] = "live" /\ cx \notin interrupted
      /\ package # NoPackage /\ Outranks(cx)
      => indexed[cx][package.epic] = package

\* A removed connection is not published to again and keeps no package, when
\* its removal ran to its end and nothing ran beside it.
RemovedStaysRemoved ==
  ~overlapped /\ Resting =>
    \A cx \in GraphCx :
      /\ connection[cx] = "gone"
      /\ cx \notin interrupted
      => active # cx /\ receipt[cx] = emptySupplierReceiptState

\* Removing one connection never deselects another: the one selected last is
\* where packages are published for as long as it exists.
LatestStaysActive ==
  ~overlapped /\ Resting /\ latest # NoCx
    => (connection[latest] = "live" => active = latest)

-----------------------------------------------------------------------------
(* The strengthening of the four properties above that one step preserves: *)
(* what is so for as long as no invocation has begun beside another.       *)

OneAtWork ==
  /\ \A r, q \in AtWork : r = q
  /\ \A k, j \in Changing : k = j
  /\ AtWork = {} \/ Changing = {}

\* A publication works for the active connection, with the latest number, and
\* what it has read or computed is not stale.
RunAlone(r) ==
  LET cx == run[r].cx
      step == run[r].step
  IN /\ active = cx
     /\ run[r].publication = published
     /\ connection[cx] = "gone" => cx \in interrupted
     /\ step = "saving" => run[r].state = Promotion(r)
     /\ step = "indexing" => run[r].state = receipt[cx]

\* A callback selects a connection that exists, or removes one that does not.
ChangeAlone(k) ==
  LET cx == change[k].cx
      step == change[k].step
  IN /\ step \in {"selecting", "reading", "indexing"} => connection[cx] = "live"
     /\ step \in {"checking", "clearing", "forgetting"} => connection[cx] = "gone"
     /\ step = "clearing" => active = cx
     /\ step = "forgetting" => active # cx
     /\ step = "indexing" => change[k].state = receipt[cx]

\* A connection is removed, or still being removed, or its removal failed.
Removed(cx) ==
  connection[cx] = "gone" /\ cx \notin interrupted =>
    \/ active # cx /\ receipt[cx] = emptySupplierReceiptState
    \/ \E k \in Changing : change[k].cx = cx

SelectedKnown ==
  /\ active # NoCx => connection[active] # "unknown"
  /\ latest # NoCx => /\ connection[latest] # "unknown"
                      /\ connection[latest] = "live" => active = latest

ConnectionsKept ==
  /\ OneAtWork
  /\ \A r \in AtWork : RunAlone(r)
  /\ \A k \in Changing : ChangeAlone(k)
  /\ SelectedKnown
  /\ \A cx \in GraphCx : Removed(cx)

\* What is stored for a connection came from publications begun so far, each of
\* which stores one package; the one still to store its own is newer than all.
Numbered(cx) ==
  /\ \A package \in saved[cx] :
       /\ package.publication <= published
       /\ \A r \in AtWork : run[r].step \in {"promoting", "saving"} =>
                              package.publication < published
  /\ \A old, new \in saved[cx] : old.publication = new.publication => old = new

\* The stored package is the newest that was ever stored for the connection,
\* unless the connection is gone for good.
NewestStored(cx) ==
  LET current == receipt[cx].currentPackage IN
  /\ connection[cx] = "unknown" => current = NoPackage
  /\ current = NoPackage /\ saved[cx] # {} =>
       connection[cx] = "gone" /\ active # cx
  /\ current # NoPackage =>
       /\ current.epic \in receipt[cx].pairings
       /\ \A package \in saved[cx] : package.publication <= current.publication

ShownUnderEpic(cx) ==
  \A e \in Epic : indexed[cx][e] # NoPackage => indexed[cx][e].epic = e

\* The stored package is shown, or about to be, or a failure came between, or
\* the graph cannot tell it from an older one.
NewestShown(cx) ==
  LET current == receipt[cx].currentPackage IN
  /\ connection[cx] = "live" /\ cx \notin interrupted
  /\ current # NoPackage /\ Outranks(cx)
  => \/ indexed[cx][current.epic] = current
     \/ \E r \in AtWork : /\ run[r].cx = cx
                          /\ run[r].step \in {"rereading", "indexing"}

NewestKept ==
  \A cx \in GraphCx :
    Numbered(cx) /\ NewestStored(cx) /\ ShownUnderEpic(cx) /\ NewestShown(cx)

\* While invocations never overlap, connections are selected and removed as the
\* platform reports them, and the newest package of a connection is the one that
\* is stored, and shown once its publication has ended.
AloneInvariant == ~overlapped => ConnectionsKept /\ NewestKept
=============================================================================
