------------------------- MODULE GraphProjectionProofs -------------------------
(***************************************************************************)
(* The graph shows only packages that were stored as current, for any      *)
(* connections, Epics, publications and callbacks at once; and while no    *)
(* two of them overlap, removals and selections stick and the graph        *)
(* catches up, wherever one is cut short.                                  *)
(***************************************************************************)
EXTENDS GraphProjection, TLAPS

RunState ==
  [step : RunStep, cx : GraphCx \cup {NoCx}, epic : Epic, publication : Nat,
   state : SupplierReceiptState]
ChangeState ==
  [step : ChangeStep, cx : GraphCx \cup {NoCx}, state : SupplierReceiptState]

\* No package, or one that was stored for the connection.
SavedFor(cx, state) ==
  state.currentPackage # NoPackage => state.currentPackage \in saved[cx]

\* An invocation at work has a connection; a publication about to save has a
\* package; what is about to be indexed was stored.
RunsSaved ==
  \A r \in Run :
    /\ run[r].step # "idle" => run[r].cx \in GraphCx
    /\ run[r].step = "saving" => run[r].state.currentPackage # NoPackage
    /\ run[r].step = "indexing" => SavedFor(run[r].cx, run[r].state)

ChangesSaved ==
  \A k \in Change :
    /\ change[k].step # "idle" => change[k].cx \in GraphCx
    /\ change[k].step = "indexing" => SavedFor(change[k].cx, change[k].state)

StoredSaved == \A cx \in GraphCx : SavedFor(cx, receipt[cx])

Inv == TypeOK /\ RunsSaved /\ ChangesSaved /\ StoredSaved /\ IndexedWasCurrent

-----------------------------------------------------------------------------
LEMMA EmptyState ==
  /\ emptySupplierReceiptState \in SupplierReceiptState
  /\ emptySupplierReceiptState.currentPackage = NoPackage
  BY DEF emptySupplierReceiptState, SupplierReceiptState

LEMMA IdleType ==
  /\ IdleRun \in RunState /\ IdleRun.step = "idle"
  /\ IdleChange \in ChangeState /\ IdleChange.step = "idle"
<1>1. (CHOOSE e \in Epic : TRUE) \in Epic
  BY ProjectionAssumption
<1>2. QED
  BY <1>1, EmptyState DEF IdleRun, IdleChange, RunState, ChangeState, RunStep,
     ChangeStep

\* Promotion makes a package current that is one.
LEMMA PromoteType ==
  ASSUME NEW state \in SupplierReceiptState, NEW epic \in Epic,
         NEW publication \in Nat
  PROVE  /\ Promote(state, epic, publication) \in SupplierReceiptState
         /\ Promote(state, epic, publication).currentPackage # NoPackage
<1>1. nextVersion(state, epic) \in Nat
  BY DEF nextVersion, SupplierReceiptState, Package
<1>2. [epic |-> epic, version |-> nextVersion(state, epic),
       publication |-> publication] \in Package
  BY <1>1 DEF Package
<1>3. NoPackage \notin Package
  BY ProjectionAssumption DEF Package
<1>4. QED
  BY <1>2, <1>3 DEF Promote, SupplierReceiptState

\* An invocation moves on, and keeps its connection.
LEMMA RunMoves ==
  ASSUME run \in [Run -> RunState], NEW r \in Run, NEW step \in RunStep,
         NEW state \in SupplierReceiptState, RunGoes(r, step, state)
  PROVE  /\ run' \in [Run -> RunState]
         /\ run'[r].step = step /\ run'[r].state = state /\ run'[r].cx = run[r].cx
         /\ run'[r].epic = run[r].epic /\ run'[r].publication = run[r].publication
         /\ \A q \in Run \ {r} : run'[q] = run[q]
<1>1. run[r] \in RunState
  OBVIOUS
<1> DEFINE next == [run[r] EXCEPT !.step = step, !.state = state]
<1>2. /\ next \in RunState /\ next.step = step /\ next.state = state
      /\ next.cx = run[r].cx /\ next.epic = run[r].epic
      /\ next.publication = run[r].publication
  BY <1>1 DEF RunState
<1>3. run' = [run EXCEPT ![r] = next]
  BY DEF RunGoes
<1> HIDE DEF next
<1>4. QED
  BY <1>2, <1>3

LEMMA ChangeMoves ==
  ASSUME change \in [Change -> ChangeState], NEW k \in Change,
         NEW step \in ChangeStep, NEW state \in SupplierReceiptState,
         ChangeGoes(k, step, state)
  PROVE  /\ change' \in [Change -> ChangeState]
         /\ change'[k].step = step /\ change'[k].state = state
         /\ change'[k].cx = change[k].cx
         /\ \A q \in Change \ {k} : change'[q] = change[q]
<1>1. change[k] \in ChangeState
  OBVIOUS
<1> DEFINE next == [change[k] EXCEPT !.step = step, !.state = state]
<1>2. /\ next \in ChangeState /\ next.step = step /\ next.state = state
      /\ next.cx = change[k].cx
  BY <1>1 DEF ChangeState
<1>3. change' = [change EXCEPT ![k] = next]
  BY DEF ChangeGoes
<1> HIDE DEF next
<1>4. QED
  BY <1>2, <1>3

\* Indexing shows the package it is given, keeps what is shown, or removes it.
LEMMA IngestShows ==
  ASSUME TypeOK, IndexedWasCurrent, NEW cx \in GraphCx,
         NEW state \in SupplierReceiptState, SavedFor(cx, state),
         Ingest(cx, state), saved' = saved
  PROVE  /\ indexed' \in [GraphCx -> [Epic -> Package \cup {NoPackage}]]
         /\ IndexedWasCurrent'
<1> DEFINE package == state.currentPackage
<1>1. CASE package = NoPackage
  BY <1>1 DEF Ingest, IndexedWasCurrent, TypeOK
<1>2. CASE package # NoPackage
  <2>1. package \in Package /\ package.epic \in Epic /\ package \in saved[cx]
    BY <1>2 DEF SupplierReceiptState, Package, SavedFor
  <2>2. PICK shown \in {NoPackage, indexed[cx][package.epic], package} :
          indexed' = [indexed EXCEPT ![cx] = [indexed[cx] EXCEPT ![package.epic] = shown]]
    BY <1>2 DEF Ingest, AfterSetObjects
  <2>3. indexed[cx] \in [Epic -> Package \cup {NoPackage}]
    BY DEF TypeOK
  <2>4. shown \in Package \cup {NoPackage}
    BY <2>1, <2>2, <2>3
  <2>5. shown # NoPackage => shown \in saved[cx]
    BY <2>1, <2>2 DEF IndexedWasCurrent
  <2>6. [indexed[cx] EXCEPT ![package.epic] = shown] \in [Epic -> Package \cup {NoPackage}]
    BY <2>3, <2>4
  <2>7. indexed' \in [GraphCx -> [Epic -> Package \cup {NoPackage}]]
    BY <2>2, <2>6 DEF TypeOK
  <2>8. IndexedWasCurrent'
    <3> SUFFICES ASSUME NEW x \in GraphCx, NEW e \in Epic, indexed'[x][e] # NoPackage
                 PROVE  indexed'[x][e] \in saved[x]
      BY DEF IndexedWasCurrent
    <3>1. indexed'[x][e] = (IF x = cx /\ e = package.epic THEN shown ELSE indexed[x][e])
      BY <2>2, <2>3 DEF TypeOK
    <3>2. QED
      BY <2>5, <3>1 DEF IndexedWasCurrent
  <2>9. QED
    BY <2>7, <2>8
<1>3. QED
  BY <1>1, <1>2

\* The type invariant, by the names used here.
LEMMA Typed ==
  TypeOK <=>
    /\ receipt \in [GraphCx -> SupplierReceiptState]
    /\ active \in GraphCx \cup {NoCx}
    /\ indexed \in [GraphCx -> [Epic -> Package \cup {NoPackage}]]
    /\ run \in [Run -> RunState] /\ change \in [Change -> ChangeState]
    /\ connection \in [GraphCx -> {"unknown", "live", "gone"}]
    /\ published \in Nat
    /\ saved \in [GraphCx -> SUBSET Package]
    /\ latest \in GraphCx \cup {NoCx}
    /\ overlapped \in BOOLEAN /\ interrupted \subseteq GraphCx
  BY DEF TypeOK, RunState, ChangeState

-----------------------------------------------------------------------------
LEMMA InitInv == Init => Inv
<1> SUFFICES ASSUME Init PROVE Inv
  OBVIOUS
<1>1. TypeOK
  BY EmptyState, IdleType, Typed DEF Init
<1>2. RunsSaved /\ ChangesSaved
  <2>1. \A r \in Run : run[r].step = "idle"
    BY IdleType DEF Init
  <2>2. \A k \in Change : change[k].step = "idle"
    BY IdleType DEF Init
  <2>3. QED
    BY <2>1, <2>2 DEF RunsSaved, ChangesSaved
<1>3. StoredSaved /\ IndexedWasCurrent
  BY EmptyState DEF Init, StoredSaved, SavedFor, IndexedWasCurrent
<1>4. QED
  BY <1>1, <1>2, <1>3 DEF Inv

\* Everything but the publications.
LEMMA RunsApart ==
  ASSUME UNCHANGED <<receipt, change, saved, indexed>>
  PROVE  /\ ChangesSaved => ChangesSaved'
         /\ StoredSaved => StoredSaved'
         /\ IndexedWasCurrent => IndexedWasCurrent'
  BY DEF ChangesSaved, StoredSaved, IndexedWasCurrent, SavedFor

\* Everything but the callbacks.
LEMMA ChangesApart ==
  ASSUME UNCHANGED <<run, saved>>
  PROVE  RunsSaved => RunsSaved'
  BY DEF RunsSaved, SavedFor

LEMMA PublishingStep ==
  ASSUME Inv, NEW r \in Run, Publishing(r)
  PROVE  Inv'
<1> USE DEF Inv
<1>0. /\ run \in [Run -> RunState] /\ receipt \in [GraphCx -> SupplierReceiptState]
      /\ saved \in [GraphCx -> SUBSET Package]
      /\ run[r] \in RunState
  BY Typed
<1>1. ASSUME NEW epic \in Epic, BeginPublish(r, epic)
      PROVE  Inv'
  <2> DEFINE next == [IdleRun EXCEPT !.step = "promoting", !.cx = active,
                                     !.epic = epic, !.publication = published + 1]
  <2>1. run' = [run EXCEPT ![r] = next] /\ active # NoCx
    BY <1>1 DEF BeginPublish
  <2>2. active \in GraphCx /\ published + 1 \in Nat
    BY <2>1, Typed
  <2>3. next \in RunState /\ next.step = "promoting" /\ next.cx = active
    BY <2>2, IdleType DEF RunState, RunStep
  <2> HIDE DEF next
  <2>4. run' \in [Run -> RunState]
    BY <1>0, <2>1, <2>3
  <2>5. /\ UNCHANGED <<receipt, active, indexed, change, connection, saved, latest,
                       interrupted>>
        /\ published' \in Nat /\ overlapped' \in BOOLEAN
    BY <1>1, <2>2, Typed DEF BeginPublish, NoteOverlap
  <2>6. TypeOK'
    BY <2>4, <2>5 DEF TypeOK, RunState
  <2>7. RunsSaved'
    BY <1>0, <2>1, <2>2, <2>3, <2>5 DEF RunsSaved, SavedFor
  <2>8. QED
    BY <2>5, <2>6, <2>7, RunsApart
<1>2. CASE PromotePackage(r)
  <2>1. run[r].cx \in GraphCx
    BY <1>2 DEF PromotePackage, RunsSaved
  <2>2. /\ Promotion(r) \in SupplierReceiptState
        /\ Promotion(r).currentPackage # NoPackage
    BY <1>0, <2>1, PromoteType DEF Promotion, RunState
  <2>3. /\ run' \in [Run -> RunState]
        /\ run'[r].step = "saving" /\ run'[r].state = Promotion(r)
        /\ run'[r].cx = run[r].cx
        /\ \A q \in Run \ {r} : run'[q] = run[q]
    <3>1. "saving" \in RunStep /\ RunGoes(r, "saving", Promotion(r))
      BY <1>2 DEF PromotePackage, RunStep
    <3>2. QED
      BY <1>0, <2>2, <3>1, RunMoves
  <2>4. UNCHANGED <<receipt, active, indexed, change, connection, published,
                    saved, latest, overlapped, interrupted>>
    BY <1>2 DEF PromotePackage
  <2>5. TypeOK'
    BY <2>3, <2>4 DEF TypeOK, RunState
  <2>6. RunsSaved'
    BY <2>1, <2>2, <2>3, <2>4 DEF RunsSaved, SavedFor
  <2>7. QED
    BY <2>4, <2>5, <2>6, RunsApart
<1>3. CASE SavePromotion(r)
  <2> DEFINE cx == run[r].cx
             state == run[r].state
  <2>1. /\ cx \in GraphCx /\ state \in SupplierReceiptState
        /\ state.currentPackage # NoPackage /\ state.currentPackage \in Package
    BY <1>0, <1>3 DEF SavePromotion, RunsSaved, RunState, SupplierReceiptState
  <2>2. /\ receipt' = [receipt EXCEPT ![cx] = state]
        /\ saved' = [saved EXCEPT ![cx] = saved[cx] \cup {state.currentPackage}]
        /\ UNCHANGED <<active, indexed, change, connection, published, latest,
                       overlapped, interrupted>>
        /\ RunGoes(r, "rereading", emptySupplierReceiptState)
    BY <1>3 DEF SavePromotion
  <2>3. /\ run' \in [Run -> RunState]
        /\ run'[r].step = "rereading" /\ run'[r].cx = cx
        /\ \A q \in Run \ {r} : run'[q] = run[q]
    <3>1. "rereading" \in RunStep
      BY DEF RunStep
    <3>2. QED
      BY <1>0, <2>2, <3>1, EmptyState, RunMoves
  <2> HIDE DEF cx, state
  <2>4. \A x \in GraphCx : saved[x] \subseteq saved'[x]
    BY <1>0, <2>1, <2>2
  <2>5. TypeOK'
    <3>1. saved' \in [GraphCx -> SUBSET Package]
      BY <1>0, <2>1, <2>2
    <3>2. receipt' \in [GraphCx -> SupplierReceiptState]
      BY <1>0, <2>1, <2>2
    <3>3. QED
      BY <2>2, <2>3, <3>1, <3>2 DEF TypeOK, RunState
  <2>6. RunsSaved'
    BY <2>1, <2>3, <2>4 DEF RunsSaved, SavedFor
  <2>7. ChangesSaved'
    BY <2>2, <2>4 DEF ChangesSaved, SavedFor
  <2>8. StoredSaved'
    <3>1. \A x \in GraphCx : receipt'[x] = (IF x = cx THEN state ELSE receipt[x])
      BY <1>0, <2>2
    <3>2. state.currentPackage \in saved'[cx]
      BY <1>0, <2>1, <2>2
    <3>3. QED
      BY <2>4, <3>1, <3>2 DEF StoredSaved, SavedFor
  <2>9. IndexedWasCurrent'
    BY <2>2, <2>4 DEF IndexedWasCurrent
  <2>10. QED
    BY <2>5, <2>6, <2>7, <2>8, <2>9
<1>4. CASE ReadBack(r)
  <2>1. run[r].cx \in GraphCx /\ receipt[run[r].cx] \in SupplierReceiptState
    BY <1>0, <1>4 DEF ReadBack, RunsSaved
  <2>2. /\ run' \in [Run -> RunState]
        /\ run'[r].step = "indexing" /\ run'[r].state = receipt[run[r].cx]
        /\ run'[r].cx = run[r].cx
        /\ \A q \in Run \ {r} : run'[q] = run[q]
    <3>1. "indexing" \in RunStep /\ RunGoes(r, "indexing", receipt[run[r].cx])
      BY <1>4 DEF ReadBack, RunStep
    <3>2. QED
      BY <1>0, <2>1, <3>1, RunMoves
  <2>3. UNCHANGED <<receipt, active, indexed, change, connection, published,
                    saved, latest, overlapped, interrupted>>
    BY <1>4 DEF ReadBack
  <2>4. TypeOK'
    BY <2>2, <2>3 DEF TypeOK, RunState
  <2>5. RunsSaved'
    BY <2>1, <2>2, <2>3 DEF RunsSaved, StoredSaved, SavedFor
  <2>6. QED
    BY <2>3, <2>4, <2>5, RunsApart
<1>5. CASE IndexPromotion(r) \/ KillRun(r)
  <2>1. /\ run' = [run EXCEPT ![r] = IdleRun]
        /\ UNCHANGED <<receipt, active, change, connection, published, saved,
                       latest, overlapped>>
        /\ run[r].step # "idle"
    BY <1>5 DEF IndexPromotion, KillRun
  <2>2. run[r].cx \in GraphCx /\ run[r].state \in SupplierReceiptState
    BY <1>0, <2>1 DEF RunsSaved, RunState
  <2>3. /\ indexed' \in [GraphCx -> [Epic -> Package \cup {NoPackage}]]
        /\ IndexedWasCurrent'
    <3>1. CASE IndexPromotion(r)
      <4>1. /\ Ingest(run[r].cx, run[r].state) /\ saved' = saved
            /\ SavedFor(run[r].cx, run[r].state)
        BY <3>1 DEF IndexPromotion, RunsSaved
      <4>2. QED
        BY <2>2, <4>1, IngestShows
    <3>2. CASE KillRun(r)
      BY <3>2, Typed DEF KillRun, IndexedWasCurrent
    <3>3. QED
      BY <1>5, <3>1, <3>2
  <2>4. interrupted' \subseteq GraphCx
    BY <1>5, <2>2, Typed DEF IndexPromotion, KillRun, Healed
  <2>5. run' \in [Run -> RunState]
    BY <1>0, <2>1, IdleType
  <2>6. TypeOK'
    BY <2>1, <2>3, <2>4, <2>5 DEF TypeOK, RunState
  <2>7. RunsSaved'
    BY <1>0, <2>1, IdleType DEF RunsSaved, SavedFor
  <2>8. ChangesSaved' /\ StoredSaved'
    BY <2>1 DEF ChangesSaved, StoredSaved, SavedFor
  <2>9. QED
    BY <2>3, <2>6, <2>7, <2>8
<1>6. QED
  BY <1>1, <1>2, <1>3, <1>4, <1>5 DEF Publishing

LEMMA ChangeStepInv ==
  ASSUME Inv, NEW k \in Change, ConnectionChange(k)
  PROVE  Inv'
<1> USE DEF Inv
<1>0. /\ change \in [Change -> ChangeState]
      /\ receipt \in [GraphCx -> SupplierReceiptState]
      /\ saved \in [GraphCx -> SUBSET Package]
      /\ change[k] \in ChangeState
  BY Typed
<1>1. ASSUME NEW cx \in GraphCx, CreatedOrUpdated(k, cx) \/ Deleted(k, cx)
      PROVE  Inv'
  <2>1. PICK step \in {"selecting", "checking"}, to \in {"live", "gone"} :
          /\ change' = [change EXCEPT ![k] = [IdleChange EXCEPT !.step = step, !.cx = cx]]
          /\ connection' = [connection EXCEPT ![cx] = to]
          /\ NoteOverlap
          /\ UNCHANGED <<receipt, active, indexed, run, published, saved, latest,
                         interrupted>>
    BY <1>1 DEF CreatedOrUpdated, Deleted, BeginChange
  <2> DEFINE next == [IdleChange EXCEPT !.step = step, !.cx = cx]
  <2>2. next \in ChangeState /\ next.step = step /\ next.cx = cx
    BY IdleType DEF ChangeState, ChangeStep
  <2> HIDE DEF next
  <2>3. change' = [change EXCEPT ![k] = next]
    BY <2>1 DEF next
  <2>4. change' \in [Change -> ChangeState]
    BY <1>0, <2>2, <2>3
  <2>5. connection' \in [GraphCx -> {"unknown", "live", "gone"}] /\ overlapped' \in BOOLEAN
    BY <2>1, Typed DEF NoteOverlap
  <2>6. TypeOK'
    BY <2>1, <2>4, <2>5 DEF TypeOK, ChangeState
  <2>7. ChangesSaved'
    BY <1>0, <2>1, <2>2, <2>3 DEF ChangesSaved, SavedFor
  <2>8. StoredSaved' /\ IndexedWasCurrent' /\ RunsSaved'
    BY <2>1, ChangesApart DEF StoredSaved, IndexedWasCurrent, SavedFor
  <2>9. QED
    BY <2>6, <2>7, <2>8
<1>2. ASSUME NEW step \in ChangeStep, NEW state \in SupplierReceiptState,
             change[k].step # "idle", ChangeGoes(k, step, state),
             step = "indexing" => SavedFor(change[k].cx, state),
             active' \in GraphCx \cup {NoCx}, latest' \in GraphCx \cup {NoCx},
             UNCHANGED <<receipt, indexed, run, connection, published, saved,
                         overlapped, interrupted>>
      PROVE  Inv'
  <2>1. /\ change' \in [Change -> ChangeState]
        /\ change'[k].step = step /\ change'[k].state = state
        /\ change'[k].cx = change[k].cx
        /\ \A q \in Change \ {k} : change'[q] = change[q]
    BY <1>0, <1>2, ChangeMoves
  <2>2. TypeOK'
    BY <1>2, <2>1 DEF TypeOK, ChangeState
  <2>3. ChangesSaved'
    BY <1>2, <2>1 DEF ChangesSaved, SavedFor
  <2>4. StoredSaved' /\ IndexedWasCurrent' /\ RunsSaved'
    BY <1>2, ChangesApart DEF StoredSaved, IndexedWasCurrent, SavedFor
  <2>5. QED
    BY <2>2, <2>3, <2>4
<1>3. CASE SelectConnection(k)
  <2>1. change[k].cx \in GraphCx
    BY <1>3 DEF SelectConnection, ChangesSaved
  <2>2. "reading" \in ChangeStep
    BY DEF ChangeStep
  <2>3. QED
    BY <1>2, <1>3, <2>1, <2>2, EmptyState DEF SelectConnection
<1>4. CASE ReadStored(k)
  <2>1. change[k].cx \in GraphCx /\ receipt[change[k].cx] \in SupplierReceiptState
    BY <1>0, <1>4 DEF ReadStored, ChangesSaved
  <2>2. SavedFor(change[k].cx, receipt[change[k].cx])
    BY <2>1 DEF StoredSaved
  <2>3. "indexing" \in ChangeStep /\ active' \in GraphCx \cup {NoCx}
        /\ latest' \in GraphCx \cup {NoCx}
    BY <1>4, Typed DEF ChangeStep, ReadStored
  <2>4. QED
    BY <1>2, <1>4, <2>1, <2>2, <2>3 DEF ReadStored
<1>5. CASE CheckActive(k) \/ ClearActive(k)
  <2>1. PICK step \in {"clearing", "forgetting"} :
          /\ change[k].step # "idle"
          /\ ChangeGoes(k, step, emptySupplierReceiptState)
          /\ UNCHANGED <<receipt, indexed, run, connection, published, saved,
                         latest, overlapped, interrupted>>
          /\ active' \in {active, NoCx}
    BY <1>5 DEF CheckActive, ClearActive
  <2>2. step \in ChangeStep /\ active' \in GraphCx \cup {NoCx}
        /\ latest' \in GraphCx \cup {NoCx}
    BY <2>1, Typed DEF ChangeStep
  <2>3. QED
    BY <1>2, <2>1, <2>2, EmptyState
<1>6. CASE IndexStored(k) \/ Forget(k) \/ KillChange(k)
  <2>1. /\ change' = [change EXCEPT ![k] = IdleChange]
        /\ UNCHANGED <<active, run, connection, published, saved, latest, overlapped>>
        /\ change[k].step # "idle"
    BY <1>6 DEF IndexStored, Forget, KillChange
  <2>2. change[k].cx \in GraphCx /\ change[k].state \in SupplierReceiptState
    BY <1>0, <2>1 DEF ChangesSaved, ChangeState
  <2>3. /\ indexed' \in [GraphCx -> [Epic -> Package \cup {NoPackage}]]
        /\ IndexedWasCurrent'
    <3>1. CASE IndexStored(k)
      <4>1. /\ Ingest(change[k].cx, change[k].state) /\ saved' = saved
            /\ SavedFor(change[k].cx, change[k].state)
        BY <3>1 DEF IndexStored, ChangesSaved
      <4>2. QED
        BY <2>2, <4>1, IngestShows
    <3>2. CASE Forget(k) \/ KillChange(k)
      BY <3>2, Typed DEF Forget, KillChange, IndexedWasCurrent
    <3>3. QED
      BY <1>6, <3>1, <3>2
  <2>4. /\ receipt' \in [GraphCx -> SupplierReceiptState]
        /\ StoredSaved'
    <3>1. CASE receipt' = receipt
      BY <1>0, <2>1, <3>1 DEF StoredSaved, SavedFor
    <3>2. CASE receipt' = [receipt EXCEPT ![change[k].cx] = emptySupplierReceiptState]
      BY <1>0, <2>1, <2>2, <3>2, EmptyState DEF StoredSaved, SavedFor
    <3>3. QED
      BY <1>6, <3>1, <3>2 DEF IndexStored, Forget, KillChange
  <2>5. interrupted' \subseteq GraphCx
    BY <1>6, <2>2, Typed DEF IndexStored, Forget, KillChange, Healed
  <2>6. change' \in [Change -> ChangeState]
    BY <1>0, <2>1, IdleType
  <2>7. TypeOK'
    BY <2>1, <2>3, <2>4, <2>5, <2>6 DEF TypeOK, ChangeState
  <2>8. ChangesSaved'
    BY <1>0, <2>1, IdleType DEF ChangesSaved, SavedFor
  <2>9. QED
    BY <2>1, <2>3, <2>4, <2>7, <2>8, ChangesApart
<1>7. QED
  BY <1>1, <1>3, <1>4, <1>5, <1>6 DEF ConnectionChange

LEMMA StepInv == Inv /\ [Next]_vars => Inv'
<1> SUFFICES ASSUME Inv, [Next]_vars PROVE Inv'
  OBVIOUS
<1>1. CASE UNCHANGED vars
  <2>1. TypeOK'
    BY <1>1 DEF vars, Inv, TypeOK
  <2>2. QED
    BY <1>1, <2>1, RunsApart, ChangesApart DEF vars, Inv
<1>2. QED
  BY <1>1, PublishingStep, ChangeStepInv DEF Next

-----------------------------------------------------------------------------
\* The stored states, and what publications and callbacks hold of them, are
\* receipt states.
THEOREM ProjectionTyped == Spec => []TypeOK
<1>1. Inv => TypeOK
  BY DEF Inv
<1>2. QED
  BY <1>1, InitInv, StepInv, PTL DEF Spec

\* However publications and callbacks interleave and wherever they end, the
\* graph shows nothing of a connection that was not stored as its current
\* package first.
THEOREM NothingElseShown == Spec => []IndexedWasCurrent
<1>1. Inv => IndexedWasCurrent
  BY DEF Inv
<1>2. QED
  BY <1>1, InitInv, StepInv, PTL DEF Spec

-----------------------------------------------------------------------------
(* What holds while no invocation begins beside another.  A step of the    *)
(* one invocation at work disturbs only what it writes itself.             *)

Kept == ~overlapped => ConnectionsKept

\* An invocation that begins alone.
LEMMA BeginsAlone ==
  ASSUME TypeOK, NoteOverlap, ~overlapped'
  PROVE  ~overlapped /\ AtWork = {} /\ Changing = {}
  BY DEF NoteOverlap, TypeOK

LEMMA PublishBegins ==
  ASSUME Inv, NEW r \in Run, NEW epic \in Epic, BeginPublish(r, epic)
  PROVE  /\ active \in GraphCx /\ published' = published + 1
         /\ run'[r].step = "promoting" /\ run'[r].cx = active
         /\ run'[r].epic = epic /\ run'[r].publication = published + 1
         /\ \A q \in Run \ {r} : run'[q] = run[q]
         /\ UNCHANGED <<receipt, active, indexed, change, connection, saved,
                        latest, interrupted>>
<1> DEFINE next == [IdleRun EXCEPT !.step = "promoting", !.cx = active,
                                   !.epic = epic, !.publication = published + 1]
<1>1. next.step = "promoting" /\ next.cx = active /\ next.epic = epic
      /\ next.publication = published + 1
  BY DEF IdleRun
<1>2. run' = [run EXCEPT ![r] = next]
  BY DEF BeginPublish
<1> HIDE DEF next
<1>3. run \in [Run -> RunState] /\ active \in GraphCx
  BY Typed DEF Inv, BeginPublish
<1>4. QED
  BY <1>1, <1>2, <1>3 DEF BeginPublish

LEMMA ChangeBegins ==
  ASSUME Inv, NEW k \in Change, NEW cx \in GraphCx, NEW from, NEW to, NEW step,
         BeginChange(k, cx, from, to, step)
  PROVE  /\ change'[k].step = step /\ change'[k].cx = cx
         /\ \A q \in Change \ {k} : change'[q] = change[q]
         /\ connection'[cx] = to
         /\ \A x \in GraphCx \ {cx} : connection'[x] = connection[x]
         /\ UNCHANGED <<receipt, active, indexed, run, published, saved, latest,
                        interrupted>>
<1> DEFINE next == [IdleChange EXCEPT !.step = step, !.cx = cx]
<1>1. next.step = step /\ next.cx = cx
  BY DEF IdleChange
<1>2. change' = [change EXCEPT ![k] = next]
  BY DEF BeginChange
<1> HIDE DEF next
<1>3. /\ change \in [Change -> ChangeState]
      /\ connection \in [GraphCx -> {"unknown", "live", "gone"}]
  BY Typed DEF Inv
<1>4. QED
  BY <1>1, <1>2, <1>3 DEF BeginChange

\* The invocation at work is the only one, before a step of it and after.
LEMMA RunOnly ==
  ASSUME ConnectionsKept, NEW r \in Run, run[r].step # "idle",
         change' = change, \A q \in Run \ {r} : run'[q] = run[q]
  PROVE  /\ AtWork = {r} /\ Changing = {} /\ RunAlone(r)
         /\ AtWork' = {q \in {r} : run'[r].step # "idle"} /\ Changing' = {}
<1>1. r \in AtWork
  BY DEF AtWork
<1>2. AtWork = {r} /\ Changing = {}
  BY <1>1 DEF ConnectionsKept, OneAtWork
<1>3. Changing' = {}
  BY <1>2 DEF Changing
<1>4. AtWork' = {q \in {r} : run'[r].step # "idle"}
  BY <1>2 DEF AtWork
<1>5. QED
  BY <1>1, <1>2, <1>3, <1>4 DEF ConnectionsKept

LEMMA ChangeOnly ==
  ASSUME ConnectionsKept, NEW k \in Change, change[k].step # "idle",
         run' = run, \A q \in Change \ {k} : change'[q] = change[q]
  PROVE  /\ Changing = {k} /\ AtWork = {} /\ ChangeAlone(k)
         /\ Changing' = {q \in {k} : change'[k].step # "idle"} /\ AtWork' = {}
<1>1. k \in Changing
  BY DEF Changing
<1>2. Changing = {k} /\ AtWork = {}
  BY <1>1 DEF ConnectionsKept, OneAtWork
<1>3. AtWork' = {}
  BY <1>2 DEF AtWork
<1>4. Changing' = {q \in {k} : change'[k].step # "idle"}
  BY <1>2 DEF Changing
<1>5. QED
  BY <1>1, <1>2, <1>3, <1>4 DEF ConnectionsKept

\* A step of a publication selects and removes no connection, and writes only
\* to one that is not gone, or is left half removed.
LEMMA RunStepKept ==
  ASSUME ConnectionsKept, NEW r \in Run, run[r].step # "idle",
         \A q \in Run \ {r} : run'[q] = run[q],
         UNCHANGED <<active, latest, change, connection>>,
         run'[r].step # "idle" => RunAlone(r)',
         \A cx \in GraphCx : connection[cx] = "gone" /\ cx \notin interrupted' =>
                               cx \notin interrupted /\ receipt'[cx] = receipt[cx]
  PROVE  ConnectionsKept'
<1>1. /\ Changing = {} /\ Changing' = {}
      /\ AtWork' = {q \in {r} : run'[r].step # "idle"}
  BY RunOnly
<1>2. OneAtWork'
  BY <1>1 DEF OneAtWork
<1>3. SelectedKnown'
  BY DEF ConnectionsKept, SelectedKnown
<1>4. \A cx \in GraphCx : Removed(cx)'
  BY <1>1 DEF ConnectionsKept, Removed
<1>5. QED
  BY <1>1, <1>2, <1>3, <1>4 DEF ConnectionsKept

LEMMA ChangeStepKept ==
  ASSUME ConnectionsKept, NEW k \in Change, change[k].step # "idle",
         \A q \in Change \ {k} : change'[q] = change[q],
         UNCHANGED run, change'[k].step # "idle" => ChangeAlone(k)',
         SelectedKnown', \A cx \in GraphCx : Removed(cx)'
  PROVE  ConnectionsKept'
<1>1. /\ AtWork' = {}
      /\ Changing' = {q \in {k} : change'[k].step # "idle"}
  BY ChangeOnly
<1>2. OneAtWork'
  BY <1>1 DEF OneAtWork
<1>3. QED
  BY <1>1, <1>2 DEF ConnectionsKept

\* Before the end of a callback that keeps its connection, or removes one that
\* had to go, every other connection is as it was.
LEMMA RemovedElsewhere ==
  ASSUME ConnectionsKept, NEW k \in Change, change[k].step # "idle",
         NEW cx \in GraphCx, cx # change[k].cx,
         connection[cx] = "gone", cx \notin interrupted
  PROVE  active # cx /\ receipt[cx] = emptySupplierReceiptState
<1>1. k \in Changing /\ \A j \in Changing : j = k
  BY DEF Changing, ConnectionsKept, OneAtWork
<1>2. QED
  BY <1>1 DEF ConnectionsKept, Removed

LEMMA BeginPublishKept ==
  ASSUME Inv, Kept, NEW r \in Run, NEW epic \in Epic, BeginPublish(r, epic),
         ~overlapped'
  PROVE  ConnectionsKept'
<1>1. ~overlapped /\ AtWork = {} /\ Changing = {} /\ ConnectionsKept
  BY BeginsAlone DEF Inv, BeginPublish, Kept
<1>2. /\ active \in GraphCx /\ published' = published + 1
      /\ run'[r].step = "promoting" /\ run'[r].cx = active
      /\ run'[r].publication = published + 1
      /\ \A q \in Run \ {r} : run'[q] = run[q]
      /\ UNCHANGED <<receipt, active, indexed, change, connection, saved,
                     latest, interrupted>>
  BY PublishBegins
<1>3. AtWork' = {r} /\ Changing' = {}
  BY <1>1, <1>2 DEF AtWork, Changing
<1>4. connection[active] = "gone" => active \in interrupted
  BY <1>1, <1>2 DEF ConnectionsKept, Removed
<1>5. RunAlone(r)'
  BY <1>2, <1>4 DEF RunAlone
<1>6. OneAtWork'
  BY <1>3 DEF OneAtWork
<1>7. SelectedKnown'
  BY <1>1, <1>2 DEF ConnectionsKept, SelectedKnown
<1>8. \A cx \in GraphCx : Removed(cx)'
  BY <1>1, <1>2 DEF ConnectionsKept, Removed
<1>9. QED
  BY <1>3, <1>5, <1>6, <1>7, <1>8 DEF ConnectionsKept

LEMMA PublishingKept ==
  ASSUME Inv, Kept, NEW r \in Run, Publishing(r), ~overlapped'
  PROVE  ConnectionsKept'
<1>0. /\ run \in [Run -> RunState] /\ receipt \in [GraphCx -> SupplierReceiptState]
      /\ run[r] \in RunState /\ published \in Nat
  BY Typed DEF Inv
<1>1. ASSUME NEW epic \in Epic, BeginPublish(r, epic)
      PROVE  ConnectionsKept'
  BY <1>1, BeginPublishKept
<1>2. ASSUME run[r].step # "idle", overlapped' = overlapped
      PROVE  /\ ConnectionsKept /\ RunAlone(r) /\ run[r].cx \in GraphCx
             /\ active = run[r].cx
             /\ connection[run[r].cx] = "gone" => run[r].cx \in interrupted
  <2>1. ConnectionsKept
    BY <1>2 DEF Kept
  <2>2. RunAlone(r)
    BY <1>2, <2>1 DEF ConnectionsKept, AtWork
  <2>3. run[r].cx \in GraphCx
    BY <1>2 DEF Inv, RunsSaved
  <2>4. QED
    BY <2>1, <2>2, <2>3 DEF RunAlone
<1>3. CASE PromotePackage(r)
  <2>1. /\ run[r].step # "idle" /\ RunGoes(r, "saving", Promotion(r))
        /\ UNCHANGED <<receipt, active, indexed, change, connection, published,
                       saved, latest, overlapped, interrupted>>
    BY <1>3 DEF PromotePackage
  <2>2. ConnectionsKept /\ RunAlone(r) /\ run[r].cx \in GraphCx
    BY <1>2, <2>1
  <2>3. Promotion(r) \in SupplierReceiptState
    BY <1>0, <2>2, PromoteType DEF Promotion, RunState
  <2>4. /\ run'[r].step = "saving" /\ run'[r].state = Promotion(r)
        /\ run'[r].cx = run[r].cx /\ run'[r].epic = run[r].epic
        /\ run'[r].publication = run[r].publication
        /\ \A q \in Run \ {r} : run'[q] = run[q]
    BY <1>0, <2>1, <2>3, RunMoves DEF RunStep
  <2>5. Promotion(r)' = Promotion(r)
    BY <2>1, <2>4 DEF Promotion
  <2>6. RunAlone(r)'
    BY <2>1, <2>2, <2>4, <2>5 DEF RunAlone
  <2>7. QED
    BY <2>1, <2>2, <2>4, <2>6, RunStepKept
<1>4. CASE SavePromotion(r)
  <2>1. /\ run[r].step # "idle"
        /\ receipt' = [receipt EXCEPT ![run[r].cx] = run[r].state]
        /\ RunGoes(r, "rereading", emptySupplierReceiptState)
        /\ UNCHANGED <<active, indexed, change, connection, published, latest,
                       overlapped, interrupted>>
    BY <1>4 DEF SavePromotion
  <2>2. /\ ConnectionsKept /\ RunAlone(r) /\ run[r].cx \in GraphCx
        /\ connection[run[r].cx] = "gone" => run[r].cx \in interrupted
    BY <1>2, <2>1
  <2>3. /\ run'[r].step = "rereading"
        /\ run'[r].cx = run[r].cx /\ run'[r].publication = run[r].publication
        /\ \A q \in Run \ {r} : run'[q] = run[q]
    BY <1>0, <2>1, EmptyState, RunMoves DEF RunStep
  <2>4. \A cx \in GraphCx : cx # run[r].cx => receipt'[cx] = receipt[cx]
    BY <1>0, <2>1
  <2>5. RunAlone(r)'
    BY <2>1, <2>2, <2>3 DEF RunAlone
  <2>6. QED
    BY <2>1, <2>2, <2>3, <2>4, <2>5, RunStepKept
<1>5. CASE ReadBack(r)
  <2>1. /\ run[r].step # "idle" /\ RunGoes(r, "indexing", receipt[run[r].cx])
        /\ UNCHANGED <<receipt, active, indexed, change, connection, published,
                       saved, latest, overlapped, interrupted>>
    BY <1>5 DEF ReadBack
  <2>2. ConnectionsKept /\ RunAlone(r) /\ run[r].cx \in GraphCx
    BY <1>2, <2>1
  <2>3. /\ run'[r].step = "indexing" /\ run'[r].state = receipt[run[r].cx]
        /\ run'[r].cx = run[r].cx /\ run'[r].publication = run[r].publication
        /\ \A q \in Run \ {r} : run'[q] = run[q]
    BY <1>0, <2>1, <2>2, RunMoves DEF RunStep
  <2>4. RunAlone(r)'
    BY <2>1, <2>2, <2>3 DEF RunAlone
  <2>5. QED
    BY <2>1, <2>2, <2>3, <2>4, RunStepKept
<1>6. CASE IndexPromotion(r) \/ KillRun(r)
  <2>1. /\ run[r].step # "idle" /\ run' = [run EXCEPT ![r] = IdleRun]
        /\ UNCHANGED <<receipt, active, change, connection, published, saved,
                       latest, overlapped>>
    BY <1>6 DEF IndexPromotion, KillRun
  <2>2. ConnectionsKept
    BY <1>2, <2>1
  <2>3. run'[r].step = "idle" /\ \A q \in Run \ {r} : run'[q] = run[q]
    BY <1>0, <2>1, IdleType
  <2>4. \A cx \in GraphCx : connection[cx] = "gone" /\ cx \notin interrupted' =>
                              cx \notin interrupted
    BY <1>6 DEF IndexPromotion, KillRun, Healed
  <2>5. QED
    BY <2>1, <2>2, <2>3, <2>4, RunStepKept
<1>7. QED
  BY <1>1, <1>3, <1>4, <1>5, <1>6 DEF Publishing

LEMMA BeginChangeKept ==
  ASSUME Inv, Kept, NEW k \in Change, NEW cx \in GraphCx,
         CreatedOrUpdated(k, cx) \/ Deleted(k, cx), ~overlapped'
  PROVE  ConnectionsKept'
<1>1. ~overlapped /\ AtWork = {} /\ Changing = {} /\ ConnectionsKept
  BY BeginsAlone DEF Inv, CreatedOrUpdated, Deleted, BeginChange, Kept
<1>2. PICK to \in {"live", "gone"}, step \in {"selecting", "checking"} :
        /\ change'[k].step = step /\ change'[k].cx = cx
        /\ \A q \in Change \ {k} : change'[q] = change[q]
        /\ connection'[cx] = to
        /\ \A x \in GraphCx \ {cx} : connection'[x] = connection[x]
        /\ UNCHANGED <<receipt, active, indexed, run, published, saved, latest,
                       interrupted>>
        /\ IF step = "selecting" THEN connection[cx] \in {"unknown", "live"} /\ to = "live"
           ELSE connection[cx] = "live" /\ to = "gone"
  <2>1. CASE CreatedOrUpdated(k, cx)
    <3>1. connection[cx] \in {"unknown", "live"}
      BY <2>1 DEF CreatedOrUpdated, BeginChange
    <3>2. QED
      BY <2>1, <3>1, ChangeBegins DEF CreatedOrUpdated
  <2>2. CASE Deleted(k, cx)
    <3>1. connection[cx] = "live"
      BY <2>2 DEF Deleted, BeginChange
    <3>2. QED
      BY <2>2, <3>1, ChangeBegins DEF Deleted
  <2>3. QED
    BY <2>1, <2>2
<1>3. AtWork' = {} /\ Changing' = {k}
  BY <1>1, <1>2 DEF AtWork, Changing
<1>4. OneAtWork'
  BY <1>3 DEF OneAtWork
<1>5. ChangeAlone(k)'
  BY <1>2 DEF ChangeAlone
<1>6. SelectedKnown'
  <2>1. active \in GraphCx \cup {NoCx} /\ latest \in GraphCx \cup {NoCx}
    BY Typed DEF Inv
  <2>2. SelectedKnown
    BY <1>1 DEF ConnectionsKept
  <2>3. QED
    BY <1>2, <2>1, <2>2 DEF SelectedKnown
<1>7. \A x \in GraphCx : Removed(x)'
  <2> SUFFICES ASSUME NEW x \in GraphCx, connection'[x] = "gone", x \notin interrupted
               PROVE  \/ active # x /\ receipt[x] = emptySupplierReceiptState
                      \/ \E j \in Changing' : change'[j].cx = x
    BY <1>2 DEF Removed
  <2>1. CASE x = cx
    BY <1>2, <1>3, <2>1
  <2>2. CASE x # cx
    BY <1>1, <1>2, <2>2 DEF ConnectionsKept, Removed
  <2>3. QED
    BY <2>1, <2>2
<1>8. QED
  BY <1>3, <1>4, <1>5, <1>6, <1>7 DEF ConnectionsKept

LEMMA ChangeKept ==
  ASSUME Inv, Kept, NEW k \in Change, ConnectionChange(k), ~overlapped'
  PROVE  ConnectionsKept'
<1> DEFINE cx == change[k].cx
<1>0. /\ change \in [Change -> ChangeState]
      /\ receipt \in [GraphCx -> SupplierReceiptState]
      /\ change[k] \in ChangeState
      /\ active \in GraphCx \cup {NoCx} /\ latest \in GraphCx \cup {NoCx}
  BY Typed DEF Inv
<1>1. ASSUME NEW x \in GraphCx, CreatedOrUpdated(k, x) \/ Deleted(k, x)
      PROVE  ConnectionsKept'
  BY <1>1, BeginChangeKept
<1>2. ASSUME change[k].step # "idle", overlapped' = overlapped
      PROVE  /\ ConnectionsKept /\ ChangeAlone(k) /\ cx \in GraphCx
             /\ SelectedKnown /\ k \in Changing
             /\ \A x \in GraphCx :
                  x # cx /\ connection[x] = "gone" /\ x \notin interrupted =>
                    active # x /\ receipt[x] = emptySupplierReceiptState
  <2>1. ConnectionsKept
    BY <1>2 DEF Kept
  <2>2. k \in Changing /\ ChangeAlone(k) /\ SelectedKnown
    BY <1>2, <2>1 DEF ConnectionsKept, Changing
  <2>3. cx \in GraphCx
    BY <1>2 DEF Inv, ChangesSaved
  <2>4. QED
    BY <1>2, <2>1, <2>2, <2>3, RemovedElsewhere
\* A step to another step: the connection is still being selected or removed.
<1>3. ASSUME NEW step \in ChangeStep \ {"idle"}, NEW state \in SupplierReceiptState,
             change[k].step # "idle", ChangeGoes(k, step, state),
             UNCHANGED <<receipt, run, connection, overlapped, interrupted>>,
             active' \in {active, cx, NoCx},
             connection[cx] = "gone" => active' # cx \/ active' = active,
             SelectedKnown',
             \/ /\ step \in {"reading", "indexing"}
                /\ step = "indexing" => state = receipt[cx]
                /\ connection[cx] = "live"
             \/ /\ step \in {"clearing", "forgetting"}
                /\ step = "clearing" => active' = cx
                /\ step = "forgetting" => active' # cx
                /\ connection[cx] = "gone"
      PROVE  ConnectionsKept'
  <2>1. /\ ConnectionsKept /\ ChangeAlone(k) /\ cx \in GraphCx
        /\ \A x \in GraphCx :
             x # cx /\ connection[x] = "gone" /\ x \notin interrupted =>
               active # x /\ receipt[x] = emptySupplierReceiptState
    BY <1>2, <1>3
  <2>2. /\ change'[k].step = step /\ change'[k].state = state
        /\ change'[k].cx = cx
        /\ \A q \in Change \ {k} : change'[q] = change[q]
    BY <1>0, <1>3, ChangeMoves
  <2>3. ChangeAlone(k)'
    BY <1>3, <2>2 DEF ChangeAlone
  <2>4. \A x \in GraphCx : Removed(x)'
    <3> SUFFICES ASSUME NEW x \in GraphCx, connection[x] = "gone", x \notin interrupted
                 PROVE  \/ active' # x /\ receipt[x] = emptySupplierReceiptState
                        \/ \E j \in Changing' : change'[j].cx = x
      BY <1>3 DEF Removed
    <3>1. CASE x = cx
      <4>1. k \in Changing'
        BY <1>3, <2>2 DEF Changing
      <4>2. QED
        BY <2>2, <3>1, <4>1
    <3>2. CASE x # cx
      <4>1. active # x /\ receipt[x] = emptySupplierReceiptState
        BY <2>1, <3>2
      <4>2. active' # x
        BY <1>3, <3>2, <4>1, ProjectionAssumption
      <4>3. QED
        BY <4>1, <4>2
    <3>3. QED
      BY <3>1, <3>2
  <2>5. QED
    BY <1>3, <2>1, <2>2, <2>3, <2>4, ChangeStepKept
<1>4. CASE SelectConnection(k)
  <2>1. /\ change[k].step = "selecting" /\ active' = cx /\ latest' = cx
        /\ ChangeGoes(k, "reading", emptySupplierReceiptState)
        /\ UNCHANGED <<receipt, run, connection, overlapped, interrupted>>
    BY <1>4 DEF SelectConnection
  <2>2. connection[cx] = "live"
    BY <1>2, <2>1 DEF ChangeAlone
  <2>3. SelectedKnown'
    BY <2>1, <2>2 DEF SelectedKnown
  <2>4. "reading" \in ChangeStep \ {"idle"}
    BY DEF ChangeStep
  <2> HIDE DEF cx
  <2>5. QED
    BY <1>3, <2>1, <2>2, <2>3, <2>4, EmptyState
<1>5. CASE ReadStored(k)
  <2>1. /\ change[k].step = "reading" /\ UNCHANGED <<active, latest>>
        /\ ChangeGoes(k, "indexing", receipt[cx])
        /\ UNCHANGED <<receipt, run, connection, overlapped, interrupted>>
    BY <1>5 DEF ReadStored
  <2>2. connection[cx] = "live" /\ SelectedKnown /\ receipt[cx] \in SupplierReceiptState
    BY <1>0, <1>2, <2>1 DEF ChangeAlone
  <2>3. SelectedKnown'
    BY <2>1, <2>2 DEF SelectedKnown
  <2>4. "indexing" \in ChangeStep \ {"idle"}
    BY DEF ChangeStep
  <2> HIDE DEF cx
  <2>5. QED
    BY <1>3, <2>1, <2>2, <2>3, <2>4
<1>6. CASE CheckActive(k)
  <2> DEFINE step == IF active = cx THEN "clearing" ELSE "forgetting"
  <2>1. /\ change[k].step = "checking" /\ UNCHANGED <<active, latest>>
        /\ ChangeGoes(k, step, emptySupplierReceiptState)
        /\ UNCHANGED <<receipt, run, connection, overlapped, interrupted>>
    BY <1>6 DEF CheckActive
  <2>2. connection[cx] = "gone" /\ SelectedKnown
    BY <1>2, <2>1 DEF ChangeAlone
  <2>3. SelectedKnown'
    BY <2>1, <2>2 DEF SelectedKnown
  <2>4. /\ step \in {"clearing", "forgetting"} /\ step \in ChangeStep \ {"idle"}
        /\ step = "clearing" => active = cx
        /\ step = "forgetting" => active # cx
    BY DEF ChangeStep
  <2> HIDE DEF cx, step
  <2>5. QED
    BY <1>3, <2>1, <2>2, <2>3, <2>4, EmptyState
<1>7. CASE ClearActive(k)
  <2>1. /\ change[k].step = "clearing" /\ active' = NoCx /\ latest' = latest
        /\ ChangeGoes(k, "forgetting", emptySupplierReceiptState)
        /\ UNCHANGED <<receipt, run, connection, overlapped, interrupted>>
    BY <1>7 DEF ClearActive
  <2>2. /\ connection[cx] = "gone" /\ active = cx /\ SelectedKnown /\ cx \in GraphCx
    BY <1>2, <2>1 DEF ChangeAlone
  <2>3. NoCx # cx
    BY <2>2, ProjectionAssumption
  <2>4. SelectedKnown'
    BY <2>1, <2>2 DEF SelectedKnown
  <2>5. "forgetting" \in ChangeStep \ {"idle"}
    BY DEF ChangeStep
  <2> HIDE DEF cx
  <2>6. QED
    BY <1>3, <2>1, <2>2, <2>3, <2>4, <2>5, EmptyState
<1>8. CASE IndexStored(k) \/ Forget(k) \/ KillChange(k)
  <2>1. /\ change[k].step # "idle" /\ change' = [change EXCEPT ![k] = IdleChange]
        /\ UNCHANGED <<active, run, connection, published, saved, latest, overlapped>>
    BY <1>8 DEF IndexStored, Forget, KillChange
  <2>2. /\ ConnectionsKept /\ ChangeAlone(k) /\ cx \in GraphCx
        /\ SelectedKnown
        /\ \A x \in GraphCx :
             x # cx /\ connection[x] = "gone" /\ x \notin interrupted =>
               active # x /\ receipt[x] = emptySupplierReceiptState
    BY <1>2, <2>1
  <2>3. change'[k].step = "idle" /\ \A q \in Change \ {k} : change'[q] = change[q]
    BY <1>0, <2>1, IdleType
  <2>4. SelectedKnown'
    BY <2>1, <2>2 DEF SelectedKnown
  <2>5. /\ \A x \in GraphCx : x # cx => receipt'[x] = receipt[x]
        /\ \A x \in GraphCx : connection[x] = "gone" /\ x \notin interrupted' =>
                                x \notin interrupted
        /\ connection[cx] = "gone" /\ cx \notin interrupted' =>
             active # cx /\ receipt'[cx] = emptySupplierReceiptState
    <3>1. CASE IndexStored(k)
      BY <2>2, <3>1 DEF IndexStored, Healed, ChangeAlone
    <3>2. CASE Forget(k)
      BY <1>0, <2>2, <3>2 DEF Forget, ChangeAlone
    <3>3. CASE KillChange(k)
      BY <3>3 DEF KillChange
    <3>4. QED
      BY <1>8, <3>1, <3>2, <3>3
  <2> HIDE DEF cx
  <2>6. \A x \in GraphCx : Removed(x)'
    <3> SUFFICES ASSUME NEW x \in GraphCx, connection[x] = "gone", x \notin interrupted'
                 PROVE  active # x /\ receipt'[x] = emptySupplierReceiptState
      BY <2>1 DEF Removed
    <3>1. CASE x = cx
      BY <2>5, <3>1
    <3>2. CASE x # cx
      BY <2>2, <2>5, <3>2
    <3>3. QED
      BY <3>1, <3>2
  <2>7. QED
    BY <2>1, <2>2, <2>3, <2>4, <2>6, ChangeStepKept
<1>9. QED
  BY <1>1, <1>4, <1>5, <1>6, <1>7, <1>8 DEF ConnectionChange

LEMMA InitKept == Init => ConnectionsKept
<1> SUFFICES ASSUME Init PROVE ConnectionsKept
  OBVIOUS
<1>1. AtWork = {} /\ Changing = {}
  BY IdleType DEF Init, AtWork, Changing
<1>2. QED
  BY <1>1 DEF Init, ConnectionsKept, OneAtWork, SelectedKnown, Removed

LEMMA StepKept == Inv /\ Kept /\ [Next]_vars => Kept'
<1> SUFFICES ASSUME Inv, Kept, [Next]_vars, ~overlapped' PROVE ConnectionsKept'
  BY DEF Kept
<1>1. CASE UNCHANGED vars
  BY <1>1 DEF vars, Kept, ConnectionsKept, OneAtWork, AtWork, Changing, RunAlone,
     Promotion, ChangeAlone, SelectedKnown, Removed
<1>2. QED
  BY <1>1, PublishingKept, ChangeKept DEF Next

\* For any connections, Epics, publications and callbacks: as long as they run
\* one after the other, whatever fails half-way, a connection that the platform
\* reported as removed, to the end, is neither published to nor has a package.
THEOREM RemovedForGood == Spec => []RemovedStaysRemoved
<1>1. Kept => RemovedStaysRemoved
  BY DEF Kept, ConnectionsKept, Removed, RemovedStaysRemoved, Resting
<1>2. Init => Kept
  BY InitKept DEF Kept
<1>3. QED
  BY <1>1, <1>2, InitInv, StepInv, StepKept, PTL DEF Spec

\* As long as they run one after the other, packages are published to the
\* connection selected last while it exists, whatever others are removed.
THEOREM LatestSelected == Spec => []LatestStaysActive
<1>1. Kept => LatestStaysActive
  BY DEF Kept, ConnectionsKept, SelectedKnown, LatestStaysActive
<1>2. Init => Kept
  BY InitKept DEF Kept
<1>3. QED
  BY <1>1, <1>2, InitInv, StepInv, StepKept, PTL DEF Spec

-----------------------------------------------------------------------------
(* The newest package.                                                     *)

Newest == ~overlapped => NewestKept

LEMMA NumberedFrame ==
  ASSUME NEW cx \in GraphCx, Numbered(cx), saved' = saved, published' = published,
         \A r \in AtWork' : run'[r].step \in {"promoting", "saving"} =>
           \E q \in AtWork : run[q].step \in {"promoting", "saving"}
  PROVE  Numbered(cx)'
  BY DEF Numbered

LEMMA StoredFrame ==
  ASSUME NEW cx \in GraphCx, NewestStored(cx), saved'[cx] = saved[cx],
         receipt'[cx] = receipt[cx], connection'[cx] = connection[cx],
         active' = cx => active = cx \/ connection[cx] # "gone"
  PROVE  NewestStored(cx)'
  BY DEF NewestStored

LEMMA ShownFrame ==
  ASSUME NEW cx \in GraphCx, NewestShown(cx), receipt'[cx] = receipt[cx],
         indexed'[cx] = indexed[cx], saved'[cx] = saved[cx],
         connection'[cx] = "live" /\ cx \notin interrupted' =>
           connection[cx] = "live" /\ cx \notin interrupted,
         \A r \in AtWork :
           run[r].cx = cx /\ run[r].step \in {"rereading", "indexing"} =>
             \E q \in AtWork' : run'[q].cx = cx /\ run'[q].step \in {"rereading", "indexing"}
  PROVE  NewestShown(cx)'
  BY DEF NewestShown, Outranks

\* Indexing what is stored shows it, if it has the greatest version of its Epic.
LEMMA IngestNewest ==
  ASSUME Inv, NewestKept, ~overlapped, NEW cx \in GraphCx, Ingest(cx, receipt[cx])
  PROVE  LET current == receipt[cx].currentPackage IN
         /\ \A x \in GraphCx : x # cx => indexed'[x] = indexed[x]
         /\ ShownUnderEpic(cx)'
         /\ Outranks(cx) /\ current # NoPackage => indexed'[cx][current.epic] = current
<1> DEFINE current == receipt[cx].currentPackage
<1>0. /\ receipt[cx] \in SupplierReceiptState
      /\ indexed \in [GraphCx -> [Epic -> Package \cup {NoPackage}]]
      /\ saved[cx] \subseteq Package
  BY Typed DEF Inv
<1>1. CASE current = NoPackage
  <2>1. indexed' = indexed
    BY <1>1 DEF Ingest
  <2>2. QED
    BY <1>1, <2>1 DEF NewestKept, ShownUnderEpic
<1>2. CASE current # NoPackage
  <2> DEFINE shown == indexed[cx][current.epic]
  <2>1. /\ current \in Package /\ current.epic \in Epic
        /\ current \in saved[cx]
        /\ current.epic \in receipt[cx].pairings
        /\ \A package \in saved[cx] : package.publication <= current.publication
    <3>1. current \in Package
      BY <1>0, <1>2 DEF SupplierReceiptState
    <3>2. current \in saved[cx]
      BY <1>2 DEF Inv, StoredSaved, SavedFor
    <3>3. QED
      BY <1>2, <3>1, <3>2 DEF Package, NewestKept, NewestStored
  <2>2. PICK p \in AfterSetObjects(shown, current) :
          indexed' = [indexed EXCEPT ![cx][current.epic] = p]
    BY <1>2, <2>1 DEF Ingest
  <2>3. p \in {shown, current} /\ (shown = NoPackage => p = current)
    BY <2>2 DEF AfterSetObjects
  <2>4. shown # NoPackage => shown \in saved[cx] /\ shown \in Package
                             /\ shown.epic = current.epic
    BY <1>0, <2>1 DEF Inv, IndexedWasCurrent, NewestKept, ShownUnderEpic
  <2>5. /\ \A x \in GraphCx : x # cx => indexed'[x] = indexed[x]
        /\ indexed'[cx][current.epic] = p
        /\ \A e \in Epic : e # current.epic => indexed'[cx][e] = indexed[cx][e]
    BY <1>0, <2>1, <2>2
  <2>6. ShownUnderEpic(cx)'
    <3> SUFFICES ASSUME NEW e \in Epic, indexed'[cx][e] # NoPackage
                 PROVE  indexed'[cx][e].epic = e
      BY DEF ShownUnderEpic
    <3>1. CASE e = current.epic
      BY <2>3, <2>4, <2>5, <3>1
    <3>2. CASE e # current.epic
      BY <2>5, <3>2 DEF NewestKept, ShownUnderEpic
    <3>3. QED
      BY <3>1, <3>2
  <2>7. ASSUME Outranks(cx), shown # NoPackage, shown # current
        PROVE  p = current
    <3>1. shown.version < current.version
      BY <2>4, <2>7 DEF Outranks
    <3>2. ~(current.version <= shown.version)
      BY <2>1, <2>4, <2>7, <3>1 DEF Package
    <3>3. p # shown
      BY <2>2, <2>7, <3>2 DEF AfterSetObjects, updateSequenceNumber
    <3>4. QED
      BY <2>3, <3>3
  <2>8. Outranks(cx) => p = current
    BY <2>3, <2>7
  <2>9. QED
    BY <2>5, <2>6, <2>8
<1>3. QED
  BY <1>1, <1>2

LEMMA IndexedNewest ==
  ASSUME Inv, NewestKept, ~overlapped, NEW cx \in GraphCx,
         Ingest(cx, receipt[cx]), Healed(cx),
         UNCHANGED <<receipt, active, connection, published, saved, overlapped>>,
         AtWork' = {}, \A r \in AtWork : run[r].cx = cx
  PROVE  NewestKept'
<1> DEFINE current == receipt[cx].currentPackage
<1>1. /\ \A x \in GraphCx : x # cx => indexed'[x] = indexed[x]
      /\ ShownUnderEpic(cx)'
      /\ Outranks(cx) /\ current # NoPackage => indexed'[cx][current.epic] = current
  BY IngestNewest
<1> SUFFICES ASSUME NEW x \in GraphCx
             PROVE  /\ Numbered(x)' /\ NewestStored(x)' /\ ShownUnderEpic(x)'
                    /\ NewestShown(x)'
  BY DEF NewestKept
<1>2. Numbered(x) /\ NewestStored(x) /\ ShownUnderEpic(x)
      /\ NewestShown(x)
  BY DEF NewestKept
<1>3. Numbered(x)'
  BY <1>2, NumberedFrame
<1>4. NewestStored(x)'
  BY <1>2, StoredFrame
<1>5. ShownUnderEpic(x)'
  BY <1>1, <1>2 DEF ShownUnderEpic
<1>6. NewestShown(x)'
  <2>1. CASE x = cx
    BY <1>1, <2>1 DEF NewestShown, Outranks
  <2>2. CASE x # cx
    <3>1. x \notin interrupted' => x \notin interrupted
      BY <2>2 DEF Healed
    <3>2. QED
      BY <1>1, <1>2, <2>2, <3>1, ShownFrame
  <2>3. QED
    BY <2>1, <2>2
<1>7. QED
  BY <1>3, <1>4, <1>5, <1>6

LEMMA BeginPublishNewest ==
  ASSUME Inv, Kept, Newest, NEW r \in Run, NEW epic \in Epic,
         BeginPublish(r, epic), ~overlapped'
  PROVE  NewestKept'
<1>1. ~overlapped /\ AtWork = {} /\ NewestKept
  BY BeginsAlone DEF Inv, BeginPublish, Newest
<1>2. /\ published' = published + 1
      /\ UNCHANGED <<receipt, active, indexed, change, connection, saved,
                     latest, interrupted>>
  BY PublishBegins
<1> SUFFICES ASSUME NEW cx \in GraphCx
             PROVE  /\ Numbered(cx)' /\ NewestStored(cx)' /\ ShownUnderEpic(cx)'
                    /\ NewestShown(cx)'
  BY DEF NewestKept
<1>3. Numbered(cx)'
  <2>1. published \in Nat /\ saved[cx] \subseteq Package
    BY Typed DEF Inv
  <2>2. \A package \in saved[cx] : package.publication \in Nat
    BY <2>1 DEF Package
  <2>3. Numbered(cx)
    BY <1>1 DEF NewestKept
  <2>4. QED
    BY <1>2, <2>1, <2>2, <2>3 DEF Numbered
<1>4. NewestStored(cx)'
  BY <1>1, <1>2, StoredFrame DEF NewestKept
<1>5. ShownUnderEpic(cx)'
  BY <1>1, <1>2 DEF NewestKept, ShownUnderEpic
<1>6. NewestShown(cx)'
  BY <1>1, <1>2, ShownFrame DEF NewestKept
<1>7. QED
  BY <1>3, <1>4, <1>5, <1>6

\* What is about to be stored is newer than all that is.
LEMMA SavingNewest ==
  ASSUME Inv, ConnectionsKept, NewestKept, NEW r \in Run, run[r].step = "saving"
  PROVE  LET cx == run[r].cx
             package == run[r].state.currentPackage
         IN /\ cx \in GraphCx /\ active = cx /\ connection[cx] # "unknown"
            /\ run[r].state \in SupplierReceiptState
            /\ package \in Package /\ package # NoPackage
            /\ package.epic \in run[r].state.pairings
            /\ package.publication = published
            /\ package.version = nextVersion(receipt[cx], package.epic)
            /\ \A old \in saved[cx] : old.publication < published
<1> DEFINE cx == run[r].cx
           package == run[r].state.currentPackage
<1>1. r \in AtWork /\ RunAlone(r)
  BY DEF AtWork, ConnectionsKept
<1>2. /\ cx \in GraphCx /\ package # NoPackage /\ run[r] \in RunState
      /\ run[r].state \in SupplierReceiptState
  BY Typed DEF Inv, RunsSaved, RunState
<1>3. active = cx /\ connection[cx] # "unknown"
  BY <1>1, <1>2, ProjectionAssumption DEF RunAlone, ConnectionsKept, SelectedKnown
<1>4. /\ run[r].state = Promote(receipt[cx], run[r].epic, run[r].publication)
      /\ run[r].publication = published
  BY <1>1 DEF RunAlone, Promotion
<1>5. /\ package.epic = run[r].epic /\ package.publication = published
      /\ package.version = nextVersion(receipt[cx], run[r].epic)
      /\ package.epic \in run[r].state.pairings
  BY <1>4 DEF Promote
<1>6. package \in Package
  BY <1>2 DEF SupplierReceiptState
<1>7. \A old \in saved[cx] : old.publication < published
  BY <1>1, <1>2 DEF NewestKept, Numbered
<1>8. QED
  BY <1>2, <1>3, <1>5, <1>6, <1>7

LEMMA SavePromotionNewest ==
  ASSUME Inv, Kept, Newest, NEW r \in Run, SavePromotion(r), ~overlapped'
  PROVE  NewestKept'
<1> DEFINE cx == run[r].cx
           package == run[r].state.currentPackage
<1>1. /\ run[r].step = "saving"
      /\ receipt' = [receipt EXCEPT ![cx] = run[r].state]
      /\ saved' = [saved EXCEPT ![cx] = saved[cx] \cup {package}]
      /\ RunGoes(r, "rereading", emptySupplierReceiptState)
      /\ UNCHANGED <<active, indexed, change, connection, published, latest,
                     overlapped, interrupted>>
  BY DEF SavePromotion
<1>2. ConnectionsKept /\ NewestKept
  BY <1>1 DEF Kept, Newest
<1>3. /\ cx \in GraphCx /\ active = cx /\ connection[cx] # "unknown"
      /\ package \in Package /\ package # NoPackage
      /\ package.epic \in run[r].state.pairings
      /\ package.publication = published
      /\ \A old \in saved[cx] : old.publication < published
  BY <1>1, <1>2, SavingNewest
<1>4. /\ run'[r].step = "rereading" /\ run'[r].cx = cx
      /\ \A q \in Run \ {r} : run'[q] = run[q]
  BY <1>1, EmptyState, RunMoves, Typed DEF Inv, RunStep
<1>5. AtWork = {r} /\ AtWork' = {r}
  BY <1>1, <1>2, <1>4, RunOnly
<1>6. /\ receipt'[cx] = run[r].state /\ saved'[cx] = saved[cx] \cup {package}
      /\ \A x \in GraphCx : x # cx => receipt'[x] = receipt[x] /\ saved'[x] = saved[x]
  BY <1>1, <1>3, Typed DEF Inv
<1>7. published \in Nat /\ saved \in [GraphCx -> SUBSET Package]
  BY Typed DEF Inv
<1> HIDE DEF cx, package
<1>8. \A x \in GraphCx : Numbered(x)'
  <2> SUFFICES ASSUME NEW x \in GraphCx PROVE Numbered(x)'
    OBVIOUS
  <2>1. Numbered(x)
    BY <1>2 DEF NewestKept
  <2>2. CASE x # cx
    BY <1>1, <1>4, <1>5, <1>6, <2>1, <2>2 DEF Numbered
  <2>3. CASE x = cx
    <3>1. \A old \in saved[x] : old.publication \in Nat
      BY <1>7 DEF Package
    <3>2. \A old \in saved'[x] : old.publication <= published
      BY <1>3, <1>6, <1>7, <2>3, <3>1
    <3>3. \A old, new \in saved'[x] : old.publication = new.publication => old = new
      BY <1>3, <1>6, <1>7, <2>1, <2>3, <3>1 DEF Numbered
    <3>4. QED
      BY <1>1, <1>4, <1>5, <3>2, <3>3 DEF Numbered
  <2>4. QED
    BY <2>2, <2>3
<1>9. \A x \in GraphCx : NewestStored(x)'
  <2> SUFFICES ASSUME NEW x \in GraphCx PROVE NewestStored(x)'
    OBVIOUS
  <2>1. CASE x # cx
    BY <1>1, <1>2, <1>6, <2>1, StoredFrame DEF NewestKept
  <2>2. CASE x = cx
    <3>1. \A old \in saved'[cx] : old.publication <= package.publication
      <4>1. \A old \in saved[cx] : old.publication \in Nat
        BY <1>3, <1>7 DEF Package
      <4>2. QED
        BY <1>3, <1>6, <1>7, <4>1
    <3>2. receipt'[cx].currentPackage = package
          /\ package.epic \in receipt'[cx].pairings
      BY <1>3, <1>6 DEF package
    <3>3. QED
      BY <1>1, <1>3, <2>2, <3>1, <3>2 DEF NewestStored
  <2>3. QED
    BY <2>1, <2>2
<1>10. \A x \in GraphCx : ShownUnderEpic(x)'
  BY <1>1, <1>2 DEF NewestKept, ShownUnderEpic
<1>11. \A x \in GraphCx : NewestShown(x)'
  <2> SUFFICES ASSUME NEW x \in GraphCx PROVE NewestShown(x)'
    OBVIOUS
  <2>1. CASE x = cx
    BY <1>4, <1>5, <2>1 DEF NewestShown
  <2>2. CASE x # cx
    <3>1. NewestShown(x)
      BY <1>2 DEF NewestKept
    <3>2. \A q \in AtWork : run[q].step \notin {"rereading", "indexing"}
      BY <1>1, <1>5
    <3>3. QED
      BY <1>1, <1>6, <2>2, <3>1, <3>2, ShownFrame
  <2>3. QED
    BY <2>1, <2>2
<1>12. QED
  BY <1>8, <1>9, <1>10, <1>11 DEF NewestKept

LEMMA PublishingNewest ==
  ASSUME Inv, Kept, Newest, NEW r \in Run, Publishing(r), ~overlapped'
  PROVE  NewestKept'
<1> DEFINE cx == run[r].cx
<1>0. /\ run \in [Run -> RunState] /\ receipt \in [GraphCx -> SupplierReceiptState]
      /\ run[r] \in RunState
  BY Typed DEF Inv
<1>1. ASSUME NEW epic \in Epic, BeginPublish(r, epic)
      PROVE  NewestKept'
  BY <1>1, BeginPublishNewest
<1>2. ASSUME run[r].step # "idle", overlapped' = overlapped
      PROVE  /\ ConnectionsKept /\ NewestKept /\ ~overlapped /\ RunAlone(r)
             /\ cx \in GraphCx /\ receipt[cx] \in SupplierReceiptState
  <2>1. ConnectionsKept /\ NewestKept /\ ~overlapped
    BY <1>2 DEF Kept, Newest
  <2>2. RunAlone(r)
    BY <1>2, <2>1 DEF ConnectionsKept, AtWork
  <2>3. cx \in GraphCx
    BY <1>2 DEF Inv, RunsSaved
  <2>4. QED
    BY <1>0, <2>1, <2>2, <2>3
\* A step that stores nothing, and indexes nothing either.
<1>3. ASSUME run[r].step # "idle", \A q \in Run \ {r} : run'[q] = run[q],
             UNCHANGED <<receipt, active, indexed, change, connection, published,
                         saved, overlapped>>,
             run'[r].step \in {"promoting", "saving"} =>
               run[r].step \in {"promoting", "saving"},
             interrupted \subseteq interrupted',
             run[r].step \in {"rereading", "indexing"} =>
               \/ run'[r].step \in {"rereading", "indexing"} /\ run'[r].cx = cx
               \/ cx \in interrupted'
      PROVE  NewestKept'
  <2>1. NewestKept /\ ConnectionsKept /\ ~overlapped
    BY <1>2, <1>3
  <2>2. AtWork = {r} /\ AtWork' = {q \in {r} : run'[r].step # "idle"}
    BY <1>3, <2>1, RunOnly
  <2> SUFFICES ASSUME NEW x \in GraphCx
               PROVE  /\ Numbered(x)' /\ NewestStored(x)' /\ ShownUnderEpic(x)'
                      /\ NewestShown(x)'
    BY DEF NewestKept
  <2>3. Numbered(x) /\ NewestStored(x) /\ ShownUnderEpic(x)
        /\ NewestShown(x)
    BY <2>1 DEF NewestKept
  <2>4. Numbered(x)'
    BY <1>3, <2>2, <2>3, NumberedFrame
  <2>5. NewestStored(x)'
    BY <1>3, <2>3, StoredFrame
  <2>6. ShownUnderEpic(x)'
    BY <1>3, <2>3 DEF ShownUnderEpic
  <2>7. NewestShown(x)'
    <3>1. CASE x \in interrupted'
      BY <3>1 DEF NewestShown
    <3>2. CASE x \notin interrupted'
      <4>1. \A q \in AtWork :
              run[q].cx = x /\ run[q].step \in {"rereading", "indexing"} =>
                \E q2 \in AtWork' : run'[q2].cx = x /\ run'[q2].step \in {"rereading", "indexing"}
        BY <1>3, <2>2, <3>2
      <4>2. QED
        BY <1>3, <2>3, <4>1, ShownFrame
    <3>3. QED
      BY <3>1, <3>2
  <2>8. QED
    BY <2>4, <2>5, <2>6, <2>7
<1>4. CASE PromotePackage(r)
  <2>1. /\ run[r].step = "promoting" /\ RunGoes(r, "saving", Promotion(r))
        /\ UNCHANGED <<receipt, active, indexed, change, connection, published,
                       saved, latest, overlapped, interrupted>>
    BY <1>4 DEF PromotePackage
  <2>2. Promotion(r) \in SupplierReceiptState
    BY <1>0, <1>2, <2>1, PromoteType DEF Promotion, RunState
  <2>3. run'[r].step = "saving" /\ \A q \in Run \ {r} : run'[q] = run[q]
    BY <1>0, <2>1, <2>2, RunMoves DEF RunStep
  <2>4. QED
    BY <1>3, <2>1, <2>3
<1>5. CASE SavePromotion(r)
  BY <1>5, SavePromotionNewest
<1>6. CASE ReadBack(r)
  <2>1. /\ run[r].step = "rereading" /\ RunGoes(r, "indexing", receipt[cx])
        /\ UNCHANGED <<receipt, active, indexed, change, connection, published,
                       saved, latest, overlapped, interrupted>>
    BY <1>6 DEF ReadBack
  <2>2. receipt[cx] \in SupplierReceiptState
    BY <1>2, <2>1
  <2>3. /\ run'[r].step = "indexing" /\ run'[r].cx = cx
        /\ \A q \in Run \ {r} : run'[q] = run[q]
    BY <1>0, <2>1, <2>2, RunMoves DEF RunStep
  <2>4. QED
    BY <1>3, <2>1, <2>3
<1>7. CASE KillRun(r)
  <2>1. /\ run[r].step # "idle" /\ run' = [run EXCEPT ![r] = IdleRun]
        /\ UNCHANGED <<receipt, active, indexed, change, connection, published,
                       saved, latest, overlapped>>
        /\ interrupted \subseteq interrupted'
        /\ run[r].step \in {"rereading", "indexing"} => cx \in interrupted'
    BY <1>7 DEF KillRun
  <2>2. run'[r].step = "idle" /\ \A q \in Run \ {r} : run'[q] = run[q]
    BY <1>0, <2>1, IdleType
  <2>3. QED
    BY <1>3, <2>1, <2>2
<1>8. CASE IndexPromotion(r)
  <2>1. /\ run[r].step = "indexing" /\ run' = [run EXCEPT ![r] = IdleRun]
        /\ Ingest(cx, run[r].state) /\ Healed(cx)
        /\ UNCHANGED <<receipt, active, change, connection, published, saved,
                       latest, overlapped>>
    BY <1>8 DEF IndexPromotion
  <2>2. /\ NewestKept /\ ConnectionsKept /\ ~overlapped /\ cx \in GraphCx
        /\ run[r].state = receipt[cx]
    BY <1>2, <2>1 DEF RunAlone
  <2>3. run'[r].step = "idle" /\ \A q \in Run \ {r} : run'[q] = run[q]
    BY <1>0, <2>1, IdleType
  <2>4. AtWork = {r} /\ AtWork' = {}
    BY <2>1, <2>2, <2>3, RunOnly
  <2>5. PICK at \in GraphCx : at = cx
    BY <2>2
  <2> HIDE DEF cx
  <2>6. \A q \in AtWork : run[q].cx = at
    BY <2>4, <2>5 DEF cx
  <2>7. QED
    BY <2>1, <2>2, <2>4, <2>5, <2>6, IndexedNewest
<1>9. QED
  BY <1>1, <1>4, <1>5, <1>6, <1>7, <1>8 DEF Publishing

LEMMA ChangeNewest ==
  ASSUME Inv, Kept, Newest, NEW k \in Change, ConnectionChange(k), ~overlapped'
  PROVE  NewestKept'
<1> DEFINE cx == change[k].cx
<1>0. /\ change \in [Change -> ChangeState]
      /\ receipt \in [GraphCx -> SupplierReceiptState]
      /\ connection \in [GraphCx -> {"unknown", "live", "gone"}]
      /\ active \in GraphCx \cup {NoCx}
  BY Typed DEF Inv
\* No publication is at work, and nothing is stored or indexed.
<1>1. ASSUME NewestKept, ~overlapped, AtWork = {},
             UNCHANGED <<receipt, indexed, run, published, saved>>,
             \A x \in GraphCx : NewestStored(x)',
             \A x \in GraphCx :
               /\ connection'[x] = "live" /\ x \notin interrupted'
               /\ receipt[x].currentPackage # NoPackage
               => connection[x] = "live" /\ x \notin interrupted
      PROVE  NewestKept'
  <2> SUFFICES ASSUME NEW x \in GraphCx
               PROVE  /\ Numbered(x)' /\ ShownUnderEpic(x)'
                      /\ NewestShown(x)'
    BY <1>1 DEF NewestKept
  <2>1. AtWork' = {}
    BY <1>1 DEF AtWork
  <2>2. Numbered(x)' /\ ShownUnderEpic(x)'
    BY <1>1, <2>1, NumberedFrame DEF NewestKept, ShownUnderEpic
  <2>3. NewestShown(x)'
    BY <1>1, <2>1 DEF NewestKept, NewestShown, Outranks
  <2>4. QED
    BY <2>2, <2>3
<1>2. ASSUME NEW x \in GraphCx, CreatedOrUpdated(k, x) \/ Deleted(k, x)
      PROVE  NewestKept'
  <2>1. ~overlapped /\ AtWork = {} /\ NewestKept
    BY <1>2, BeginsAlone DEF Inv, CreatedOrUpdated, Deleted, BeginChange, Newest
  <2>2. PICK to \in {"live", "gone"} :
          /\ connection'[x] = to
          /\ \A y \in GraphCx \ {x} : connection'[y] = connection[y]
          /\ UNCHANGED <<receipt, active, indexed, run, published, saved, latest,
                         interrupted>>
          /\ connection[x] # "gone" /\ (connection[x] = "unknown" => to = "live")
    <3>1. CASE CreatedOrUpdated(k, x)
      <4>1. connection[x] # "gone"
        BY <3>1 DEF CreatedOrUpdated, BeginChange
      <4>2. QED
        BY <3>1, <4>1, ChangeBegins DEF CreatedOrUpdated
    <3>2. CASE Deleted(k, x)
      <4>1. connection[x] = "live"
        BY <3>2 DEF Deleted, BeginChange
      <4>2. QED
        BY <3>2, <4>1, ChangeBegins DEF Deleted
    <3>3. QED
      BY <1>2, <3>1, <3>2
  <2>3. \A y \in GraphCx : NewestStored(y)'
    <3> SUFFICES ASSUME NEW y \in GraphCx PROVE NewestStored(y)'
      OBVIOUS
    <3>1. NewestStored(y)
      BY <2>1 DEF NewestKept
    <3>2. CASE y # x
      BY <2>2, <3>1, <3>2, StoredFrame
    <3>3. CASE y = x
      BY <2>2, <3>1, <3>3 DEF NewestStored
    <3>4. QED
      BY <3>2, <3>3
  <2>4. \A y \in GraphCx :
          /\ connection'[y] = "live" /\ y \notin interrupted'
          /\ receipt[y].currentPackage # NoPackage
          => connection[y] = "live" /\ y \notin interrupted
    <3> SUFFICES ASSUME NEW y \in GraphCx, connection'[y] = "live",
                        receipt[y].currentPackage # NoPackage
                 PROVE  connection[y] = "live"
      BY <2>2
    <3>1. connection[y] # "unknown"
      BY <2>1 DEF NewestKept, NewestStored
    <3>2. QED
      BY <1>0, <2>2, <3>1
  <2>5. QED
    BY <1>1, <2>1, <2>2, <2>3, <2>4
<1>3. ASSUME change[k].step # "idle", overlapped' = overlapped,
             run' = run, \A q \in Change \ {k} : change'[q] = change[q]
      PROVE  /\ ConnectionsKept /\ NewestKept /\ ~overlapped /\ ChangeAlone(k)
             /\ AtWork = {} /\ AtWork' = {} /\ cx \in GraphCx
  <2>1. ConnectionsKept /\ NewestKept /\ ~overlapped
    BY <1>3 DEF Kept, Newest
  <2>2. cx \in GraphCx
    BY <1>3 DEF Inv, ChangesSaved
  <2>3. QED
    BY <1>3, <2>1, <2>2, ChangeOnly
<1>4. ASSUME ConnectionChange(k),
             ~ \E x \in GraphCx : CreatedOrUpdated(k, x) \/ Deleted(k, x)
      PROVE  /\ change[k].step # "idle" /\ UNCHANGED <<overlapped, run, connection,
                                                       published, saved>>
             /\ \A q \in Change \ {k} : change'[q] = change[q]
  BY <1>0, <1>4 DEF ConnectionChange, SelectConnection, ReadStored, IndexStored,
     CheckActive, ClearActive, Forget, KillChange, ChangeGoes
<1>5. ASSUME ~ \E x \in GraphCx : CreatedOrUpdated(k, x) \/ Deleted(k, x)
      PROVE  /\ ConnectionsKept /\ NewestKept /\ ~overlapped /\ ChangeAlone(k)
             /\ AtWork = {} /\ AtWork' = {} /\ cx \in GraphCx
             /\ UNCHANGED <<overlapped, run, connection, published, saved>>
  BY <1>3, <1>4, <1>5
<1>6. CASE SelectConnection(k) \/ ReadStored(k) \/ CheckActive(k) \/ ClearActive(k)
           \/ KillChange(k)
  <2>1. /\ UNCHANGED <<receipt, indexed>> /\ interrupted \subseteq interrupted'
        /\ \/ active' = active \/ active' = NoCx
           \/ active' = cx /\ change[k].step = "selecting"
        /\ ~ \E x \in GraphCx : CreatedOrUpdated(k, x) \/ Deleted(k, x)
    <3>1. change[k].step # "idle"
      BY <1>6 DEF SelectConnection, ReadStored, CheckActive, ClearActive, KillChange
    <3>2. ~ \E x \in GraphCx : CreatedOrUpdated(k, x) \/ Deleted(k, x)
      BY <3>1 DEF CreatedOrUpdated, Deleted, BeginChange
    <3>3. QED
      BY <1>6, <3>2 DEF SelectConnection, ReadStored, CheckActive, ClearActive,
         KillChange
  <2>2. /\ NewestKept /\ ~overlapped /\ ChangeAlone(k) /\ AtWork = {}
        /\ UNCHANGED <<overlapped, run, connection, published, saved>>
    BY <1>5, <2>1
  <2>3. \/ active' \in {active, NoCx}
        \/ active' = cx /\ connection[cx] = "live"
    BY <2>1, <2>2 DEF ChangeAlone
  <2>4. \A x \in GraphCx : NewestStored(x)'
    <3> HIDE DEF cx
    <3> SUFFICES ASSUME NEW x \in GraphCx PROVE NewestStored(x)'
      OBVIOUS
    <3>1. active' = x => active = x \/ connection[x] # "gone"
      BY <2>3, ProjectionAssumption
    <3>2. QED
      BY <2>1, <2>2, <3>1, StoredFrame DEF NewestKept
  <2>5. QED
    BY <1>1, <2>1, <2>2, <2>4
<1>7. CASE IndexStored(k)
  <2>1. /\ Ingest(cx, change[k].state) /\ Healed(cx) /\ change[k].step = "indexing"
        /\ UNCHANGED <<receipt, active, run, connection, published, saved,
                       latest, overlapped>>
    BY <1>7 DEF IndexStored
  <2>2. ~ \E x \in GraphCx : CreatedOrUpdated(k, x) \/ Deleted(k, x)
    BY <2>1 DEF CreatedOrUpdated, Deleted, BeginChange
  <2>3. /\ NewestKept /\ ~overlapped /\ cx \in GraphCx
        /\ change[k].state = receipt[cx] /\ AtWork = {} /\ AtWork' = {}
    BY <1>5, <2>1, <2>2 DEF ChangeAlone
  <2>4. PICK at \in GraphCx : at = cx
    BY <2>3
  <2> HIDE DEF cx
  <2>5. QED
    BY <2>1, <2>3, <2>4, IndexedNewest
<1>8. CASE Forget(k)
  <2>1. /\ receipt' = [receipt EXCEPT ![cx] = emptySupplierReceiptState]
        /\ change[k].step = "forgetting"
        /\ UNCHANGED <<active, indexed, run, connection, published, saved, latest,
                       overlapped, interrupted>>
    BY <1>8 DEF Forget
  <2>2. ~ \E x \in GraphCx : CreatedOrUpdated(k, x) \/ Deleted(k, x)
    BY <2>1 DEF CreatedOrUpdated, Deleted, BeginChange
  <2>3. /\ NewestKept /\ ~overlapped /\ cx \in GraphCx /\ AtWork = {} /\ AtWork' = {}
        /\ connection[cx] = "gone" /\ active # cx
    BY <1>5, <2>1, <2>2 DEF ChangeAlone
  <2> HIDE DEF cx
  <2>4. /\ receipt'[cx] = emptySupplierReceiptState
        /\ \A x \in GraphCx : x # cx => receipt'[x] = receipt[x]
    BY <1>0, <2>1, <2>3
  <2> SUFFICES ASSUME NEW x \in GraphCx
               PROVE  /\ Numbered(x)' /\ NewestStored(x)' /\ ShownUnderEpic(x)'
                      /\ NewestShown(x)'
    BY DEF NewestKept
  <2>5. Numbered(x) /\ NewestStored(x) /\ ShownUnderEpic(x)
        /\ NewestShown(x)
    BY <2>3 DEF NewestKept
  <2>6. Numbered(x)' /\ ShownUnderEpic(x)'
    BY <2>1, <2>3, <2>5, NumberedFrame DEF ShownUnderEpic
  <2>7. NewestStored(x)'
    <3>1. CASE x # cx
      BY <2>1, <2>4, <2>5, <3>1, StoredFrame
    <3>2. CASE x = cx
      BY <2>1, <2>3, <2>4, <3>2, EmptyState DEF NewestStored
    <3>3. QED
      BY <3>1, <3>2
  <2>8. NewestShown(x)'
    <3>1. CASE x # cx
      BY <2>1, <2>3, <2>4, <2>5, <3>1, ShownFrame
    <3>2. CASE x = cx
      BY <2>1, <2>3, <3>2 DEF NewestShown
    <3>3. QED
      BY <3>1, <3>2
  <2>9. QED
    BY <2>6, <2>7, <2>8
<1>9. QED
  BY <1>2, <1>6, <1>7, <1>8 DEF ConnectionChange

LEMMA InitNewest == Init => NewestKept
<1> SUFFICES ASSUME Init PROVE NewestKept
  OBVIOUS
<1>1. \A cx \in GraphCx : saved[cx] = {} /\ receipt[cx].currentPackage = NoPackage
                          /\ \A e \in Epic : indexed[cx][e] = NoPackage
  BY EmptyState DEF Init
<1>2. QED
  BY <1>1 DEF NewestKept, Numbered, NewestStored, ShownUnderEpic, NewestShown

LEMMA StepNewest == Inv /\ Kept /\ Newest /\ [Next]_vars => Newest'
<1> SUFFICES ASSUME Inv, Kept, Newest, [Next]_vars, ~overlapped' PROVE NewestKept'
  BY DEF Newest
<1>1. CASE UNCHANGED vars
  <2>1. NewestKept
    BY <1>1 DEF vars, Newest
  <2>2. AtWork' = AtWork
    BY <1>1 DEF vars, AtWork
  <2>3. ASSUME NEW cx \in GraphCx
        PROVE  /\ Numbered(cx)' <=> Numbered(cx)
               /\ NewestStored(cx)' <=> NewestStored(cx)
               /\ ShownUnderEpic(cx)' <=> ShownUnderEpic(cx)
               /\ NewestShown(cx)' <=> NewestShown(cx)
    BY <1>1, <2>2 DEF vars, Numbered, NewestStored, ShownUnderEpic, NewestShown,
       Outranks
  <2>4. QED
    BY <2>1, <2>2, <2>3 DEF NewestKept
<1>2. QED
  BY <1>1, PublishingNewest, ChangeNewest DEF Next

-----------------------------------------------------------------------------
\* For any connections, Epics, publications and callbacks: as long as they run
\* one after the other, connections are selected and removed as the platform
\* reports them, the newest package of a connection is the one stored for it,
\* and where its version outranks those before it, the one the graph shows.
THEOREM KeptAlone == Spec => []AloneInvariant
<1>1. Kept /\ Newest => AloneInvariant
  BY DEF Kept, Newest, AloneInvariant
<1>2. Init => Kept /\ Newest
  BY InitKept, InitNewest DEF Kept, Newest
<1>3. QED
  BY <1>1, <1>2, InitInv, StepInv, StepKept, StepNewest, PTL DEF Spec

\* The graph falls behind only where versions collide: however many Epics a
\* connection's packages come from, and wherever a publication fails, the next
\* one, or the next update, makes the graph current.
THEOREM GraphCatchesUp == Spec => []IndexCaughtUp
<1>1. Newest => IndexCaughtUp
  <2> SUFFICES ASSUME Newest, ~overlapped, Resting, NEW cx \in GraphCx,
                      connection[cx] = "live", cx \notin interrupted,
                      receipt[cx].currentPackage # NoPackage, Outranks(cx)
               PROVE  indexed[cx][receipt[cx].currentPackage.epic]
                        = receipt[cx].currentPackage
    BY DEF IndexCaughtUp
  <2>1. NewestShown(cx)
    BY DEF Newest, NewestKept
  <2>2. QED
    BY <2>1 DEF NewestShown, Resting
<1>2. Init => Kept /\ Newest
  BY InitKept, InitNewest DEF Kept, Newest
<1>3. QED
  BY <1>1, <1>2, InitInv, StepInv, StepKept, StepNewest, PTL DEF Spec

\* No other Epic's package was stored for the connection from one to the other.
InARow(cx, old, new) ==
  \A package \in saved[cx] :
    old.publication <= package.publication /\ package.publication <= new.publication
      => package.epic = new.epic

\* What is about to be stored has a greater version than what was stored in a
\* row before it: the row reaches the stored package, which is the newest.
LEMMA InARowGrows ==
  ASSUME Inv, ConnectionsKept, NewestKept, VersionsGrowInARow, ~overlapped,
         NEW r \in Run, run[r].step = "saving", NEW cx \in GraphCx, cx = run[r].cx,
         NEW package \in Package, package = run[r].state.currentPackage,
         NEW old \in saved[cx], InARow(cx, old, package)
  PROVE  old.version < package.version
<1> DEFINE current == receipt[cx].currentPackage
<1>1. /\ active = cx
      /\ package.publication = published
      /\ package.version = nextVersion(receipt[cx], package.epic)
      /\ \A p \in saved[cx] : p.publication < published
  BY SavingNewest
<1>2. /\ saved[cx] \subseteq Package /\ published \in Nat
      /\ receipt[cx] \in SupplierReceiptState
  BY Typed DEF Inv
<1>3. NewestStored(cx) /\ Numbered(cx)
  BY DEF NewestKept
<1>4. current # NoPackage
  BY <1>1, <1>3 DEF NewestStored
<1>5. /\ current \in Package /\ current \in saved[cx] /\ old \in Package
      /\ old.publication <= current.publication
      /\ current.publication < package.publication
  BY <1>1, <1>2, <1>3, <1>4 DEF SupplierReceiptState, NewestStored, Inv,
     StoredSaved, SavedFor
<1>6. current.epic = package.epic
  BY <1>5 DEF InARow, Package
<1>7. package.version = current.version + 1
  BY <1>1, <1>4, <1>6 DEF nextVersion
<1>8. CASE old.publication = current.publication
  <2>1. old = current
    BY <1>3, <1>5, <1>8 DEF Numbered
  <2>2. QED
    BY <1>5, <1>7, <2>1 DEF Package
<1>9. CASE old.publication # current.publication
  <2>1. old.publication < current.publication
    BY <1>5, <1>9 DEF Package
  <2>2. \A p \in saved[cx] :
          old.publication <= p.publication /\ p.publication <= current.publication
            => p.epic = current.epic
    BY <1>2, <1>5, <1>6 DEF InARow, Package
  <2>3. old.version < current.version
    BY <1>5, <2>1, <2>2 DEF VersionsGrowInARow
  <2>4. QED
    BY <1>5, <1>7, <2>3 DEF Package
<1>10. QED
  BY <1>8, <1>9

LEMMA VersionsGrowStep ==
  ASSUME Inv, Kept, Newest, VersionsGrowInARow, [Next]_vars
  PROVE  VersionsGrowInARow'
<1>1. ASSUME saved' = saved, ~overlapped' => ~overlapped
      PROVE  VersionsGrowInARow'
  BY <1>1 DEF VersionsGrowInARow
<1>2. ASSUME NEW r \in Run, SavePromotion(r)
      PROVE  VersionsGrowInARow'
  <2> DEFINE cx == run[r].cx
             package == run[r].state.currentPackage
  <2> SUFFICES ASSUME ~overlapped', NEW x \in GraphCx,
                      NEW old \in saved'[x], NEW new \in saved'[x],
                      old.publication < new.publication, InARow(x, old, new)'
               PROVE  old.version < new.version
    BY DEF VersionsGrowInARow, InARow
  <2>1. /\ run[r].step = "saving" /\ ~overlapped
        /\ saved' = [saved EXCEPT ![cx] = saved[cx] \cup {package}]
    BY <1>2 DEF SavePromotion
  <2>2. ConnectionsKept /\ NewestKept
    BY <2>1 DEF Kept, Newest
  <2>3. /\ cx \in GraphCx /\ package \in Package
        /\ package.publication = published
        /\ \A p \in saved[cx] : p.publication < published
    BY <2>1, <2>2, SavingNewest
  <2>4. saved \in [GraphCx -> SUBSET Package] /\ published \in Nat
    BY <2>3, Typed DEF Inv
  <2>5. /\ saved'[cx] = saved[cx] \cup {package}
        /\ x # cx => saved'[x] = saved[x]
    BY <2>1, <2>3, <2>4
  <2>6. InARow(x, old, new)
    BY <2>5 DEF InARow
  <2>7. CASE old \in saved[x] /\ new \in saved[x]
    BY <2>1, <2>6, <2>7 DEF VersionsGrowInARow, InARow
  <2>8. CASE x = cx /\ new = package /\ old \in saved[x]
    BY <2>1, <2>2, <2>3, <2>6, <2>8, InARowGrows
  <2>9. CASE x = cx /\ old = package
    <3>1. \A p \in saved[cx] : p.publication \in Nat
      BY <2>3, <2>4 DEF Package
    <3>2. QED
      BY <2>3, <2>4, <2>5, <2>9, <3>1
  <2>10. QED
    BY <2>5, <2>7, <2>8, <2>9
<1>3. CASE UNCHANGED vars
  BY <1>1, <1>3 DEF vars
<1>4. ASSUME NEW r \in Run, Publishing(r), ~SavePromotion(r)
      PROVE  VersionsGrowInARow'
  <2>1. ASSUME NEW epic \in Epic, BeginPublish(r, epic)
        PROVE  VersionsGrowInARow'
    BY <1>1, <2>1, BeginsAlone DEF Inv, BeginPublish
  <2>2. CASE PromotePackage(r) \/ ReadBack(r) \/ IndexPromotion(r) \/ KillRun(r)
    BY <1>1, <2>2 DEF PromotePackage, ReadBack, IndexPromotion, KillRun
  <2>3. QED
    BY <1>4, <2>1, <2>2 DEF Publishing
<1>5. ASSUME NEW k \in Change, ConnectionChange(k)
      PROVE  VersionsGrowInARow'
  <2>1. saved' = saved /\ (~overlapped' => ~overlapped)
    BY <1>5, Typed DEF Inv, ConnectionChange, CreatedOrUpdated, Deleted, BeginChange,
       NoteOverlap, SelectConnection, ReadStored, IndexStored, CheckActive,
       ClearActive, Forget, KillChange
  <2>2. QED
    BY <1>1, <2>1
<1>6. QED
  BY <1>2, <1>3, <1>4, <1>5 DEF Next

\* While publications run one after the other, those of one Epic in a row have
\* growing versions, for any Epics, connections and failures in between: only a
\* package of another Epic stored between makes the count start again.
THEOREM VersionsCountUp == Spec => []VersionsGrowInARow
<1>1. Init => VersionsGrowInARow
  BY DEF Init, VersionsGrowInARow
<1>2. Init => Kept /\ Newest
  BY InitKept, InitNewest DEF Kept, Newest
<1>3. Inv /\ Kept /\ Newest /\ VersionsGrowInARow /\ [Next]_vars
        => VersionsGrowInARow'
  BY VersionsGrowStep
<1>4. QED
  BY <1>1, <1>2, <1>3, InitInv, StepInv, StepKept, StepNewest, PTL DEF Spec
=============================================================================
