------------------------- MODULE GenerationsProofs -------------------------
(***************************************************************************)
(* Proofs about Generations, for every set of generations, sources,        *)
(* contents, workers and calibrations.                                     *)
(***************************************************************************)
EXTENDS Generations, FiniteSetTheorems, TLAPS

Busy == {"next", "reusing", "embedded", "writing", "graphed", "failing"}
HasSource == {"reusing", "embedded", "writing"}
HoldsLock == {"reusing", "writing"}

\* A worker inside build or validate works on a generation, and between the
\* opening of a source's transaction and its end it has that source in hand.
LocalOK ==
    \A w \in Workers : /\ pc[w] \in Busy => job[w] \in Gens
                       /\ pc[w] \in HasSource => cur[w] \in Sources

TypeInv == TypeOK /\ LocalOK

LEMMA InitTypeInv == Init => TypeInv
<1> SUFFICES ASSUME Init PROVE TypeInv
  OBVIOUS
<1> USE DEF Init, NoRows, NoGraph, NoRecord, Record
<1>1. DbTypeOK
  BY DEF DbTypeOK, GraphType
<1>2. TenantTypeOK
  BY BooleanAssumption DEF TenantTypeOK, RecordType
<1>3. CalTypeOK
  BY DEF CalTypeOK, CalType, CalStates
<1>4. WorkTypeOK /\ LocalOK
  BY DEF WorkTypeOK, GraphType, PCs, LocalOK, Busy, HasSource
<1> QED
  BY <1>1, <1>2, <1>3, <1>4 DEF TypeInv, TypeOK

LEMMA SourcesOfType ==
    ASSUME NEW f PROVE SourcesOf(f) \subseteq Sources
BY DEF SourcesOf

LEMMA ExcludedType ==
    ASSUME NEW m, NEW dead PROVE Excluded(m, dead) \subseteq Sources
BY DEF Excluded, SourcesOf

LEMMA StoredType ==
    ASSUME NEW g \in Gens, NEW s \in Sources,
           NEW f \in [Gens -> [Sources -> Versions \cup {Nil}]], NEW v \in Versions \cup {Nil}
    PROVE [f EXCEPT ![g][s] = v] \in [Gens -> [Sources -> Versions \cup {Nil}]]
OBVIOUS

LEMMA GraphOfType ==
    ASSUME TypeOK, NEW g \in Gens PROVE GraphOf(g) \in GraphType
BY SourcesOfType DEF GraphOf, GraphType, TypeOK, DbTypeOK

LEMMA NoGraphType == NoGraph \in GraphType
BY DEF NoGraph, GraphType

LEMMA RecordOfType ==
    ASSUME NEW kind \in {"forgotten", "withdrawn"}, NEW v, NEW prior \in RecordType
    PROVE RecordOf(kind, v, prior) \in RecordType
BY DEF RecordOf, Record, RecordType

LEMMA TypeInvStep == TypeInv /\ [Next]_vars => TypeInv'
<1> SUFFICES ASSUME TypeInv, [Next]_vars PROVE TypeInv'
  OBVIOUS
<1> USE DEF TypeInv, TypeOK
<1>1. ASSUME NEW g \in Gens, NEW m \in Manifests, Create(g, m) PROVE TypeInv'
  <2>1. DbTypeOK'
    BY <1>1, ExcludedType, ManifestAssumption DEF Create, InsertGeneration, Live, DbTypeOK,
       TenantTypeOK, WorkTypeOK, LocalOK, Busy, HasSource
  <2>2. TenantTypeOK'
    BY <1>1 DEF Create, InsertGeneration, TenantTypeOK, ptrVars
  <2> QED
    BY <1>1, <2>1, <2>2 DEF Create, CalTypeOK, WorkTypeOK, LocalOK, workVars
<1>2. ASSUME NEW w \in Workers, CreateFirstRead(w) PROVE TypeInv'
  <2>1. WorkTypeOK' /\ LocalOK'
    BY <1>2 DEF CreateFirstRead, Goto, WorkTypeOK, PCs, LocalOK, Busy, HasSource, DbTypeOK,
       TenantTypeOK
  <2> QED
    BY <1>2, <2>1 DEF CreateFirstRead, DbTypeOK, dbVars, TenantTypeOK, ptrVars, ptrVars, CalTypeOK
<1>3. ASSUME NEW w \in Workers, NEW g \in Gens, NEW m \in Manifests, CreateFirstCommit(w, g, m)
      PROVE TypeInv'
  <2>1. DbTypeOK'
    BY <1>3, ExcludedType, ManifestAssumption DEF CreateFirstCommit, InsertGeneration, Live,
       DbTypeOK, TenantTypeOK, WorkTypeOK, LocalOK, Busy, HasSource
  <2>2. TenantTypeOK'
    BY <1>3 DEF CreateFirstCommit, InsertGeneration, TenantTypeOK, ptrVars
  <2>3. WorkTypeOK' /\ LocalOK'
    BY <1>3 DEF CreateFirstCommit, Goto, WorkTypeOK, PCs, LocalOK, Busy, HasSource
  <2> QED
    BY <1>3, <2>1, <2>2, <2>3 DEF CreateFirstCommit, CalTypeOK
<1>4. ASSUME NEW w \in Workers, NEW g \in Gens, BuildStart(w, g) PROVE TypeInv'
  <2>1. WorkTypeOK' /\ LocalOK'
    BY <1>4, SourcesOfType DEF BuildStart, Goto, WorkTypeOK, PCs, LocalOK, Busy, HasSource,
       DbTypeOK, TenantTypeOK
  <2> QED
    BY <1>4, <2>1 DEF BuildStart, DbTypeOK, dbVars, TenantTypeOK, ptrVars, ptrVars, CalTypeOK
<1>5. ASSUME NEW w \in Workers, NEW s \in Sources, LockForReuse(w, s) PROVE TypeInv'
  <2>1. TenantTypeOK'
    BY <1>5 DEF LockForReuse, Lock, TenantTypeOK, ptrVars
  <2>2. WorkTypeOK' /\ LocalOK'
    BY <1>5 DEF LockForReuse, Goto, Drop, WorkTypeOK, PCs, LocalOK, Busy, HasSource
  <2> QED
    BY <1>5, <2>1, <2>2 DEF LockForReuse, DbTypeOK, dbVars, CalTypeOK
<1>6. ASSUME NEW w \in Workers, Reuse(w) PROVE TypeInv'
  <2>1. /\ job[w] \in Gens
        /\ cur[w] \in Sources
        /\ manifest[job[w]][cur[w]] \in Versions \cup {Nil}
    BY <1>6 DEF Reuse, LocalOK, Busy, HasSource, DbTypeOK
  <2>2. \/ rows' = [rows EXCEPT ![job[w]][cur[w]] = manifest[job[w]][cur[w]]]
        \/ rows' = rows
    BY <1>6 DEF Reuse, StoreSource
  <2>3. rows' \in [Gens -> [Sources -> Versions \cup {Nil}]]
    <3>1. [rows EXCEPT ![job[w]][cur[w]] = manifest[job[w]][cur[w]]]
              \in [Gens -> [Sources -> Versions \cup {Nil}]]
      BY <2>1, StoredType DEF DbTypeOK
    <3> QED
      BY <2>2, <3>1 DEF DbTypeOK
  <2>4. DbTypeOK'
    BY <1>6, <2>3 DEF Reuse, DbTypeOK
  <2>5. TenantTypeOK'
    BY <1>6 DEF Reuse, Unlock, TenantTypeOK, ptrVars
  <2>6. WorkTypeOK' /\ LocalOK'
    BY <1>6, <2>1 DEF Reuse, StoreSource, Goto, Drop, WorkTypeOK, PCs, LocalOK, Busy, HasSource
  <2> QED
    BY <1>6, <2>4, <2>5, <2>6 DEF Reuse, CalTypeOK
<1>7. ASSUME NEW w \in Workers, LockForWrite(w) PROVE TypeInv'
  <2>1. TenantTypeOK'
    BY <1>7 DEF LockForWrite, Lock, TenantTypeOK, ptrVars
  <2>2. WorkTypeOK' /\ LocalOK'
    BY <1>7 DEF LockForWrite, Goto, Drop, WorkTypeOK, PCs, LocalOK, Busy, HasSource
  <2> QED
    BY <1>7, <2>1, <2>2 DEF LockForWrite, DbTypeOK, dbVars, CalTypeOK
<1>8. ASSUME NEW w \in Workers, Write(w) PROVE TypeInv'
  <2>1. /\ job[w] \in Gens
        /\ cur[w] \in Sources
        /\ manifest[job[w]][cur[w]] \in Versions \cup {Nil}
    BY <1>8 DEF Write, LocalOK, Busy, HasSource, DbTypeOK
  <2>2. \/ rows' = [rows EXCEPT ![job[w]][cur[w]] = manifest[job[w]][cur[w]]]
        \/ rows' = rows
    BY <1>8 DEF Write, StoreSource
  <2>3. rows' \in [Gens -> [Sources -> Versions \cup {Nil}]]
    <3>1. [rows EXCEPT ![job[w]][cur[w]] = manifest[job[w]][cur[w]]]
              \in [Gens -> [Sources -> Versions \cup {Nil}]]
      BY <2>1, StoredType DEF DbTypeOK
    <3> QED
      BY <2>2, <3>1 DEF DbTypeOK
  <2>4. DbTypeOK'
    BY <1>8, <2>3 DEF Write, DbTypeOK
  <2>5. TenantTypeOK'
    BY <1>8 DEF Write, Unlock, TenantTypeOK, ptrVars
  <2>6. WorkTypeOK' /\ LocalOK'
    BY <1>8, <2>1 DEF Write, StoreSource, Goto, Drop, WorkTypeOK, PCs, LocalOK, Busy, HasSource
  <2> QED
    BY <1>8, <2>4, <2>5, <2>6 DEF Write, CalTypeOK
<1>9. ASSUME NEW w \in Workers, BuildGraph(w) PROVE TypeInv'
  <2>1. job[w] \in Gens
    BY <1>9 DEF BuildGraph, LocalOK, Busy
  <2>2. GraphOf(job[w]) \in GraphType /\ SourcesOf(rows[job[w]]) \in SUBSET Sources
    BY <2>1, GraphOfType, SourcesOfType
  <2>3. DbTypeOK'
    BY <1>9, <2>1, <2>2 DEF BuildGraph, DbTypeOK
  <2>4. WorkTypeOK' /\ LocalOK'
    BY <1>9, <2>1, <2>2 DEF BuildGraph, Goto, WorkTypeOK, PCs, LocalOK, Busy, HasSource
  <2> QED
    BY <1>9, <2>3, <2>4 DEF BuildGraph, TenantTypeOK, ptrVars, CalTypeOK
<1>10. ASSUME NEW w \in Workers, MarkValidating(w) PROVE TypeInv'
  <2>1. job[w] \in Gens /\ done[w] \in SUBSET Sources /\ built[w] \in GraphType
    BY <1>10 DEF MarkValidating, LocalOK, Busy, WorkTypeOK
  <2>2. DbTypeOK'
    BY <1>10, <2>1 DEF MarkValidating, Live, DbTypeOK
  <2>3. WorkTypeOK' /\ LocalOK'
    BY <1>10, NoGraphType
    DEF MarkValidating, Return, Goto, WorkTypeOK, PCs, LocalOK, Busy, HasSource
  <2> QED
    BY <1>10, <2>2, <2>3 DEF MarkValidating, TenantTypeOK, ptrVars, CalTypeOK
<1>11. ASSUME NEW w \in Workers, BuildError(w) PROVE TypeInv'
  <2>1. TenantTypeOK'
    BY <1>11 DEF BuildError, Unlock, TenantTypeOK, ptrVars
  <2>2. WorkTypeOK' /\ LocalOK'
    BY <1>11 DEF BuildError, Goto, WorkTypeOK, PCs, LocalOK, Busy, HasSource
  <2> QED
    BY <1>11, <2>1, <2>2 DEF BuildError, DbTypeOK, dbVars, CalTypeOK
<1>12. ASSUME NEW w \in Workers, Fail(w) PROVE TypeInv'
  <2>1. DbTypeOK'
    BY <1>12 DEF Fail, Live, DbTypeOK
  <2>2. WorkTypeOK' /\ LocalOK'
    BY <1>12, NoGraphType DEF Fail, Return, Goto, WorkTypeOK, PCs, LocalOK, Busy, HasSource
  <2> QED
    BY <1>12, <2>1, <2>2 DEF Fail, TenantTypeOK, ptrVars, ptrVars, CalTypeOK
<1>13. ASSUME NEW g \in Gens, FailDirect(g) PROVE TypeInv'
  <2>1. DbTypeOK'
    BY <1>13 DEF FailDirect, Live, DbTypeOK
  <2> QED
    BY <1>13, <2>1 DEF FailDirect, TenantTypeOK, ptrVars, ptrVars, CalTypeOK, WorkTypeOK, LocalOK,
       workVars
<1>14. ASSUME NEW w \in Workers, Crash(w) PROVE TypeInv'
  <2>1. TenantTypeOK'
    BY <1>14 DEF Crash, Unlock, TenantTypeOK, ptrVars
  <2>2. WorkTypeOK' /\ LocalOK'
    BY <1>14, NoGraphType DEF Crash, Return, Goto, WorkTypeOK, PCs, LocalOK, Busy, HasSource
  <2> QED
    BY <1>14, <2>1, <2>2 DEF Crash, DbTypeOK, dbVars, CalTypeOK
<1>15. ASSUME NEW g \in Gens, NEW older \in BOOLEAN, Validate(g, older) PROVE TypeInv'
  <2>1. GraphOf(g) \in GraphType /\ SourcesOf(rows[g]) \in SUBSET Sources
    BY GraphOfType, SourcesOfType
  <2>2. DbTypeOK'
    BY <1>15, <2>1 DEF Validate, Live, DbTypeOK
  <2> QED
    BY <1>15, <2>2 DEF Validate, TenantTypeOK, ptrVars, CalTypeOK, WorkTypeOK, LocalOK, workVars
<1>16. ASSUME NEW w \in Workers, NEW g \in Gens, ValidateError(w, g) PROVE TypeInv'
  <2>1. WorkTypeOK' /\ LocalOK'
    BY <1>16 DEF ValidateError, Goto, WorkTypeOK, PCs, LocalOK, Busy, HasSource
  <2> QED
    BY <1>16, <2>1 DEF ValidateError, DbTypeOK, dbVars, TenantTypeOK, ptrVars, ptrVars, CalTypeOK
<1>17. ASSUME NEW g \in Gens, RebuildGraph(g) PROVE TypeInv'
  <2>1. DbTypeOK'
    BY <1>17, SourcesOfType, GraphOfType DEF RebuildGraph, DbTypeOK
  <2> QED
    BY <1>17, <2>1 DEF RebuildGraph, TenantTypeOK, ptrVars, ptrVars, CalTypeOK, WorkTypeOK,
       LocalOK, workVars
<1>18. ASSUME NEW g \in Gens, DeleteGraph(g) PROVE TypeInv'
  <2>1. DbTypeOK'
    BY <1>18, NoGraphType DEF DeleteGraph, DbTypeOK
  <2> QED
    BY <1>18, <2>1 DEF DeleteGraph, TenantTypeOK, ptrVars, ptrVars, CalTypeOK, WorkTypeOK,
       LocalOK, workVars
<1>19. ASSUME NEW g \in Gens, Promote(g) PROVE TypeInv'
  <2>1. state' \in [Gens -> Live \cup {"absent", "collected"}]
    BY <1>19 DEF Promote, Live, DbTypeOK
  <2>2. retiredAfter' \in [Gens -> SUBSET Gens]
    BY <1>19 DEF Promote, Retire, DbTypeOK
  <2>3. DbTypeOK'
    BY <1>19, <2>1, <2>2 DEF Promote, DbTypeOK
  <2>4. standing' \in [Sources -> RecordType]
    BY <1>19, RecordOfType DEF Promote, OmittedRecords, TenantTypeOK
  <2>5. TenantTypeOK'
    BY <1>19, <2>4 DEF Promote, TenantTypeOK
  <2> QED
    BY <1>19, <2>3, <2>5 DEF Promote, CalTypeOK, WorkTypeOK, LocalOK, workVars
<1>20. ASSUME Rollback PROVE TypeInv'
  <2>1. DbTypeOK'
    BY <1>20 DEF Rollback, Live, DbTypeOK, TenantTypeOK, WorkTypeOK, LocalOK, Busy, HasSource
  <2>2. TenantTypeOK'
    BY <1>20 DEF Rollback, TenantTypeOK, ptrVars
  <2> QED
    BY <1>20, <2>1, <2>2 DEF Rollback, CalTypeOK, WorkTypeOK, LocalOK, workVars
<1>21. ASSUME NEW g \in Gens, Abandon(g) PROVE TypeInv'
  <2>1. DbTypeOK'
    BY <1>21 DEF Abandon, Live, DbTypeOK
  <2> QED
    BY <1>21, <2>1 DEF Abandon, TenantTypeOK, ptrVars, ptrVars, CalTypeOK, WorkTypeOK, LocalOK,
       workVars
<1>22. ASSUME NEW s \in Sources, NEW kind \in {"forgotten", "withdrawn"}, Forget(s, kind)
      PROVE TypeInv'
  <2>1. DbTypeOK'
    BY <1>22, ExcludedType DEF Forget, DbTypeOK
  <2>2. \E v : standing' = [standing EXCEPT ![s] = RecordOf(kind, v, @)]
    BY <1>22 DEF Forget
  <2>3. standing' \in [Sources -> RecordType]
    BY <2>2, RecordOfType DEF TenantTypeOK
  <2>4. TenantTypeOK'
    BY <1>22, <2>3 DEF Forget, TenantTypeOK, ptrVars
  <2>5. \A c \in Cals : cal'[c] \in {cal[c], [cal[c] EXCEPT !.state = "superseded"]}
    BY <1>22 DEF Forget
  <2>6. \A c \in Cals : cal'[c] \in CalType
    BY <2>5 DEF CalTypeOK, CalType, CalStates
  <2>7. CalTypeOK'
    BY <1>22, <2>6 DEF Forget, CalTypeOK
  <2> QED
    BY <1>22, <2>1, <2>4, <2>7 DEF Forget, WorkTypeOK, LocalOK, workVars
<1>23. ASSUME NEW aged \in SUBSET Gens, Gc(aged) PROVE TypeInv'
  <2>1. DbTypeOK'
    BY <1>23, NoGraphType DEF Gc, NoRows, DbTypeOK
  <2>2. CalTypeOK'
    BY <1>23 DEF Gc, CalType, CalStates, CalTypeOK
  <2> QED
    BY <1>23, <2>1, <2>2 DEF Gc, TenantTypeOK, ptrVars, ptrVars, WorkTypeOK, LocalOK, workVars
<1>24. ASSUME NEW c \in Cals, NEW g \in Gens, CalibrateRead(c, g) PROVE TypeInv'
  <2>1. CalTypeOK'
    BY <1>24 DEF CalibrateRead, CalType, CalStates, CalTypeOK, DbTypeOK
  <2> QED
    BY <1>24, <2>1 DEF CalibrateRead, DbTypeOK, dbVars, TenantTypeOK, ptrVars, ptrVars,
       WorkTypeOK, LocalOK, workVars
<1>25. ASSUME NEW c \in Cals, CalibrateScore(c) PROVE TypeInv'
  <2>1. CalTypeOK'
    BY <1>25, SourcesOfType DEF CalibrateScore, CalType, CalStates, CalTypeOK, DbTypeOK
  <2> QED
    BY <1>25, <2>1 DEF CalibrateScore, DbTypeOK, dbVars, TenantTypeOK, ptrVars, ptrVars,
       WorkTypeOK, LocalOK, workVars
<1>26. ASSUME NEW c \in Cals, NEW certified \in BOOLEAN, CalibrateStore(c, certified)
      PROVE TypeInv'
  <2>1. CalTypeOK'
    BY <1>26 DEF CalibrateStore, CalType, CalStates, CalTypeOK
  <2> QED
    BY <1>26, <2>1 DEF CalibrateStore, DbTypeOK, dbVars, TenantTypeOK, ptrVars, ptrVars,
       WorkTypeOK, LocalOK, workVars
<1>27. ASSUME NEW c \in Cals, CalibrateError(c) PROVE TypeInv'
  <2>1. CalTypeOK'
    BY <1>27 DEF CalibrateError, CalType, CalStates, CalTypeOK
  <2> QED
    BY <1>27, <2>1 DEF CalibrateError, DbTypeOK, dbVars, TenantTypeOK, ptrVars, ptrVars,
       WorkTypeOK, LocalOK, workVars
<1>28. ASSUME NEW c \in Cals, Publish(c) PROVE TypeInv'
  <2>1. CalTypeOK'
    BY <1>28 DEF Publish, CalType, CalStates, CalTypeOK
  <2> QED
    BY <1>28, <2>1 DEF Publish, DbTypeOK, dbVars, TenantTypeOK, ptrVars, ptrVars, WorkTypeOK,
       LocalOK, workVars
<1>29. CASE UNCHANGED vars
  BY <1>29 DEF vars, dbVars, ptrVars, workVars, DbTypeOK, TenantTypeOK, CalTypeOK, WorkTypeOK,
            LocalOK
<1> QED
  BY <1>1, <1>2, <1>3, <1>4, <1>5, <1>6, <1>7, <1>8, <1>9, <1>10, <1>11, <1>12, <1>13, <1>14,
     <1>15, <1>16, <1>17, <1>18, <1>19, <1>20, <1>21, <1>22, <1>23, <1>24, <1>25, <1>26, <1>27,
     <1>28, <1>29
  DEF Next, WorkerStep, OperatorStep, CalibrationStep, CarryForwardRead

\* Every row of the schema and every local of a worker keeps its shape, on every
\* path of build, validate, promote, forget, gc and calibrate.
THEOREM TypeCorrect == Spec => []TypeOK
<1>1. Spec => []TypeInv
  BY InitTypeInv, TypeInvStep, PTL DEF Spec
<1> QED
  BY <1>1, PTL DEF TypeInv

-----------------------------------------------------------------------------
(***************************************************************************)
(* The serving pointers                                                    *)
(***************************************************************************)
\* The state changes the handlers other than promote and rollback make.
Ordinary ==
    /\ UNCHANGED <<active, previous>>
    /\ \A g \in Gens : state'[g] # state[g] =>
          \/ state[g] = "absent" /\ state'[g] = "building"
          \/ state[g] = "building" /\ state'[g] \in {"validating", "failed"}
          \/ state[g] = "validating" /\ state'[g] \in {"ready", "failed"}
          \/ state[g] = "ready" /\ state'[g] = "failed" /\ g \notin Protected
          \/ /\ state[g] \in {"retired", "failed"} /\ g \notin Protected
             /\ state'[g] = "collected" /\ rows'[g] = NoRows

LEMMA WorkerStates ==
    ASSUME TypeInv, NEW w \in Workers, WorkerStep(w) PROVE Ordinary
<1> USE DEF TypeInv, TypeOK, DbTypeOK, Ordinary, dbVars, ptrVars
<1>1. CASE CreateFirstRead(w)
  BY <1>1 DEF CreateFirstRead
<1>2. CASE \E g \in Gens : BuildStart(w, g) \/ ValidateError(w, g)
  BY <1>2 DEF BuildStart, ValidateError
<1>3. CASE \E g \in Gens, m \in Manifests : CreateFirstCommit(w, g, m)
  BY <1>3 DEF CreateFirstCommit, InsertGeneration, Newest
<1>4. CASE \E s \in Sources : LockForReuse(w, s)
  BY <1>4 DEF LockForReuse
<1>5. CASE Reuse(w) \/ LockForWrite(w) \/ Write(w) \/ BuildGraph(w)
  BY <1>5 DEF Reuse, LockForWrite, Write, BuildGraph
<1>6. CASE MarkValidating(w)
  BY <1>6 DEF MarkValidating
<1>7. CASE BuildError(w) \/ Crash(w)
  BY <1>7 DEF BuildError, Crash
<1>8. CASE Fail(w)
  BY <1>8 DEF Fail, Failable
<1> QED
  BY <1>1, <1>2, <1>3, <1>4, <1>5, <1>6, <1>7, <1>8 DEF WorkerStep

LEMMA OperatorStates ==
    ASSUME TypeInv, OperatorStep
    PROVE Ordinary \/ Rollback \/ \E g \in Gens : Promote(g)
<1> USE DEF TypeInv, TypeOK, DbTypeOK, Ordinary, dbVars, ptrVars
<1>1. CASE \E g \in Gens, m \in Manifests : Create(g, m)
  BY <1>1 DEF Create, InsertGeneration, Newest
<1>2. CASE \E g \in Gens, older \in BOOLEAN : Validate(g, older)
  BY <1>2 DEF Validate
<1>3. CASE \E g \in Gens : RebuildGraph(g) \/ DeleteGraph(g)
  BY <1>3 DEF RebuildGraph, DeleteGraph
<1>4. CASE \E g \in Gens : Abandon(g) \/ FailDirect(g)
  BY <1>4 DEF Abandon, FailDirect, Failable
<1>5. CASE \E s \in Sources, kind \in {"forgotten", "withdrawn"} : Forget(s, kind)
  BY <1>5 DEF Forget
<1>6. CASE \E aged \in SUBSET Gens : Gc(aged)
  BY <1>6 DEF Gc, Garbage
<1> QED
  BY <1>1, <1>2, <1>3, <1>4, <1>5, <1>6 DEF OperatorStep

\* Only promote and rollback move the pointers; every other step changes states
\* along the lifecycle, and never that of a generation behind a pointer.
LEMMA StateStep ==
    ASSUME TypeInv, [Next]_vars
    PROVE Ordinary \/ Rollback \/ \E g \in Gens : Promote(g)
<1>1. CASE CalibrationStep
  BY <1>1 DEF CalibrationStep, CarryForwardRead, CalibrateRead, CalibrateScore, CalibrateError,
              Publish, CalibrateStore, Ordinary, dbVars, ptrVars
<1>2. CASE UNCHANGED vars
  BY <1>2 DEF vars, Ordinary, dbVars, ptrVars
<1> QED
  BY <1>1, <1>2, WorkerStates, OperatorStates DEF Next

LEMMA PointersStep ==
    ASSUME TypeInv, PointersSafe, [Next]_vars PROVE PointersSafe'
<1> USE NilAssumption DEF TypeInv, TypeOK, DbTypeOK, TenantTypeOK, PointersSafe
<1>1. CASE Ordinary
  BY <1>1 DEF Ordinary, Protected
<1>2. CASE Rollback
  BY <1>2 DEF Rollback
<1>3. CASE \E g \in Gens : Promote(g)
  BY <1>3 DEF Promote
<1> QED
  BY <1>1, <1>2, <1>3, StateStep

\* Whatever promotions, rollbacks, abandons, failures and collections do, the
\* active pointer names the one active generation and the previous pointer one
\* that rollback accepts.
THEOREM PointersAlwaysSafe == Spec => []PointersSafe
<1>1. Init => PointersSafe
  BY NilAssumption DEF Init, PointersSafe
<1>2. TypeInv /\ PointersSafe /\ [Next]_vars => PointersSafe'
  BY PointersStep
<1> QED
  BY <1>1, <1>2, InitTypeInv, TypeInvStep, PTL DEF Spec

\* No late error of a build or a validation, and no collection, demotes a
\* generation that passed validation; abandon does, but never behind a pointer.
THEOREM LateFailuresHarmless == Spec => LateFailureHarmless
<1> DEFINE Harmless ==
        \A g \in Gens : state[g] \in Readable /\ state'[g] = "failed"
            => state[g] = "ready" /\ g \notin Protected
<1>1. ASSUME TypeInv, PointersSafe, [Next]_vars PROVE [Harmless]_vars
  <2> USE DEF Readable, TypeInv, TypeOK, DbTypeOK
  <2>1. CASE Ordinary
    BY <2>1 DEF Ordinary
  <2>2. CASE Rollback
    BY <2>2 DEF Rollback
  <2>3. CASE \E g \in Gens : Promote(g)
    BY <2>3 DEF Promote
  <2> QED
    BY <1>1, <2>1, <2>2, <2>3, StateStep
<1>2. Spec => [](TypeInv /\ PointersSafe)
  BY PointersAlwaysSafe, InitTypeInv, TypeInvStep, PTL DEF Spec
<1> QED
  BY <1>1, <1>2, PTL DEF Spec, LateFailureHarmless

-----------------------------------------------------------------------------
(***************************************************************************)
(* Erasure.  NoResurrection is not inductive: a worker between the opening *)
(* of a source's transaction and its end could hold an erased source.  It  *)
(* cannot, because it holds the source's lock and forget needs it; and     *)
(* forget reaches every row because a generation without a row in          *)
(* recall_generations has none in recall_chunks_v1.                        *)
(***************************************************************************)
LocksHeld ==
    \A w \in Workers : pc[w] \in HoldsLock => /\ srcLock[cur[w]] = w
                                               /\ cur[w] \notin tombstones
RowsOnlyLive == \A g \in Gens : state[g] \notin Live => rows[g] = NoRows

ErasureInv == LocksHeld /\ RowsOnlyLive /\ NoResurrection

LEMMA LocksHeldStep ==
    ASSUME TypeInv, LocksHeld, [Next]_vars PROVE LocksHeld'
<1> USE NilAssumption DEF TypeInv, TypeOK, TenantTypeOK, WorkTypeOK, PCs, LocalOK, Busy, HasSource,
                          LocksHeld, HoldsLock, dbVars, ptrVars, workVars, Goto
<1>1. ASSUME NEW w \in Workers, WorkerStep(w) PROVE LocksHeld'
  <2>1. CASE CreateFirstRead(w)
    BY <2>1 DEF CreateFirstRead
  <2>2. CASE \E g \in Gens : BuildStart(w, g) \/ ValidateError(w, g)
    BY <2>2 DEF BuildStart, ValidateError
  <2>3. CASE \E g \in Gens, m \in Manifests : CreateFirstCommit(w, g, m)
    BY <2>3 DEF CreateFirstCommit
  <2>4. CASE \E s \in Sources : LockForReuse(w, s)
    BY <2>4 DEF LockForReuse, Lock
  <2>5. CASE Reuse(w)
    BY <2>5 DEF Reuse, Unlock, StoreSource
  <2>6. CASE LockForWrite(w)
    BY <2>6 DEF LockForWrite, Lock
  <2>7. CASE Write(w)
    BY <2>7 DEF Write, Unlock, StoreSource
  <2>8. CASE BuildGraph(w)
    BY <2>8 DEF BuildGraph
  <2>9. CASE MarkValidating(w)
    BY <2>9 DEF MarkValidating, Return
  <2>10. CASE BuildError(w)
    BY <2>10 DEF BuildError, Unlock
  <2>11. CASE Fail(w)
    BY <2>11 DEF Fail, Return
  <2>12. CASE Crash(w)
    BY <2>12 DEF Crash, Unlock, Return
  <2> QED
    BY <1>1, <2>1, <2>2, <2>3, <2>4, <2>5, <2>6, <2>7, <2>8, <2>9, <2>10, <2>11, <2>12
    DEF WorkerStep
<1>2. ASSUME NEW s \in Sources, NEW kind \in {"forgotten", "withdrawn"}, Forget(s, kind)
      PROVE LocksHeld'
  BY <1>2 DEF Forget, SourceFree
<1>3. CASE OperatorStep
  BY <1>2, <1>3 DEF OperatorStep, Create, InsertGeneration, Validate, RebuildGraph, DeleteGraph,
                    Promote, Abandon, FailDirect, Rollback, Gc
<1>4. CASE CalibrationStep
  BY <1>4 DEF CalibrationStep, CarryForwardRead, CalibrateRead, CalibrateScore, CalibrateError,
              Publish, CalibrateStore
<1>5. CASE UNCHANGED vars
  BY <1>5 DEF vars
<1> QED
  BY <1>1, <1>3, <1>4, <1>5 DEF Next

\* The rows change when a worker that holds the lock of a source that is not
\* erased stores it, when a source is erased, and when generations are collected.
Stored(w) ==
    /\ Reuse(w) \/ Write(w)
    /\ pc[w] \in HoldsLock
    /\ Insertable(job[w], cur[w])
    /\ rows' = [rows EXCEPT ![job[w]][cur[w]] = manifest[job[w]][cur[w]]]
    /\ UNCHANGED <<state, tombstones, manifest, corpusFp>>

LEMMA RowStep ==
    ASSUME TypeInv, [Next]_vars
    PROVE \/ UNCHANGED <<rows, tombstones>>
          \/ \E w \in Workers : Stored(w)
          \/ \E s \in Sources, kind \in {"forgotten", "withdrawn"} : Forget(s, kind)
          \/ \E aged \in SUBSET Gens : Gc(aged)
<1> USE DEF dbVars, ptrVars
<1>1. ASSUME NEW w \in Workers, WorkerStep(w) PROVE UNCHANGED <<rows, tombstones>> \/ Stored(w)
  BY <1>1 DEF WorkerStep, CreateFirstRead, BuildStart, ValidateError, CreateFirstCommit,
     InsertGeneration, LockForReuse, Reuse, StoreSource, LockForWrite, Write, BuildGraph,
     MarkValidating, BuildError, Fail, Crash, Stored, HoldsLock
<1>2. CASE OperatorStep
  BY <1>2 DEF OperatorStep, Create, InsertGeneration, Validate, RebuildGraph, DeleteGraph,
              Promote, Abandon, FailDirect, Rollback
<1>3. CASE CalibrationStep
  BY <1>3 DEF CalibrationStep, CarryForwardRead, CalibrateRead, CalibrateScore, CalibrateError,
              Publish, CalibrateStore
<1>4. CASE UNCHANGED vars
  BY <1>4 DEF vars
<1> QED
  BY <1>1, <1>2, <1>3, <1>4 DEF Next

LEMMA ErasureStep ==
    ASSUME TypeInv, PointersSafe, ErasureInv, [Next]_vars PROVE ErasureInv'
<1> USE DEF ErasureInv
<1>1. LocksHeld'
  BY LocksHeldStep
<1>2. RowsOnlyLive'
  <2> USE DEF RowsOnlyLive, Live, NoRows
  <2>1. CASE UNCHANGED <<rows, tombstones>>
    <3>1. CASE Ordinary
      BY <2>1, <3>1 DEF Ordinary
    <3>2. CASE Rollback \/ \E g \in Gens : Promote(g)
      BY <2>1, <3>2 DEF Rollback, Promote, PointersSafe, TypeInv, TypeOK, DbTypeOK
    <3> QED
      BY <3>1, <3>2, StateStep
  <2>2. ASSUME NEW w \in Workers, Stored(w) PROVE RowsOnlyLive'
    BY <2>2 DEF Stored, Insertable, TypeInv, TypeOK, DbTypeOK
  <2>3. CASE \E s \in Sources, kind \in {"forgotten", "withdrawn"} : Forget(s, kind)
    BY <2>3 DEF Forget, Selected
  <2>4. CASE \E aged \in SUBSET Gens : Gc(aged)
    BY <2>4 DEF Gc
  <2> QED
    BY <2>1, <2>2, <2>3, <2>4, RowStep
<1>3. NoResurrection'
  <2> USE DEF NoResurrection, NoRows
  <2>1. CASE UNCHANGED <<rows, tombstones>>
    BY <2>1
  <2>2. ASSUME NEW w \in Workers, Stored(w) PROVE NoResurrection'
    BY <2>2 DEF Stored, LocksHeld, TypeInv, TypeOK, DbTypeOK, TenantTypeOK
  <2>3. ASSUME NEW s \in Sources, NEW kind \in {"forgotten", "withdrawn"}, Forget(s, kind)
        PROVE NoResurrection'
    BY <2>3 DEF Forget, Selected, RowsOnlyLive, TypeInv, TypeOK, DbTypeOK, TenantTypeOK
  <2>4. CASE \E aged \in SUBSET Gens : Gc(aged)
    BY <2>4 DEF Gc, TypeInv, TypeOK, TenantTypeOK
  <2> QED
    BY <2>1, <2>2, <2>3, <2>4, RowStep
<1> QED
  BY <1>1, <1>2, <1>3

\* An erased source never has rows again, whichever builds had looked it up,
\* were copying it or were embedding it when forget committed.
THEOREM ErasedStaysErased == Spec => []NoResurrection
<1>1. Init => ErasureInv
  BY DEF Init, ErasureInv, LocksHeld, HoldsLock, RowsOnlyLive, NoResurrection
<1>2. Spec => [](TypeInv /\ PointersSafe)
  BY PointersAlwaysSafe, InitTypeInv, TypeInvStep, PTL DEF Spec
<1>3. TypeInv /\ PointersSafe /\ ErasureInv /\ [Next]_vars => ErasureInv'
  BY ErasureStep
<1>4. Spec => []ErasureInv
  BY <1>1, <1>2, <1>3, PTL DEF Spec
<1> QED
  BY <1>4, PTL DEF ErasureInv

-----------------------------------------------------------------------------
(***************************************************************************)
(* Completeness.  A source is settled in a generation once it is erased,   *)
(* is known to chunk to nothing, or has its rows; it stays settled for as  *)
(* long as the generation exists.  A builder has settled every source it   *)
(* is done with, whoever wrote it, so the generation it marks validating   *)
(* has them all.                                                           *)
(***************************************************************************)
Building == {"next", "reusing", "embedded", "writing", "graphed"}
Validated == {"validating", "ready", "active", "retired"}

Settled(g, s) == \/ s \in tombstones
                 \/ manifest[g][s] \in EmptyVersions \cup {Nil}
                 \/ rows[g][s] # Nil

RowsFaithful ==
    \A g \in Gens, s \in Sources :
        rows[g][s] # Nil => rows[g][s] = manifest[g][s] /\ rows[g][s] \notin EmptyVersions

\* what a builder knows of its sources
WorkerSettled(w) ==
    /\ pc[w] \in Busy => state[job[w]] # "absent"
    /\ pc[w] \in HasSource => cur[w] \in todo[w]
    /\ pc[w] \in Building => \A s \in todo[w] : manifest[job[w]][s] # Nil
    /\ pc[w] \in {"embedded", "writing"} => manifest[job[w]][cur[w]] \notin EmptyVersions
    /\ pc[w] = "graphed" => todo[w] = {}
    /\ pc[w] \in Building /\ state[job[w]] \in Live
           => \A s \in Sources \ todo[w] : Settled(job[w], s)

ValidatedSettled ==
    \A g \in Gens : state[g] \in Validated => \A s \in Sources : Settled(g, s)

CompleteInv == /\ RowsFaithful
               /\ \A w \in Workers : WorkerSettled(w)
               /\ ValidatedSettled

\* a worker's step is its own
LEMMA OtherWorkers ==
    ASSUME TypeInv, NEW w \in Workers, WorkerStep(w), NEW v \in Workers, v # w
    PROVE /\ pc'[v] = pc[v]
          /\ job'[v] = job[v]
          /\ todo'[v] = todo[v]
          /\ cur'[v] = cur[v]
          /\ done'[v] = done[v]
          /\ built'[v] = built[v]
<1> USE DEF TypeInv, TypeOK, WorkTypeOK, Goto, workVars
<1>1. CASE CreateFirstRead(w) \/ BuildError(w) \/ BuildGraph(w)
  BY <1>1 DEF CreateFirstRead, BuildError, BuildGraph
<1>2. CASE \E g \in Gens : BuildStart(w, g) \/ ValidateError(w, g)
  BY <1>2 DEF BuildStart, ValidateError
<1>3. CASE \E g \in Gens, m \in Manifests : CreateFirstCommit(w, g, m)
  BY <1>3 DEF CreateFirstCommit
<1>4. CASE \E s \in Sources : LockForReuse(w, s)
  BY <1>4 DEF LockForReuse, Drop
<1>5. CASE Reuse(w) \/ Write(w)
  BY <1>5 DEF Reuse, Write, StoreSource, Drop
<1>6. CASE LockForWrite(w)
  BY <1>6 DEF LockForWrite, Drop
<1>7. CASE MarkValidating(w) \/ Fail(w) \/ Crash(w)
  BY <1>7 DEF MarkValidating, Fail, Crash, Return
<1> QED
  BY <1>1, <1>2, <1>3, <1>4, <1>5, <1>6, <1>7 DEF WorkerStep

LEMMA WorkersUnchanged ==
    ASSUME [Next]_vars, \A w \in Workers : ~WorkerStep(w) PROVE UNCHANGED workVars
<1>1. CASE OperatorStep
  BY <1>1 DEF OperatorStep, Create, Validate, RebuildGraph, DeleteGraph, Promote, Abandon,
              FailDirect, Rollback, Gc, Forget
<1>2. CASE CalibrationStep
  BY <1>2 DEF CalibrationStep, CarryForwardRead, CalibrateRead, CalibrateScore, CalibrateError,
              Publish, CalibrateStore
<1> QED
  BY <1>1, <1>2 DEF Next, vars

\* a manifest is written once, when its generation is inserted
LEMMA ManifestStep ==
    ASSUME TypeInv, [Next]_vars, NEW g \in Gens, state[g] # "absent"
    PROVE manifest'[g] = manifest[g]
<1> USE DEF dbVars, TypeInv, TypeOK, DbTypeOK
<1>1. CASE \E w \in Workers : WorkerStep(w)
  BY <1>1 DEF WorkerStep, CreateFirstRead, BuildStart, ValidateError, CreateFirstCommit,
     InsertGeneration, Newest, LockForReuse, Reuse, LockForWrite, Write, BuildGraph,
     MarkValidating, BuildError, Fail, Crash
<1>2. CASE OperatorStep
  BY <1>2 DEF OperatorStep, Create, InsertGeneration, Newest, Validate, RebuildGraph, DeleteGraph,
              Promote, Abandon, FailDirect, Rollback, Gc, Forget
<1>3. CASE CalibrationStep
  BY <1>3 DEF CalibrationStep, CarryForwardRead, CalibrateRead, CalibrateScore, CalibrateError,
              Publish, CalibrateStore
<1> QED
  BY <1>1, <1>2, <1>3 DEF Next, vars

LEMMA NeverAbsentAgain ==
    ASSUME TypeInv, PointersSafe, [Next]_vars, NEW g \in Gens, state[g] # "absent"
    PROVE state'[g] # "absent" /\ (state'[g] \in Live => state[g] \in Live)
<1> USE DEF TypeInv, TypeOK, DbTypeOK, Live
<1>1. CASE Ordinary
  BY <1>1 DEF Ordinary
<1>2. CASE Rollback \/ \E h \in Gens : Promote(h)
  BY <1>2 DEF Rollback, Promote, PointersSafe, TenantTypeOK
<1> QED
  BY <1>1, <1>2, StateStep

LEMMA SettledStable ==
    ASSUME TypeInv, [Next]_vars, NEW g \in Gens, NEW s \in Sources,
           state[g] # "absent", state'[g] \in Live, Settled(g, s)
    PROVE Settled(g, s)'
<1> USE DEF Settled, TypeInv, TypeOK, DbTypeOK
<1>1. manifest'[g] = manifest[g]
  BY ManifestStep
<1>2. CASE UNCHANGED <<rows, tombstones>>
  BY <1>1, <1>2
<1>3. ASSUME NEW w \in Workers, Stored(w) PROVE Settled(g, s)'
  BY <1>1, <1>3 DEF Stored, Insertable
<1>4. ASSUME NEW t \in Sources, NEW kind \in {"forgotten", "withdrawn"}, Forget(t, kind)
      PROVE Settled(g, s)'
  BY <1>1, <1>4 DEF Forget
<1>5. ASSUME NEW aged \in SUBSET Gens, Gc(aged) PROVE Settled(g, s)'
  BY <1>1, <1>5 DEF Gc, Live
<1> QED
  BY <1>2, <1>3, <1>4, <1>5, RowStep

\* the rows a worker stores are the manifest's, and not of an empty content
LEMMA StoredContent ==
    ASSUME TypeInv, CompleteInv, NEW w \in Workers, Reuse(w) \/ Write(w), rows' # rows
    PROVE /\ rows' = [rows EXCEPT ![job[w]][cur[w]] = manifest[job[w]][cur[w]]]
          /\ manifest[job[w]][cur[w]] \notin EmptyVersions \cup {Nil}
          /\ job[w] \in Gens /\ cur[w] \in Sources
<1> USE DEF TypeInv, TypeOK, LocalOK, Busy, HasSource, CompleteInv, WorkerSettled, Building
<1>1. CASE Reuse(w)
  <2>1. Reusable(job[w], cur[w]) /\ StoreSource(w, job[w], cur[w]) /\ pc[w] = "reusing"
    BY <1>1 DEF Reuse
  <2>2. PICK h \in Gens : rows[h][cur[w]] = manifest[job[w]][cur[w]]
    BY <2>1 DEF Reusable
  <2>3. manifest[job[w]][cur[w]] # Nil
    BY <2>1
  <2> QED
    BY <2>1, <2>2, <2>3 DEF StoreSource, RowsFaithful
<1>2. CASE Write(w)
  <2>1. pc[w] = "writing" /\ StoreSource(w, job[w], cur[w])
    BY <1>2 DEF Write
  <2> QED
    BY <2>1 DEF StoreSource
<1> QED
  BY <1>1, <1>2

LEMMA RowsFaithfulStep ==
    ASSUME TypeInv, PointersSafe, ErasureInv, CompleteInv, [Next]_vars PROVE RowsFaithful'
<1> USE DEF TypeInv, TypeOK, DbTypeOK, RowsFaithful, CompleteInv
<1>0. SUFFICES ASSUME NEW g \in Gens, NEW s \in Sources, rows'[g][s] # Nil
               PROVE rows'[g][s] = manifest'[g][s] /\ rows'[g][s] \notin EmptyVersions
  OBVIOUS
<1>1. state[g] = "absent" => rows[g][s] = Nil
  <2>1. "absent" \notin Live
    BY DEF Live
  <2>2. state[g] = "absent" => rows[g] = NoRows
    BY <2>1 DEF ErasureInv, RowsOnlyLive
  <2> QED
    BY <2>2 DEF NoRows
<1>2. CASE rows' = rows
  BY <1>0, <1>1, <1>2, ManifestStep
<1>3. ASSUME NEW w \in Workers, Reuse(w) \/ Write(w), rows' # rows
      PROVE rows'[g][s] = manifest'[g][s] /\ rows'[g][s] \notin EmptyVersions
  <2>1. manifest' = manifest
    BY <1>3 DEF Reuse, Write
  <2>2. /\ rows' = [rows EXCEPT ![job[w]][cur[w]] = manifest[job[w]][cur[w]]]
        /\ manifest[job[w]][cur[w]] \notin EmptyVersions
        /\ job[w] \in Gens /\ cur[w] \in Sources
    BY <1>3, StoredContent
  <2>3. CASE g = job[w] /\ s = cur[w]
    BY <2>1, <2>2, <2>3
  <2>4. CASE ~(g = job[w] /\ s = cur[w])
    <3>1. rows'[g][s] = rows[g][s]
      BY <2>2, <2>4
    <3> QED
      BY <1>0, <2>1, <3>1
  <2> QED
    BY <2>3, <2>4
<1>4. CASE \E t \in Sources, kind \in {"forgotten", "withdrawn"} : Forget(t, kind)
  BY <1>0, <1>4 DEF Forget
<1>5. CASE \E aged \in SUBSET Gens : Gc(aged)
  BY <1>0, <1>5 DEF Gc, NoRows
<1> QED
  BY <1>2, <1>3, <1>4, <1>5, RowStep DEF Stored

LEMMA WorkerSettledStep ==
    ASSUME TypeInv, PointersSafe, CompleteInv, [Next]_vars, NEW v \in Workers
    PROVE WorkerSettled(v)'
<1> USE DEF TypeInv, TypeOK, WorkTypeOK, PCs, LocalOK, Busy, HasSource, Building, CompleteInv
<1>1. CASE /\ pc'[v] = pc[v] /\ job'[v] = job[v] /\ todo'[v] = todo[v] /\ cur'[v] = cur[v]
  <2>1. CASE pc[v] \in Busy
    <3>1. PICK g \in Gens : g = job[v]
      BY <2>1
    <3>2. g = job'[v] /\ state[g] # "absent" /\ state'[g] # "absent"
      BY <1>1, <2>1, <3>1, NeverAbsentAgain DEF WorkerSettled
    <3>3. manifest'[g] = manifest[g]
      BY <3>2, ManifestStep
    <3>4. ASSUME pc[v] \in Building, state'[g] \in Live, NEW s \in Sources \ todo[v]
          PROVE Settled(g, s)'
      <4>1. Settled(g, s)
        BY <3>1, <3>2, <3>4, NeverAbsentAgain DEF WorkerSettled
      <4> QED
        BY <3>2, <3>4, <4>1, SettledStable
    <3>5. ASSUME pc[v] \in Building, state'[g] \in Live, NEW s \in Sources \ todo[v]
          PROVE Settled(job[v], s)'
      BY <3>2, <3>4, <3>5 DEF Settled
    <3> QED
      BY <1>1, <3>1, <3>2, <3>3, <3>5 DEF WorkerSettled
  <2>2. CASE pc[v] \notin Busy
    BY <1>1, <2>2 DEF WorkerSettled
  <2> QED
    BY <2>1, <2>2
<1>2. CASE WorkerStep(v)
  <2> USE DEF Goto
  <2>1. CASE CreateFirstRead(v)
    BY <2>1 DEF CreateFirstRead, WorkerSettled
  <2>2. ASSUME NEW g \in Gens, BuildStart(v, g) PROVE WorkerSettled(v)'
    BY <2>2 DEF BuildStart, WorkerSettled, SourcesOf, Settled, dbVars
  <2>3. ASSUME NEW g \in Gens, ValidateError(v, g) PROVE WorkerSettled(v)'
    BY <2>3 DEF ValidateError, WorkerSettled, dbVars
  <2>4. CASE \E g \in Gens, m \in Manifests : CreateFirstCommit(v, g, m)
    BY <2>4 DEF CreateFirstCommit, WorkerSettled
  <2>5. ASSUME NEW s \in Sources, LockForReuse(v, s) PROVE WorkerSettled(v)'
    BY <2>5 DEF LockForReuse, Drop, WorkerSettled, Settled, dbVars
  <2>6. CASE LockForWrite(v)
    BY <2>6 DEF LockForWrite, Drop, WorkerSettled, Settled, dbVars
  <2>7. CASE Reuse(v)
    BY <2>7 DEF Reuse, StoreSource, Drop, WorkerSettled, Settled, DbTypeOK
  <2>8. CASE Write(v)
    <3>1. /\ pc[v] = "writing" /\ job[v] \in Gens /\ cur[v] \in Sources
          /\ job' = job /\ state' = state /\ manifest' = manifest /\ tombstones' = tombstones
      BY <2>8 DEF Write
    <3>2. CASE pc'[v] = "failing"
      BY <3>1, <3>2 DEF WorkerSettled
    <3>3. CASE StoreSource(v, job[v], cur[v])
      BY <3>1, <3>3 DEF StoreSource, Drop, WorkerSettled, Settled, DbTypeOK
    <3> QED
      BY <2>8, <3>2, <3>3 DEF Write
  <2>9. CASE BuildGraph(v)
    BY <2>9 DEF BuildGraph, WorkerSettled, Settled
  <2>10. CASE MarkValidating(v)
    BY <2>10 DEF MarkValidating, Return, WorkerSettled
  <2>11. CASE BuildError(v)
    BY <2>11 DEF BuildError, WorkerSettled, dbVars
  <2>12. CASE Fail(v) \/ Crash(v)
    BY <2>12 DEF Fail, Crash, Return, WorkerSettled
  <2> QED
    BY <1>2, <2>1, <2>2, <2>3, <2>4, <2>5, <2>6, <2>7, <2>8, <2>9, <2>10, <2>11, <2>12
    DEF WorkerStep
<1>3. ASSUME NEW w \in Workers, WorkerStep(w), w # v
      PROVE /\ pc'[v] = pc[v] /\ job'[v] = job[v] /\ todo'[v] = todo[v] /\ cur'[v] = cur[v]
  BY <1>3, OtherWorkers
<1>4. ASSUME \A w \in Workers : ~WorkerStep(w)
      PROVE /\ pc'[v] = pc[v] /\ job'[v] = job[v] /\ todo'[v] = todo[v] /\ cur'[v] = cur[v]
  BY <1>4, WorkersUnchanged DEF workVars
<1> QED
  BY <1>1, <1>2, <1>3, <1>4

LEMMA ValidatedSettledStep ==
    ASSUME TypeInv, PointersSafe, CompleteInv, [Next]_vars PROVE ValidatedSettled'
<1> USE DEF CompleteInv
<1> SUFFICES ASSUME NEW g \in Gens, state'[g] \in Validated, NEW s \in Sources
             PROVE Settled(g, s)'
  BY DEF ValidatedSettled
<1>1. state'[g] \in Live /\ state[g] # "absent"
  BY StateStep DEF Validated, Live, Ordinary, Rollback, Promote, PointersSafe, TypeInv, TypeOK,
                   DbTypeOK, TenantTypeOK
<1>2. CASE state[g] \in Validated
  BY <1>1, <1>2, SettledStable DEF ValidatedSettled
<1>3. CASE state[g] \notin Validated
  <2>1. PICK w \in Workers : MarkValidating(w) /\ job[w] = g
    <3> USE <1>3 DEF TypeInv, TypeOK, DbTypeOK, Validated
    <3>1. CASE \E w \in Workers : WorkerStep(w)
      BY <3>1 DEF WorkerStep, CreateFirstRead, BuildStart, ValidateError, CreateFirstCommit,
         InsertGeneration, LockForReuse, Reuse, LockForWrite, Write, BuildGraph, MarkValidating,
         BuildError, Fail, Crash, dbVars
    <3>2. CASE OperatorStep
      <4>1. CASE \E h \in Gens : Promote(h)
        BY <4>1 DEF Promote, PointersSafe
      <4>2. CASE Rollback
        BY <4>2 DEF Rollback, PointersSafe
      <4>3. CASE \E h \in Gens, older \in BOOLEAN : Validate(h, older)
        BY <4>3 DEF Validate
      <4>4. CASE \E h \in Gens, m \in Manifests : Create(h, m)
        BY <4>4 DEF Create, InsertGeneration
      <4>5. CASE \E aged \in SUBSET Gens : Gc(aged)
        BY <4>5 DEF Gc
      <4>6. CASE \E h \in Gens : Abandon(h) \/ FailDirect(h)
        BY <4>6 DEF Abandon, FailDirect
      <4> QED
        BY <3>2, <4>1, <4>2, <4>3, <4>4, <4>5, <4>6
        DEF OperatorStep, RebuildGraph, DeleteGraph, Forget
    <3>3. CASE CalibrationStep
      BY <3>3 DEF CalibrationStep, CarryForwardRead, CalibrateRead, CalibrateScore,
         CalibrateError, Publish, CalibrateStore, dbVars
    <3> QED
      BY <3>1, <3>2, <3>3 DEF Next, vars, dbVars
  <2>2. pc[w] = "graphed" /\ state[g] = "building"
    BY <1>3, <2>1 DEF MarkValidating, Validated, TypeInv, TypeOK, DbTypeOK
  <2>3. Settled(g, s)
    BY <2>1, <2>2 DEF WorkerSettled, Building, Live
  <2> QED
    BY <1>1, <2>3, SettledStable
<1> QED
  BY <1>2, <1>3

LEMMA CompleteInvariant == Spec => [](TypeInv /\ PointersSafe /\ ErasureInv /\ CompleteInv)
<1>1. Init => PointersSafe /\ ErasureInv
  BY NilAssumption DEF Init, PointersSafe, ErasureInv, LocksHeld, HoldsLock, RowsOnlyLive,
                       NoResurrection
<1>2. Init => CompleteInv
  BY DEF Init, NoRows, CompleteInv, RowsFaithful, WorkerSettled, ValidatedSettled, Validated,
         Busy, HasSource, Building
<1>3. TypeInv /\ PointersSafe /\ ErasureInv /\ CompleteInv /\ [Next]_vars => CompleteInv'
  BY RowsFaithfulStep, WorkerSettledStep, ValidatedSettledStep DEF CompleteInv
<1>4. TypeInv /\ PointersSafe /\ ErasureInv /\ [Next]_vars => PointersSafe' /\ ErasureInv'
  BY PointersStep, ErasureStep
<1> QED
  BY <1>1, <1>2, <1>3, <1>4, InitTypeInv, TypeInvStep, PTL DEF Spec

LEMMA ReadableFromInv == TypeInv /\ ErasureInv /\ CompleteInv => ReadableIsComplete
<1> SUFFICES ASSUME TypeInv, ErasureInv, CompleteInv,
                    NEW g \in Gens, state[g] \in Readable, NEW s \in Sources
             PROVE rows[g][s] = IF s \in tombstones \/ manifest[g][s] \in EmptyVersions
                                THEN Nil ELSE manifest[g][s]
  BY DEF ReadableIsComplete
<1>1. Settled(g, s)
  BY DEF CompleteInv, ValidatedSettled, Validated, Readable
<1>2. rows[g][s] # Nil => rows[g][s] = manifest[g][s] /\ rows[g][s] \notin EmptyVersions
  BY DEF CompleteInv, RowsFaithful
<1>3. s \in tombstones => rows[g][s] = Nil
  BY DEF ErasureInv, NoResurrection
<1> QED
  BY <1>1, <1>2, <1>3, VersionAssumption, NilAssumption DEF Settled

\* A generation that passed validation holds exactly its manifest's content less
\* what was erased and what chunks to nothing, for any number of concurrent
\* builders of it and whichever of them failed or died.
THEOREM ReadableAlwaysComplete == Spec => []ReadableIsComplete
BY ReadableFromInv, CompleteInvariant, PTL

-----------------------------------------------------------------------------
(* Generations implements ServedCorpus: the corpus behind the active       *)
(* pointer moves only as a whole, and only erasures take from it.          *)

\* every generation was created from one of the callers' manifests
ManifestKnown == \A g \in Gens : state[g] # "absent" => manifest[g] \in Manifests

ServingInv == TypeInv /\ PointersSafe /\ ErasureInv /\ CompleteInv /\ ManifestKnown

\* only create takes a generation out of "absent"
LEMMA AbsentStep ==
    ASSUME TypeInv, PointersSafe, [Next]_vars, NEW g \in Gens, state[g] = "absent",
           state'[g] # "absent"
    PROVE \E m \in Manifests : \/ Create(g, m)
                             \/ \E w \in Workers : CreateFirstCommit(w, g, m)
<1> USE DEF TypeInv, TypeOK, DbTypeOK, TenantTypeOK, dbVars
<1>1. ASSUME NEW w \in Workers, WorkerStep(w) PROVE \E m \in Manifests : CreateFirstCommit(w, g, m)
  BY <1>1 DEF WorkerStep, CreateFirstRead, BuildStart, ValidateError, CreateFirstCommit,
     InsertGeneration, LockForReuse, Reuse, LockForWrite, Write, BuildGraph, MarkValidating,
     BuildError, Fail, Failable, Crash
<1>2. CASE OperatorStep
  <2>1. ASSUME NEW h \in Gens, NEW m \in Manifests, Create(h, m) PROVE h = g
    BY <2>1 DEF Create, InsertGeneration
  <2>2. CASE Rollback \/ \E h \in Gens : Promote(h)
    BY <2>2 DEF Rollback, Promote, PointersSafe
  <2>3. CASE \E h \in Gens, older \in BOOLEAN : Validate(h, older)
    BY <2>3 DEF Validate
  <2>4. CASE \E h \in Gens : Abandon(h) \/ FailDirect(h)
    BY <2>4 DEF Abandon, FailDirect, Failable
  <2>5. CASE \E aged \in SUBSET Gens : Gc(aged)
    BY <2>5 DEF Gc, Garbage
  <2> QED
    BY <1>2, <2>1, <2>2, <2>3, <2>4, <2>5 DEF OperatorStep, RebuildGraph, DeleteGraph, Forget
<1>3. CASE CalibrationStep
  BY <1>3 DEF CalibrationStep, CarryForwardRead, CalibrateRead, CalibrateScore, CalibrateError,
              Publish, CalibrateStore
<1> QED
  BY <1>1, <1>2, <1>3 DEF Next, vars

LEMMA ManifestKnownStep ==
    ASSUME TypeInv, PointersSafe, ManifestKnown, [Next]_vars PROVE ManifestKnown'
<1> SUFFICES ASSUME NEW g \in Gens, state'[g] # "absent" PROVE manifest'[g] \in Manifests
  BY DEF ManifestKnown
<1>1. CASE state[g] # "absent"
  BY <1>1, ManifestStep DEF ManifestKnown
<1>2. CASE state[g] = "absent"
  <2>1. PICK m \in Manifests : \/ Create(g, m)
                             \/ \E w \in Workers : CreateFirstCommit(w, g, m)
    BY <1>2, AbsentStep
  <2>2. manifest' = [manifest EXCEPT ![g] = m]
    BY <2>1 DEF Create, CreateFirstCommit, InsertGeneration
  <2> QED
    BY <2>2 DEF TypeInv, TypeOK, DbTypeOK
<1> QED
  BY <1>1, <1>2

LEMMA ServingInvariant == Spec => []ServingInv
<1>1. Init => ManifestKnown
  BY DEF Init, ManifestKnown
<1>2. TypeInv /\ PointersSafe /\ ManifestKnown /\ [Next]_vars => ManifestKnown'
  BY ManifestKnownStep
<1> QED
  BY <1>1, <1>2, CompleteInvariant, PTL DEF Spec, ServingInv

\* a late builder finds nothing left to store in a settled generation
LEMMA StoreIsEarly ==
    ASSUME ServingInv, NEW w \in Workers, Stored(w), rows' # rows
    PROVE job[w] \in Gens /\ cur[w] \in Sources /\ ~Settled(job[w], cur[w])
<1>1. /\ manifest[job[w]][cur[w]] \notin EmptyVersions \cup {Nil}
      /\ job[w] \in Gens /\ cur[w] \in Sources
  BY StoredContent DEF ServingInv, Stored
<1>2. cur[w] \notin tombstones /\ rows[job[w]][cur[w]] = Nil
  BY DEF Stored, ServingInv, ErasureInv, LocksHeld, Insertable
<1> QED
  BY <1>1, <1>2 DEF Settled

\* only forget and gc change the rows of a settled generation
LEMMA SettledRows ==
    ASSUME ServingInv, [Next]_vars, NEW g \in Gens, \A s \in Sources : Settled(g, s),
           state'[g] # "collected"
    PROVE \/ rows'[g] = rows[g] /\ tombstones' = tombstones
          \/ \E s \in Sources, kind \in {"forgotten", "withdrawn"} : Forget(s, kind)
<1>1. ASSUME NEW w \in Workers, Stored(w), rows' # rows
      PROVE rows'[g] = rows[g] /\ tombstones' = tombstones
  <2>1. job[w] # g
    BY <1>1, StoreIsEarly
  <2> QED
    BY <1>1, <2>1 DEF Stored, ServingInv, TypeInv, TypeOK, DbTypeOK
<1>2. ASSUME NEW aged \in SUBSET Gens, Gc(aged)
      PROVE rows'[g] = rows[g] /\ tombstones' = tombstones
  BY <1>2 DEF Gc
<1> QED
  BY <1>1, <1>2, RowStep DEF ServingInv, Stored

LEMMA ReadableContent ==
    ASSUME ServingInv, NEW g \in Gens, state[g] \in Readable
    PROVE rows[g] = Corpus!Content(manifest[g], tombstones)
<1>1. \A s \in Sources : rows[g][s] = IF s \in tombstones \/ manifest[g][s] \in EmptyVersions
                                      THEN Nil ELSE manifest[g][s]
  BY ReadableFromInv DEF ServingInv, ReadableIsComplete
<1>2. rows[g] \in [Sources -> Versions \cup {Nil}]
  BY DEF ServingInv, TypeInv, TypeOK, DbTypeOK
<1> QED
  BY <1>1, <1>2 DEF Corpus!Content

\* Promote replaces the served corpus by one whole manifest, rollback brings the
\* other one back, forget takes one source out of both, and nothing else any
\* handler does can be seen by a search.
THEOREM GenerationsServeCorpus == Spec => ServesWholeCorpus
<1>1. Init => Corpus!Init
  BY DEF Init, Corpus!Init, ServedBy
<1>2. ServingInv /\ [Next]_vars => [Corpus!Next]_(Corpus!corpusVars)
  <2> SUFFICES ASSUME ServingInv, [Next]_vars PROVE [Corpus!Next]_(Corpus!corpusVars)
    OBVIOUS
  <2> USE NilAssumption DEF Corpus!Next, Corpus!corpusVars, ServedBy
  <2>0. /\ active \in Gens \cup {Nil} /\ previous \in Gens \cup {Nil}
        /\ rows \in [Gens -> [Sources -> Versions \cup {Nil}]]
        /\ state \in [Gens -> Live \cup {"absent", "collected"}]
    BY DEF ServingInv, TypeInv, TypeOK, DbTypeOK, TenantTypeOK
  <2>1. ASSUME NEW g \in Gens, Promote(g) PROVE Corpus!Replace(manifest[g])
    BY <2>1, ReadableContent DEF Promote, Readable, Corpus!Replace
  <2>2. CASE Rollback
    <3>1. rows[previous] # Nil
      BY <2>0, <2>2 DEF Rollback
    <3> QED
      BY <2>0, <2>2, <3>1 DEF Rollback, Corpus!BringBack
  <2>3. ASSUME NEW s \in Sources, NEW kind \in {"forgotten", "withdrawn"}, Forget(s, kind)
        PROVE Corpus!Erase(s)
    <3>1. (active # Nil => active \in Selected) /\ (previous # Nil => previous \in Selected)
      BY <2>0 DEF ServingInv, PointersSafe, Selected, Live
    <3>2. rows[active] # Nil \/ active = Nil
      BY <2>0
    <3>3. rows[previous] # Nil \/ previous = Nil
      BY <2>0
    <3> QED
      BY <2>0, <2>3, <3>1, <3>2, <3>3 DEF Forget, ptrVars, Corpus!Erase, Corpus!Without
  <2>4. CASE Ordinary /\ ~\E s \in Sources, kind \in {"forgotten", "withdrawn"} : Forget(s, kind)
    <3>1. ASSUME NEW g \in Protected PROVE rows'[g] = rows[g] /\ tombstones' = tombstones
      <4>1. g \in Gens /\ state[g] \in Validated
        BY <2>0 DEF Protected, ServingInv, PointersSafe, Validated
      <4>2. state'[g] # "collected"
        BY <2>4, <4>1 DEF Ordinary, Validated
      <4>3. \A s \in Sources : Settled(g, s)
        BY <4>1 DEF ServingInv, CompleteInv, ValidatedSettled
      <4> QED
        BY <2>4, <4>1, <4>2, <4>3, SettledRows
    <3>2. CASE tombstones' = tombstones
      BY <2>0, <2>4, <3>1, <3>2 DEF Ordinary, Protected
    <3>3. CASE tombstones' # tombstones
      BY <2>4, <3>3, RowStep DEF Stored, Gc, ServingInv
    <3> QED
      BY <3>2, <3>3
  <2>5. ASSUME NEW g \in Gens, Promote(g) PROVE manifest[g] \in Manifests
    BY <2>5 DEF Promote, ServingInv, ManifestKnown
  <2> QED
    BY <2>1, <2>2, <2>3, <2>4, <2>5, StateStep DEF ServingInv
<1> QED
  BY <1>1, <1>2, ServingInvariant, PTL DEF Spec, ServesWholeCorpus, Corpus!Spec
-----------------------------------------------------------------------------
(***************************************************************************)
(* The semantic graph.  A reader compares the stored graph with the        *)
(* marker, and neither with the rows.  Why that is enough: no late builder *)
(* leaves an erased source in the graph, and of the rows a readable        *)
(* generation's marker was written for only the erased have gone since.    *)
(***************************************************************************)
GraphUnerased == \A g \in Gens : /\ graph[g] \cap tombstones = {}
                                 /\ state[g] \notin Live => graph[g] = {}

MarkerCovers ==
    \A g \in Gens : state[g] \in Readable /\ marker[g] # NoGraph
        => SourcesOf(rows[g]) = marker[g].srcs \ tombstones

GraphInv == GraphUnerased /\ MarkerCovers

\* only gc takes a generation's row away
LEMMA CollectStep ==
    ASSUME ServingInv, [Next]_vars, NEW g \in Gens, state[g] \in Live, state'[g] \notin Live
    PROVE \E aged \in SUBSET Gens : Gc(aged)
<1> USE DEF ServingInv, TypeInv, TypeOK, DbTypeOK, TenantTypeOK, dbVars, Live
<1>1. ASSUME NEW w \in Workers PROVE ~WorkerStep(w)
  BY <1>1 DEF WorkerStep, CreateFirstRead, BuildStart, ValidateError, CreateFirstCommit,
     InsertGeneration, LockForReuse, Reuse, LockForWrite, Write, BuildGraph, MarkValidating,
     BuildError, Fail, Failable, Crash
<1>2. CASE OperatorStep
  BY <1>2 DEF OperatorStep, Create, InsertGeneration, Validate, RebuildGraph, DeleteGraph, Promote,
              Abandon, FailDirect, Rollback, Forget
<1>3. CASE CalibrationStep
  BY <1>3 DEF CalibrationStep, CarryForwardRead, CalibrateRead, CalibrateScore, CalibrateError,
              Publish, CalibrateStore
<1> QED
  BY <1>1, <1>2, <1>3 DEF Next, vars

\* only validate makes a generation readable
LEMMA ReadableStep ==
    ASSUME ServingInv, [Next]_vars, NEW g \in Gens, state[g] \notin Readable,
           state'[g] \in Readable
    PROVE \E older \in BOOLEAN : Validate(g, older)
<1> USE DEF ServingInv, TypeInv, TypeOK, DbTypeOK, TenantTypeOK, dbVars, Readable
<1>1. ASSUME NEW w \in Workers PROVE ~WorkerStep(w)
  BY <1>1 DEF WorkerStep, CreateFirstRead, BuildStart, ValidateError, CreateFirstCommit,
     InsertGeneration, LockForReuse, Reuse, LockForWrite, Write, BuildGraph, MarkValidating,
     BuildError, Fail, Crash
<1>2. CASE OperatorStep
  <2>1. ~Rollback /\ ~\E h \in Gens : Promote(h)
    BY DEF Rollback, Promote, PointersSafe
  <2>2. ASSUME NEW h \in Gens, NEW older \in BOOLEAN, Validate(h, older) PROVE h = g
    BY <2>2 DEF Validate
  <2>3. ASSUME NEW h \in Gens PROVE /\ ~\E m \in Manifests : Create(h, m)
                                    /\ ~Abandon(h) /\ ~FailDirect(h)
                                    /\ ~RebuildGraph(h) /\ ~DeleteGraph(h)
    BY <2>3 DEF Create, InsertGeneration, Abandon, FailDirect, RebuildGraph, DeleteGraph
  <2>4. ~\E s \in Sources, kind \in {"forgotten", "withdrawn"} : Forget(s, kind)
    BY DEF Forget
  <2>5. ~\E aged \in SUBSET Gens : Gc(aged)
    BY DEF Gc
  <2> QED
    BY <1>2, <2>1, <2>2, <2>3, <2>4, <2>5 DEF OperatorStep
<1>3. CASE CalibrationStep
  BY <1>3 DEF CalibrationStep, CarryForwardRead, CalibrateRead, CalibrateScore, CalibrateError,
              Publish, CalibrateStore
<1> QED
  BY <1>1, <1>2, <1>3 DEF Next, vars

\* what changes a stored graph or a marker
LEMMA GraphStep ==
    ASSUME [Next]_vars
    PROVE \/ UNCHANGED <<graph, tombstones, marker>>
          \/ \E w \in Workers : BuildGraph(w) \/ MarkValidating(w)
          \/ \E g \in Gens : \/ RebuildGraph(g) \/ DeleteGraph(g)
                             \/ \E older \in BOOLEAN : Validate(g, older)
          \/ \E s \in Sources, kind \in {"forgotten", "withdrawn"} : Forget(s, kind)
          \/ \E aged \in SUBSET Gens : Gc(aged)
<1> USE DEF dbVars
<1>1. ASSUME NEW w \in Workers, WorkerStep(w)
      PROVE BuildGraph(w) \/ MarkValidating(w) \/ UNCHANGED <<graph, tombstones, marker>>
  BY <1>1 DEF WorkerStep, CreateFirstRead, BuildStart, ValidateError, CreateFirstCommit,
     InsertGeneration, LockForReuse, Reuse, LockForWrite, Write, BuildError, Fail, Crash
<1>2. CASE OperatorStep
  BY <1>2 DEF OperatorStep, Create, InsertGeneration, Promote, Abandon, FailDirect, Rollback
<1>3. CASE CalibrationStep
  BY <1>3 DEF CalibrationStep, CarryForwardRead, CalibrateRead, CalibrateScore, CalibrateError,
              Publish, CalibrateStore
<1> QED
  BY <1>1, <1>2, <1>3 DEF Next, vars

LEMMA GraphUnerasedStep ==
    ASSUME ServingInv, GraphUnerased, [Next]_vars PROVE GraphUnerased'
<1> USE DEF ServingInv, TypeInv, TypeOK, DbTypeOK
<1>0. ASSUME NEW g \in Gens PROVE SourcesOf(rows[g]) \cap tombstones = {}
  BY <1>0 DEF ErasureInv, NoResurrection, SourcesOf
<1>1. CASE \E s \in Sources, kind \in {"forgotten", "withdrawn"} : Forget(s, kind)
  BY <1>1 DEF Forget, Selected, GraphUnerased
<1>2. CASE \E aged \in SUBSET Gens : Gc(aged)
  BY <1>2 DEF Gc, GraphUnerased
<1>3. CASE ~\E aged \in SUBSET Gens : Gc(aged)
  <2>1. ASSUME NEW g \in Gens, state'[g] \notin Live PROVE state[g] \notin Live
    BY <1>3, <2>1, CollectStep
  <2>2. ASSUME NEW w \in Workers, BuildGraph(w) PROVE GraphUnerased'
    <3>1. job[w] \in Gens
      BY <2>2 DEF BuildGraph, LocalOK, Busy
    <3> QED
      BY <1>0, <2>1, <2>2, <3>1 DEF BuildGraph, GraphUnerased
  <2>3. ASSUME NEW g \in Gens, RebuildGraph(g) \/ DeleteGraph(g) PROVE GraphUnerased'
    <3>1. /\ graph'[g] \in {SourcesOf(rows[g]), {}} /\ state[g] \in Live
          /\ \A h \in Gens \ {g} : graph'[h] = graph[h]
          /\ tombstones' = tombstones /\ state' = state
      BY <2>3 DEF RebuildGraph, DeleteGraph, Readable, Live
    <3> QED
      BY <1>0, <3>1 DEF GraphUnerased
  <2>4. CASE \E g \in Gens, older \in BOOLEAN : Validate(g, older)
    BY <1>0, <2>1, <2>4 DEF Validate, GraphUnerased, Live
  <2>5. CASE UNCHANGED <<graph, tombstones>>
    BY <2>1, <2>5 DEF GraphUnerased
  <2> QED
    BY <1>1, <1>3, <2>2, <2>3, <2>4, <2>5, GraphStep DEF MarkValidating
<1> QED
  BY <1>2, <1>3

LEMMA MarkerCoversStep ==
    ASSUME ServingInv, MarkerCovers, [Next]_vars PROVE MarkerCovers'
<1> SUFFICES ASSUME NEW g \in Gens, state'[g] \in Readable, marker'[g] # NoGraph
             PROVE SourcesOf(rows'[g]) = marker'[g].srcs \ tombstones'
  BY DEF MarkerCovers, SourcesOf
<1> USE DEF ServingInv, TypeInv, TypeOK, DbTypeOK
<1>0. GraphOf(g).srcs \ tombstones = SourcesOf(rows[g])
  BY DEF ErasureInv, NoResurrection, SourcesOf, GraphOf
<1>1. CASE state[g] \notin Readable
  <2>1. PICK older \in BOOLEAN : Validate(g, older)
    BY <1>1, ReadableStep
  <2>2. rows' = rows /\ tombstones' = tombstones /\ marker'[g] = GraphOf(g)
    BY <2>1 DEF Validate, ChecksPass
  <2> QED
    BY <1>0, <2>2
<1>2. CASE state[g] \in Readable /\ RebuildGraph(g)
  BY <1>0, <1>2 DEF RebuildGraph
<1>3. CASE state[g] \in Readable /\ ~RebuildGraph(g)
  <2>1. marker'[g] = marker[g]
    BY <1>3, GraphStep DEF BuildGraph, MarkValidating, RebuildGraph, DeleteGraph, Validate, Forget,
                           Gc, Readable
  <2>2. SourcesOf(rows[g]) = marker[g].srcs \ tombstones
    BY <1>3, <2>1 DEF MarkerCovers
  <2>3. \A s \in Sources : Settled(g, s)
    BY <1>3 DEF CompleteInv, ValidatedSettled, Validated, Readable
  <2>4. state'[g] # "collected"
    BY DEF Readable
  <2>5. CASE rows'[g] = rows[g] /\ tombstones' = tombstones
    BY <2>1, <2>2, <2>5
  <2>6. ASSUME NEW s \in Sources, NEW kind \in {"forgotten", "withdrawn"}, Forget(s, kind)
        PROVE SourcesOf(rows'[g]) = marker'[g].srcs \ tombstones'
    <3>1. rows'[g] = [rows[g] EXCEPT ![s] = Nil] /\ tombstones' = tombstones \cup {s}
      BY <1>3, <2>6 DEF Forget, Selected, Readable, Live
    <3>2. SourcesOf(rows'[g]) = SourcesOf(rows[g]) \ {s}
      BY <3>1 DEF SourcesOf
    <3> QED
      BY <2>1, <2>2, <3>1, <3>2
  <2> QED
    BY <2>3, <2>4, <2>5, <2>6, SettledRows
<1> QED
  BY <1>1, <1>2, <1>3

LEMMA GraphFromInv == ServingInv /\ GraphInv => AcceptedGraphIsCurrent
<1> SUFFICES ASSUME ServingInv, GraphInv,
                    NEW g \in Gens, state[g] \in Readable, GraphAccepted(g)
             PROVE graph[g] = SourcesOf(rows[g])
  BY DEF AcceptedGraphIsCurrent
<1>1. marker[g].srcs = graph[g] /\ SourcesOf(rows[g]) = marker[g].srcs \ tombstones
  BY DEF GraphAccepted, GraphInv, MarkerCovers
<1>2. graph[g] \cap tombstones = {}
  BY DEF GraphInv, GraphUnerased
<1> QED
  BY <1>1, <1>2

\* A reader that takes the stored graph because it is the one the generation's
\* marker was written for takes one over exactly the rows the generation holds
\* now, however late builders, rebuilds, deletions and erasures interleave.
THEOREM AcceptedGraphsAreCurrent == Spec => []AcceptedGraphIsCurrent
<1>1. Init => GraphInv
  BY DEF Init, GraphInv, GraphUnerased, MarkerCovers, Readable
<1>2. ServingInv /\ GraphInv /\ [Next]_vars => GraphInv'
  BY GraphUnerasedStep, MarkerCoversStep DEF GraphInv
<1> QED
  BY <1>1, <1>2, GraphFromInv, ServingInvariant, PTL DEF Spec

-----------------------------------------------------------------------------
(***************************************************************************)
(* The claims of a memo that stops being served                            *)
(***************************************************************************)
LEMMA ClaimingRecord ==
    ASSUME NEW kind, NEW v \in ClaimingVersions, NEW prior
    PROVE RecordOf(kind, v, prior).claims = TRUE
BY NilAssumption, VersionAssumption DEF RecordOf, Record

\* A memo that declares `supersedes:` leaves a record of its claims when a
\* promotion leaves it out or a forget erases it, for every history of builds,
\* erasures, rollbacks and collections before: promote reads the outgoing
\* generation's rows, and forget the active generation's, not the newest copy.
THEOREM ClaimsSurvive == Spec => ServedClaimsSurvive
<1> DEFINE Survives ==
        \A s \in Sources :
            /\ active # Nil
            /\ rows[active][s] \in ClaimingVersions
            /\ rows'[active'][s] = Nil
            /\ active' # active => state'[active] = "retired"
            => standing'[s].claims
<1>1. ASSUME ServingInv, [Next]_vars PROVE Survives
  <2> SUFFICES ASSUME NEW s \in Sources, active # Nil, rows[active][s] \in ClaimingVersions,
                      rows'[active'][s] = Nil, active' # active => state'[active] = "retired"
               PROVE standing'[s].claims = TRUE
    OBVIOUS
  <2>0. /\ active \in Gens /\ state[active] = "active"
        /\ rows \in [Gens -> [Sources -> Versions \cup {Nil}]]
        /\ rows[active][s] \in Versions /\ rows[active][s] # Nil
        /\ standing \in [Sources -> RecordType]
    BY <1>1, NilAssumption, VersionAssumption
    DEF ServingInv, TypeInv, TypeOK, DbTypeOK, TenantTypeOK, PointersSafe
  <2>1. ASSUME NEW g \in Gens, Promote(g) PROVE standing'[s].claims = TRUE
    <3>1. rows[g][s] = Nil /\ standing' = OmittedRecords(active, g)
      BY <2>1 DEF Promote
    <3>2. standing'[s] = RecordOf("forgotten", rows[active][s], standing[s])
      BY <2>0, <3>1 DEF OmittedRecords
    <3> QED
      BY <3>2, ClaimingRecord
  <2>2. CASE Rollback
    BY <1>1, <2>0, <2>2 DEF Rollback, ServingInv, TypeInv, TypeOK, DbTypeOK
  <2>3. ASSUME NEW t \in Sources, NEW kind \in {"forgotten", "withdrawn"}, Forget(t, kind)
        PROVE standing'[s].claims = TRUE
    <3>1. active' = active /\ active \in Selected
      BY <2>0, <2>3 DEF Forget, ptrVars, Selected, Live
    <3>2. s = t
      BY <2>0, <2>3, <3>1 DEF Forget
    <3>3. Holders(s) = {active}
      BY <2>0 DEF Holders, Live
    <3>4. standing' = [standing EXCEPT ![s] = RecordOf(kind, rows[active][s], @)]
      BY <2>3, <3>2, <3>3 DEF Forget
    <3>5. standing'[s] = RecordOf(kind, rows[active][s], standing[s])
      BY <2>0, <3>4
    <3> QED
      BY <3>5, ClaimingRecord
  <2>4. CASE Ordinary /\ ~\E t \in Sources, kind \in {"forgotten", "withdrawn"} : Forget(t, kind)
    <3>1. active' = active /\ state'[active] # "collected"
      BY <2>0, <2>4 DEF Ordinary
    <3>2. \A t \in Sources : Settled(active, t)
      BY <1>1, <2>0 DEF ServingInv, CompleteInv, ValidatedSettled, Validated
    <3>3. rows'[active] = rows[active]
      BY <1>1, <2>0, <2>4, <3>1, <3>2, SettledRows
    <3> QED
      BY <2>0, <3>1, <3>3
  <2> QED
    BY <1>1, <2>1, <2>2, <2>3, <2>4, StateStep DEF ServingInv
<1> QED
  BY <1>1, ServingInvariant, PTL DEF Spec, ServedClaimsSurvive

\* only promote and forget append supersession records
LEMMA StandingStep ==
    ASSUME [Next]_vars
    PROVE \/ UNCHANGED standing
          \/ \E g \in Gens : Promote(g)
          \/ \E s \in Sources, kind \in {"forgotten", "withdrawn"} : Forget(s, kind)
<1>1. CASE \E w \in Workers : WorkerStep(w)
  BY <1>1 DEF WorkerStep, CreateFirstRead, BuildStart, ValidateError, CreateFirstCommit,
     LockForReuse, Reuse, LockForWrite, Write, BuildGraph, MarkValidating, BuildError, Fail, Crash
<1>2. CASE OperatorStep
  BY <1>2 DEF OperatorStep, Create, Validate, RebuildGraph, DeleteGraph, Abandon, FailDirect,
              Rollback, Gc
<1>3. CASE CalibrationStep
  BY <1>3 DEF CalibrationStep, CarryForwardRead, CalibrateRead, CalibrateScore, CalibrateError,
              Publish, CalibrateStore
<1> QED
  BY <1>1, <1>2, <1>3 DEF Next, vars

\* Beside a withdrawal, the one thing that voids the claims of a forgotten memo
\* is a forget that reads a copy without claims in a generation that does not
\* serve: the bound of what a forget may lose, for every history.
THEOREM ClaimsVoidedByCopy == Spec => OnlyUnservedCopyVoids
<1> DEFINE Bounded ==
        \A s \in Sources :
            /\ standing[s] = Record("forgotten", TRUE)
            /\ active # Nil
            /\ rows[active][s] = Nil
            /\ ~standing'[s].claims /\ standing'[s].kind # "withdrawn"
            => /\ s \in tombstones'
               /\ \E h \in Gens \ {active} : /\ state[h] \in Live
                                           /\ rows[h][s] \in Versions \ ClaimingVersions
<1>1. ASSUME TypeInv, [Next]_vars PROVE Bounded
  <2> SUFFICES ASSUME NEW s \in Sources, standing[s] = Record("forgotten", TRUE), active # Nil,
                      rows[active][s] = Nil, ~standing'[s].claims,
                      standing'[s].kind # "withdrawn"
               PROVE /\ s \in tombstones'
                     /\ \E h \in Gens \ {active} : /\ state[h] \in Live
                                                 /\ rows[h][s] \in Versions \ ClaimingVersions
    OBVIOUS
  <2>0. standing[s].claims = TRUE /\ standing[s] # NoRecord
    BY DEF Record, NoRecord
  <2>1. standing'[s] # standing[s]
    BY <2>0
  <2>2. ~\E g \in Gens : Promote(g)
    BY <2>1 DEF Promote, OmittedRecords
  <2>3. PICK t \in Sources, kind \in {"forgotten", "withdrawn"} : Forget(t, kind)
    BY <1>1, <2>1, <2>2, StandingStep
  <2>4. PICK v : standing' = [standing EXCEPT ![t] = RecordOf(kind, v, @)] /\
                 \/ v = Nil /\ Holders(t) = {}
                 \/ \E h \in Holders(t) : v = rows[h][t]
    BY <2>3 DEF Forget
  <2>5. t = s /\ standing'[s] = RecordOf(kind, v, standing[s])
    BY <1>1, <2>1, <2>4 DEF TypeInv, TypeOK, TenantTypeOK
  <2>6. v \notin ClaimingVersions
    BY <2>5, ClaimingRecord
  <2>7. v # Nil
    BY <2>0, <2>1, <2>5, NilAssumption, VersionAssumption DEF RecordOf, Record
  <2>8. PICK h \in Gens : state[h] \in Live /\ v = rows[h][s]
    BY <2>4, <2>5, <2>7, <1>1 DEF Holders, TypeInv, TypeOK, TenantTypeOK
  <2>9. v \in Versions \ ClaimingVersions /\ h # active
    BY <1>1, <2>6, <2>7, <2>8 DEF TypeInv, TypeOK, DbTypeOK
  <2> QED
    BY <2>3, <2>5, <2>8, <2>9 DEF Forget
<1>2. Spec => []TypeInv
  BY InitTypeInv, TypeInvStep, PTL DEF Spec
<1> QED
  BY <1>1, <1>2, PTL DEF Spec, OnlyUnservedCopyVoids

-----------------------------------------------------------------------------
(***************************************************************************)
(* The rollback window.  gc counts, for each retired generation, the       *)
(* unprotected ones retired after it.  It deletes several in one           *)
(* transaction, so what a deleted generation counted may be deleted too;   *)
(* enough of it stays because "retired after" is a strict order.           *)
(***************************************************************************)
RetiredOrdered ==
    /\ \A g \in Gens : ~NewerRetiredThan(g, g)
    /\ \A g, h, k \in Gens :
           NewerRetiredThan(h, g) /\ NewerRetiredThan(k, h) => NewerRetiredThan(k, g)

\* only promote writes retired_at
LEMMA RetiredAtStep ==
    ASSUME [Next]_vars PROVE UNCHANGED retiredAfter \/ \E g \in Gens : Promote(g)
<1> USE DEF dbVars
<1>1. CASE \E w \in Workers : WorkerStep(w)
  BY <1>1 DEF WorkerStep, CreateFirstRead, BuildStart, ValidateError, CreateFirstCommit,
     InsertGeneration, LockForReuse, Reuse, LockForWrite, Write, BuildGraph, MarkValidating,
     BuildError, Fail, Crash
<1>2. CASE OperatorStep
  BY <1>2 DEF OperatorStep, Create, InsertGeneration, Validate, RebuildGraph, DeleteGraph, Abandon,
              FailDirect, Rollback, Gc, Forget
<1>3. CASE CalibrationStep
  BY <1>3 DEF CalibrationStep, CarryForwardRead, CalibrateRead, CalibrateScore, CalibrateError,
              Publish, CalibrateStore
<1> QED
  BY <1>1, <1>2, <1>3 DEF Next, vars

LEMMA RetiredOrderedStep ==
    ASSUME ServingInv, RetiredOrdered, [Next]_vars PROVE RetiredOrdered'
<1> USE DEF ServingInv, TypeInv, TypeOK, DbTypeOK, TenantTypeOK, RetiredOrdered, NewerRetiredThan
<1>1. ASSUME UNCHANGED retiredAfter, \A g \in Gens : state'[g] = "retired" => state[g] = "retired"
      PROVE RetiredOrdered'
  BY <1>1
<1>2. CASE Ordinary /\ UNCHANGED retiredAfter
  BY <1>1, <1>2 DEF Ordinary
<1>3. CASE Rollback
  BY <1>1, <1>3 DEF Rollback
<1>4. ASSUME NEW p \in Gens, Promote(p) PROVE RetiredOrdered'
  <2>1. CASE active = Nil
    BY <1>1, <1>4, <2>1, NilAssumption DEF Promote
  <2>2. CASE active # Nil
    <3>1. /\ \A g \in Gens : state'[g] = "retired" /\ g # active => state[g] = "retired"
          /\ Retire(active) /\ active \in Gens
      BY <1>4, <2>2 DEF Promote
    <3>2. ASSUME NEW g \in Gens, NEW h \in Gens
          PROVE g \in retiredAfter'[h] <=> IF h = active THEN state[g] = "retired" /\ g # active
                                          ELSE g \in retiredAfter[h] /\ g # active
      BY <3>1, <3>2 DEF Retire
    <3> QED
      BY <3>1, <3>2
  <2> QED
    BY <2>1, <2>2
<1> QED
  BY <1>2, <1>3, <1>4, StateStep, RetiredAtStep DEF Promote

PreviousCount == IF previous = Nil THEN 0 ELSE 1
Kept(g) == {h \in NewerRetired(g) : KeptByCount(h)}

LEMMA NewerRetiredFinite ==
    ASSUME NEW S \in SUBSET Gens PROVE IsFiniteSet(S) /\ Cardinality(S) \in Nat
BY GensAssumption, FS_Subset, FS_CardinalityType

\* of the generations retired after one that is out of the count, those within
\* the count fill it
LEMMA KeptFillsCount ==
    ASSUME RetiredOrdered, NEW g \in Gens, state[g] = "retired", ~KeptByCount(g)
    PROVE RetainPrevious <= Cardinality(Kept(g)) + PreviousCount
<1> DEFINE N == NewerRetired(g)
           K == Kept(g)
<1>0. /\ \A x \in Gens : NewerRetired(x) \in SUBSET Gens
      /\ K \subseteq N /\ N \subseteq Gens
      /\ PreviousCount \in {0, 1}
  BY DEF NewerRetired, Kept, PreviousCount
<1>1. /\ \A x \in Gens : Cardinality(NewerRetired(x)) \in Nat
      /\ IsFiniteSet(K) /\ Cardinality(K) \in Nat
  BY <1>0, NewerRetiredFinite
<1>2. ASSUME NEW x \in Gens, state[x] = "retired", ~KeptByCount(x)
      PROVE RetainPrevious <= Cardinality(NewerRetired(x)) + PreviousCount
  BY <1>1, <1>2, RetainAssumption DEF KeptByCount, PreviousCount
<1>3. CASE N \subseteq K
  <2>1. Kept(g) = NewerRetired(g)
    BY <1>0, <1>3
  <2> QED
    BY <1>2, <2>1
<1>4. CASE ~(N \subseteq K)
  <2> DEFINE T == {NewerRetired(x) : x \in N \ K}
             R == StrictSubsetOrdering(Gens)
  <2>1. T \subseteq FiniteSubsetsOf(Gens) /\ T # {}
    <3>1. FiniteSubsetsOf(Gens) = SUBSET Gens
      BY GensAssumption, FS_FiniteSubsetsOfFinite
    <3>2. PICK x : x \in N \ K
      BY <1>4
    <3>3. NewerRetired(x) \in T
      BY <3>2
    <3>4. \A y \in N \ K : NewerRetired(y) \in SUBSET Gens
      BY <1>0
    <3> QED
      BY <3>1, <3>3, <3>4
  <2>2. IsWellFoundedOn(R, FiniteSubsetsOf(Gens))
    BY FS_StrictSubsetOrderingWellFounded
  <2>3. PICK least \in T : \A other \in T : <<other, least>> \notin R
    <3> HIDE DEF T, R
    <3> QED
      BY <2>1, <2>2, WFMin
  <2>4. PICK x \in N \ K : least = NewerRetired(x)
    BY <2>3
  <2>5. /\ x \in Gens /\ state[x] = "retired" /\ NewerRetiredThan(x, g) /\ ~KeptByCount(x)
    BY <1>0, <2>4 DEF NewerRetired, Kept, NewerRetiredThan
  <2>6. ASSUME NEW y \in NewerRetired(x) PROVE y \in K
    <3>1. y \in Gens /\ y \notin Protected /\ NewerRetiredThan(y, x)
      BY <2>6 DEF NewerRetired
    <3>2. y \in N
      BY <2>5, <3>1 DEF RetiredOrdered, NewerRetired
    <3>3. NewerRetired(y) \subseteq NewerRetired(x)
      BY <2>5, <3>1 DEF RetiredOrdered, NewerRetired
    <3>4. y \notin NewerRetired(y)
      BY <3>1 DEF RetiredOrdered, NewerRetired
    <3>5. ASSUME y \notin K PROVE FALSE
      <4>1. NewerRetired(y) \in T
        BY <3>2, <3>5
      <4>2. <<NewerRetired(y), least>> \in R
        BY <1>0, <2>4, <2>5, <2>6, <3>1, <3>3, <3>4 DEF StrictSubsetOrdering
      <4> QED
        BY <2>3, <4>1, <4>2
    <3> QED
      BY <3>5
  <2>7. Cardinality(NewerRetired(x)) <= Cardinality(K)
    <3>1. NewerRetired(x) \in SUBSET K
      BY <2>6
    <3> HIDE DEF K
    <3> QED
      BY <1>1, <3>1, FS_Subset
  <2>8. RetainPrevious <= Cardinality(NewerRetired(x)) + PreviousCount
    BY <1>2, <2>5
  <2>9. Cardinality(NewerRetired(x)) \in Nat /\ Cardinality(K) \in Nat
    BY <1>1, <2>5
  <2> HIDE DEF K
  <2>10. RetainPrevious <= Cardinality(K) + PreviousCount
    BY <1>0, <2>7, <2>8, <2>9, RetainAssumption
  <2> QED
    BY <2>10 DEF K
<1> QED
  BY <1>3, <1>4

\* Whatever a gc call deletes at once, and however the retired generations came
\* to be, RetainPrevious generations that served after a deleted one stay, the
\* rollback target among them.
THEOREM GcLeavesWindow == Spec => GcKeepsWindow
<1> DEFINE Window(g) == {h \in Gens : /\ state'[h] \in Readable \ {"active"}
                                      /\ h = previous' \/ g \in retiredAfter'[h]}
           Keeps == \A g \in Gens : state[g] = "retired" /\ state'[g] = "collected" =>
                        RetainPrevious <= Cardinality(Window(g))
<1>1. ASSUME ServingInv, RetiredOrdered, [Next]_vars PROVE Keeps
  <2> SUFFICES ASSUME NEW g \in Gens, state[g] = "retired", state'[g] = "collected"
               PROVE RetainPrevious <= Cardinality(Window(g))
    OBVIOUS
  <2>0. /\ previous \in Gens \cup {Nil}
        /\ previous # Nil => state[previous] \in {"retired", "ready"}
        /\ state \in [Gens -> Live \cup {"absent", "collected"}]
    BY <1>1 DEF ServingInv, TypeInv, TypeOK, DbTypeOK, TenantTypeOK, PointersSafe
  <2>1. PICK aged \in SUBSET Gens : Gc(aged)
    BY <1>1, CollectStep DEF Live
  <2>2. /\ retiredAfter' = retiredAfter /\ previous' = previous
        /\ \A h \in Gens : h \notin Garbage(aged) => state'[h] = state[h]
        /\ g \in Garbage(aged)
    BY <2>0, <2>1 DEF Gc, ptrVars
  <2>3. RetainPrevious <= Cardinality(Kept(g)) + PreviousCount
    BY <1>1, <2>2, KeptFillsCount DEF Garbage
  <2>4. ASSUME NEW h \in Kept(g) PROVE h \in Window(g) /\ h # previous
    <3>1. h \in Gens /\ h \notin Protected /\ NewerRetiredThan(h, g) /\ KeptByCount(h)
      BY <2>4 DEF Kept, NewerRetired
    <3>2. state'[h] = "retired" /\ g \in retiredAfter'[h]
      BY <2>2, <3>1 DEF Garbage, NewerRetiredThan
    <3>3. h # previous
      BY <3>1, NilAssumption DEF Protected
    <3> QED
      BY <3>1, <3>2, <3>3 DEF Readable
  <2>5. ASSUME previous # Nil PROVE previous \in Window(g)
    <3>1. previous \in Gens /\ previous \in Protected
      BY <2>0, <2>5 DEF Protected
    <3>2. state'[previous] \in {"retired", "ready"}
      BY <2>0, <2>2, <2>5, <3>1 DEF Garbage
    <3> QED
      BY <2>2, <3>1, <3>2 DEF Readable
  <2>6. Window(g) \in SUBSET Gens /\ Kept(g) \in SUBSET Gens
    BY DEF Kept, NewerRetired
  <2>7. /\ IsFiniteSet(Window(g)) /\ Cardinality(Window(g)) \in Nat
        /\ IsFiniteSet(Kept(g)) /\ Cardinality(Kept(g)) \in Nat
    <3> HIDE DEF Window
    <3> QED
      BY <2>6, NewerRetiredFinite
  <2> HIDE DEF Window
  <2>8. CASE previous = Nil
    <3>1. Kept(g) \in SUBSET Window(g)
      BY <2>4
    <3>2. Cardinality(Kept(g)) <= Cardinality(Window(g))
      BY <2>7, <3>1, FS_Subset
    <3> QED
      BY <2>3, <2>7, <2>8, <3>2, RetainAssumption DEF PreviousCount
  <2>9. CASE previous # Nil
    <3>1. Kept(g) \cup {previous} \in SUBSET Window(g) /\ previous \notin Kept(g)
      BY <2>4, <2>5, <2>9
    <3>2. Cardinality(Kept(g) \cup {previous}) = Cardinality(Kept(g)) + 1
      BY <2>7, <3>1, FS_AddElement
    <3>3. Cardinality(Kept(g) \cup {previous}) <= Cardinality(Window(g))
      BY <2>7, <3>1, FS_Subset
    <3> QED
      BY <2>3, <2>7, <2>9, <3>2, <3>3, RetainAssumption DEF PreviousCount
  <2> QED
    BY <2>8, <2>9
<1>2. Init => RetiredOrdered
  BY DEF Init, RetiredOrdered, NewerRetiredThan
<1>3. ServingInv /\ RetiredOrdered /\ [Next]_vars => RetiredOrdered'
  BY RetiredOrderedStep
<1> QED
  BY <1>1, <1>2, <1>3, ServingInvariant, PTL DEF Spec, GcKeepsWindow
=============================================================================
