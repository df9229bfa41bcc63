------------------------- MODULE CalibrationProofs -------------------------
(***************************************************************************)
(* A published calibration is bound to, and was measured on, the content   *)
(* its generation holds now.  The argument needs the corpus fingerprint to *)
(* follow the tombstones, which it need not after a tenant's very first    *)
(* create, where there is no row to lock: the theorems assume that the     *)
(* tenant has its state row.                                               *)
(***************************************************************************)
EXTENDS GenerationsProofs

Erasing == \E s \in Sources, kind \in {"forgotten", "withdrawn"} : Forget(s, kind)
Collecting == \E aged \in SUBSET Gens : Gc(aged)

FpInv == /\ tenantRow
         /\ \A w \in Workers : pc[w] # "creating"
         /\ FingerprintCurrent

LEMMA NoCreating ==
    ASSUME TypeInv, FpInv, [Next]_vars
    PROVE tenantRow' /\ \A w \in Workers : pc'[w] # "creating"
<1> USE DEF TypeInv, TypeOK, WorkTypeOK, FpInv, ptrVars, workVars, Goto
<1>1. ASSUME NEW w \in Workers, WorkerStep(w) PROVE tenantRow' /\ pc'[w] # "creating"
  BY <1>1 DEF WorkerStep, CreateFirstRead, BuildStart, ValidateError, CreateFirstCommit,
     LockForReuse, Reuse, StoreSource, LockForWrite, Write, BuildGraph, MarkValidating, Return,
     BuildError, Fail, Crash
<1>2. CASE OperatorStep
  BY <1>2 DEF OperatorStep, Create, InsertGeneration, Validate, RebuildGraph, DeleteGraph,
              Promote, Abandon, FailDirect, Rollback, Gc, Forget
<1>3. CASE CalibrationStep
  BY <1>3 DEF CalibrationStep, CarryForwardRead, CalibrateRead, CalibrateScore, CalibrateError,
              Publish, CalibrateStore
<1> QED
  BY <1>1, <1>2, <1>3, OtherWorkers DEF Next, vars

\* the fingerprints change with create and forget only
LEMMA FingerprintStep ==
    ASSUME TypeInv, FpInv, [Next]_vars
    PROVE \/ UNCHANGED <<manifest, corpusFp, tombstones>>
          \/ Erasing
          \/ \E g \in Gens, m \in Manifests : Create(g, m)
<1> USE DEF dbVars, Erasing
<1>1. ASSUME NEW w \in Workers, WorkerStep(w) PROVE UNCHANGED <<manifest, corpusFp, tombstones>>
  BY <1>1 DEF WorkerStep, CreateFirstRead, BuildStart, ValidateError, CreateFirstCommit,
     LockForReuse, Reuse, LockForWrite, Write, BuildGraph, MarkValidating, BuildError, Fail, Crash,
     FpInv
<1>2. CASE OperatorStep
  BY <1>2 DEF OperatorStep, Validate, RebuildGraph, DeleteGraph, Promote, Abandon, FailDirect,
              Rollback, Gc
<1>3. CASE CalibrationStep
  BY <1>3 DEF CalibrationStep, CarryForwardRead, CalibrateRead, CalibrateScore, CalibrateError,
              Publish, CalibrateStore
<1> QED
  BY <1>1, <1>2, <1>3 DEF Next, vars

LEMMA FpInvStep ==
    ASSUME TypeInv, PointersSafe, FpInv, [Next]_vars PROVE FpInv'
<1>1. tenantRow' /\ \A w \in Workers : pc'[w] # "creating"
  BY NoCreating
<1>2. FingerprintCurrent'
  <2> SUFFICES ASSUME NEW g \in Gens, state'[g] \in Live
               PROVE corpusFp'[g] = Excluded(manifest'[g], tombstones')
    BY DEF FingerprintCurrent, Excluded, SourcesOf
  <2> USE DEF TypeInv, TypeOK, DbTypeOK
  <2>1. CASE UNCHANGED <<manifest, corpusFp, tombstones>>
    <3>1. CASE state[g] # "absent"
      BY <2>1, <3>1, NeverAbsentAgain DEF FpInv, FingerprintCurrent
    <3>2. CASE state[g] = "absent"
      <4>1. \E m \in Manifests : Create(g, m)
        BY <3>2, AbsentStep DEF FpInv, Live, CreateFirstCommit
      <4> QED
        BY <2>1, <4>1 DEF Create, InsertGeneration
    <3> QED
      BY <3>1, <3>2
  <2>2. CASE Erasing
    BY <2>2 DEF Erasing, Forget, Selected
  <2>3. ASSUME NEW h \in Gens, NEW m \in Manifests, Create(h, m)
        PROVE corpusFp'[g] = Excluded(manifest'[g], tombstones')
    BY <2>3 DEF Create, InsertGeneration, FpInv, FingerprintCurrent
  <2> QED
    BY <2>1, <2>2, <2>3, FingerprintStep
<1> QED
  BY <1>1, <1>2 DEF FpInv

\* For a tenant with a state row, every generation's fingerprint excludes exactly
\* the erased sources of its manifest, in every state and whatever is being built.
THEOREM FingerprintAlwaysCurrent == ASSUME TenantKnown PROVE Spec => []FingerprintCurrent
<1>1. Init => FpInv
  BY DEF Init, FpInv, FingerprintCurrent, Live
<1>2. TypeInv /\ PointersSafe /\ FpInv /\ [Next]_vars => FpInv'
  BY FpInvStep
<1>3. Spec => []FpInv
  BY <1>1, <1>2, ServingInvariant, PTL DEF Spec, ServingInv
<1> QED
  BY <1>3, PTL DEF FpInv

-----------------------------------------------------------------------------
(***************************************************************************)
(* The artifacts.  A fit is bound to a settled generation, whose rows only *)
(* forget changes; the fingerprint it read can only be behind, and as long *)
(* as it is not, no erasure touched the rows since they were scored.       *)
(***************************************************************************)
Bound == {"scoring", "scored", "draft", "rejected", "published", "superseded"}
Measured == {"scored", "draft", "rejected", "published", "superseded"}
Fitted == {"ready", "active", "retired", "failed", "collected"}

BoundOK(c) ==
    cal[c].state \in Bound =>
        /\ cal[c].gen \in Gens
        /\ state[cal[c].gen] \in Fitted
        /\ state[cal[c].gen] \in Live =>
              /\ \A s \in Sources : Settled(cal[c].gen, s)
              /\ cal[c].fp \subseteq corpusFp[cal[c].gen]

MeasuredOK(c) ==
    /\ cal[c].state \in Measured
    /\ state[cal[c].gen] \in Live
    /\ cal[c].fp = corpusFp[cal[c].gen]
    => cal[c].measured = SourcesOf(rows[cal[c].gen])

PublishedOK(c) ==
    cal[c].state = "published" =>
        /\ state[cal[c].gen] \in Live
        /\ cal[c].fp = corpusFp[cal[c].gen]
        /\ \A d \in Cals : cal[d].state = "published" /\ cal[d].gen = cal[c].gen => d = c

CalInv == \A c \in Cals : BoundOK(c) /\ MeasuredOK(c) /\ PublishedOK(c)

LEMMA CollectedByGc ==
    ASSUME TypeInv, [Next]_vars, NEW g \in Gens, state[g] # "collected", state'[g] = "collected"
    PROVE Collecting
<1> USE DEF TypeInv, TypeOK, DbTypeOK, dbVars, Collecting
<1>1. CASE \E w \in Workers : WorkerStep(w)
  BY <1>1 DEF WorkerStep, CreateFirstRead, BuildStart, ValidateError, CreateFirstCommit,
     InsertGeneration, LockForReuse, Reuse, LockForWrite, Write, BuildGraph, MarkValidating,
     BuildError, Fail, Crash
<1>2. CASE OperatorStep
  BY <1>2 DEF OperatorStep, Create, InsertGeneration, Validate, RebuildGraph, DeleteGraph,
              Promote, Abandon, FailDirect, Rollback, Forget
<1>3. CASE CalibrationStep
  BY <1>3 DEF CalibrationStep, CarryForwardRead, CalibrateRead, CalibrateScore, CalibrateError,
              Publish, CalibrateStore
<1> QED
  BY <1>1, <1>2, <1>3 DEF Next, vars

LEMMA FittedStep ==
    ASSUME TypeInv, PointersSafe, [Next]_vars, NEW g \in Gens, state[g] \in Fitted
    PROVE state'[g] \in Fitted /\ (state'[g] \in Live => state[g] \in Live)
<1> USE DEF TypeInv, TypeOK, DbTypeOK, TenantTypeOK, Fitted, Live
<1>1. CASE Ordinary
  BY <1>1 DEF Ordinary
<1>2. CASE Rollback \/ \E h \in Gens : Promote(h)
  BY <1>2 DEF Rollback, Promote, PointersSafe
<1> QED
  BY <1>1, <1>2, StateStep

\* a fit's generation keeps its rows and its fingerprint but for forget and gc
LEMMA SettledFrame ==
    ASSUME ServingInv, FpInv, [Next]_vars, ~Erasing, NEW g \in Gens, state[g] \in Fitted,
           state'[g] \in Live, \A s \in Sources : Settled(g, s)
    PROVE rows'[g] = rows[g] /\ corpusFp'[g] = corpusFp[g]
<1>1. rows'[g] = rows[g]
  BY SettledRows DEF Erasing, Live
<1>2. corpusFp'[g] = corpusFp[g]
  BY FingerprintStep DEF Create, InsertGeneration, Newest, Fitted, ServingInv, TypeInv, TypeOK,
                         DbTypeOK
<1> QED
  BY <1>1, <1>2

\* an artifact that the step leaves alone stays well bound
LEMMA BoundKept ==
    ASSUME ServingInv, FpInv, FpInv', [Next]_vars, NEW c \in Cals, BoundOK(c), MeasuredOK(c),
           cal'[c].state \in Bound, cal[c].state \in Bound,
           cal'[c].gen = cal[c].gen, cal'[c].fp = cal[c].fp
    PROVE /\ BoundOK(c)'
          /\ /\ cal'[c].measured = cal[c].measured
             /\ cal'[c].state \in Measured => cal[c].state \in Measured
             => MeasuredOK(c)'
<1>1. PICK g \in Gens : g = cal[c].gen /\ g = cal'[c].gen /\ state[g] \in Fitted
  BY DEF BoundOK
<1>2. state'[g] \in Fitted /\ (state'[g] \in Live => state[g] \in Live) /\ state[g] # "absent"
  BY <1>1, FittedStep DEF ServingInv, Fitted
<1>3. CASE state'[g] \notin Live
  BY <1>1, <1>2, <1>3 DEF BoundOK, MeasuredOK
<1>4. CASE state'[g] \in Live
  <2>1. \A s \in Sources : Settled(g, s)
    BY <1>1, <1>2, <1>4 DEF BoundOK
  <2>2. \A s \in Sources : Settled(g, s)'
    BY <1>2, <1>4, <2>1, SettledStable DEF ServingInv
  <2>3. cal[c].fp \subseteq corpusFp[g]
    BY <1>1, <1>2, <1>4 DEF BoundOK
  <2>4. corpusFp[g] = Excluded(manifest[g], tombstones) /\ manifest'[g] = manifest[g]
    BY <1>2, <1>4, ManifestStep DEF FpInv, FingerprintCurrent, ServingInv
  <2>5. corpusFp'[g] = Excluded(manifest[g], tombstones')
    BY <1>4, <2>4 DEF FpInv, FingerprintCurrent, Excluded, SourcesOf
  <2>6. CASE ~Erasing
    <3>1. rows'[g] = rows[g] /\ corpusFp'[g] = corpusFp[g]
      BY <1>1, <1>4, <2>1, <2>6, SettledFrame
    <3> QED
      BY <1>1, <1>2, <1>4, <2>2, <2>3, <3>1 DEF BoundOK, MeasuredOK, Settled, SourcesOf
  <2>7. ASSUME NEW t \in Sources, NEW kind \in {"forgotten", "withdrawn"}, Forget(t, kind)
        PROVE /\ corpusFp[g] \subseteq corpusFp'[g]
              /\ corpusFp'[g] = corpusFp[g] => rows'[g] = rows[g]
    <3>1. tombstones' = tombstones \cup {t} /\ rows'[g] = [rows[g] EXCEPT ![t] = Nil]
      BY <1>2, <1>4, <2>7 DEF Forget, Selected
    <3>2. corpusFp[g] \subseteq corpusFp'[g]
      BY <2>4, <2>5, <3>1 DEF Excluded
    <3>3. rows[g][t] # Nil => t \in SourcesOf(manifest[g]) /\ t \notin tombstones
      BY DEF ServingInv, CompleteInv, RowsFaithful, ErasureInv, NoResurrection, SourcesOf
    <3>4. rows[g][t] # Nil => t \in corpusFp'[g] /\ t \notin corpusFp[g]
      BY <2>4, <2>5, <3>1, <3>3 DEF Excluded
    <3>5. rows[g][t] = Nil => rows'[g] = rows[g]
      BY <3>1 DEF ServingInv, TypeInv, TypeOK, DbTypeOK
    <3> QED
      BY <3>2, <3>4, <3>5
  <2>8. CASE Erasing
    <3>1. /\ corpusFp[g] \subseteq corpusFp'[g]
          /\ corpusFp'[g] = corpusFp[g] => rows'[g] = rows[g]
      BY <2>7, <2>8 DEF Erasing
    <3>2. cal[c].fp = corpusFp'[g] => corpusFp'[g] = corpusFp[g]
      BY <2>3, <3>1
    <3>3. BoundOK(c)'
      BY <1>1, <1>2, <2>2, <2>3, <3>1 DEF BoundOK, Settled
    <3> QED
      BY <1>1, <1>2, <1>4, <3>1, <3>2, <3>3 DEF MeasuredOK, SourcesOf
  <2> QED
    BY <2>6, <2>8
<1> QED
  BY <1>3, <1>4

LEMMA CalUnchanged ==
    ASSUME [Next]_vars, ~Erasing, ~Collecting, ~CalibrationStep PROVE cal' = cal
<1>1. CASE \E w \in Workers : WorkerStep(w)
  BY <1>1 DEF WorkerStep, CreateFirstRead, BuildStart, ValidateError, CreateFirstCommit,
     LockForReuse, Reuse, LockForWrite, Write, BuildGraph, MarkValidating, BuildError, Fail, Crash
<1>2. CASE OperatorStep
  BY <1>2 DEF OperatorStep, Create, Validate, RebuildGraph, DeleteGraph, Promote, Abandon,
              FailDirect, Rollback, Erasing, Collecting
<1> QED
  BY <1>1, <1>2 DEF Next, vars

LEMMA CalInvStep ==
    ASSUME ServingInv, FpInv, FpInv', CalInv, [Next]_vars PROVE CalInv'
<1> SUFFICES ASSUME NEW c \in Cals PROVE BoundOK(c)' /\ MeasuredOK(c)' /\ PublishedOK(c)'
  BY DEF CalInv
<1>0. /\ cal \in [Cals -> CalType]
      /\ BoundOK(c) /\ MeasuredOK(c) /\ PublishedOK(c)
  BY DEF CalInv, ServingInv, TypeInv, TypeOK, CalTypeOK
<1> USE DEF Bound, Measured
<1>1. CASE cal' = cal /\ ~Erasing /\ ~Collecting
  <2>1. CASE cal[c].state \notin Bound
    BY <1>1, <2>1 DEF BoundOK, MeasuredOK, PublishedOK
  <2>2. CASE cal[c].state \in Bound
    <3>1. BoundOK(c)' /\ MeasuredOK(c)'
      BY <1>0, <1>1, <2>2, BoundKept
    <3>2. ASSUME cal[c].state = "published" PROVE PublishedOK(c)'
      <4>1. PICK g \in Gens : g = cal[c].gen /\ state[g] \in Fitted /\ state[g] \in Live
        BY <1>0, <3>2 DEF BoundOK, PublishedOK
      <4>2. state'[g] \in Live
        BY <1>1, <4>1, FittedStep, CollectedByGc DEF Fitted, Live, ServingInv
      <4>3. corpusFp'[g] = corpusFp[g]
        BY <1>0, <1>1, <4>1, <4>2, <3>2, SettledFrame DEF BoundOK
      <4> QED
        BY <1>0, <1>1, <4>1, <4>2, <4>3 DEF PublishedOK
    <3>3. ASSUME cal[c].state # "published" PROVE PublishedOK(c)'
      BY <1>1, <3>3 DEF PublishedOK
    <3> QED
      BY <3>1, <3>2, <3>3
  <2> QED
    BY <2>1, <2>2
<1>2. ASSUME NEW s \in Sources, NEW kind \in {"forgotten", "withdrawn"}, Forget(s, kind)
      PROVE BoundOK(c)' /\ MeasuredOK(c)' /\ PublishedOK(c)'
  <2>1. \A d \in Cals :
          /\ cal'[d].gen = cal[d].gen /\ cal'[d].fp = cal[d].fp
          /\ cal'[d].measured = cal[d].measured
          /\ \/ cal'[d].state = cal[d].state
             \/ cal[d].state = "published" /\ cal'[d].state = "superseded"
          /\ cal'[d].state = "published" => corpusFp'[cal[d].gen] = corpusFp[cal[d].gen]
    BY <1>0, <1>2 DEF Forget, CalType
  <2>2. CASE cal[c].state \notin Bound
    BY <2>1, <2>2 DEF BoundOK, MeasuredOK, PublishedOK
  <2>3. CASE cal[c].state \in Bound
    <3>1. BoundOK(c)' /\ MeasuredOK(c)'
      BY <1>0, <2>1, <2>3, BoundKept
    <3>2. state' = state
      BY <1>2 DEF Forget
    <3>3. PublishedOK(c)'
      BY <1>0, <2>1, <3>2 DEF PublishedOK
    <3> QED
      BY <3>1, <3>3
  <2> QED
    BY <2>2, <2>3
<1>3. ASSUME NEW aged \in SUBSET Gens, Gc(aged)
      PROVE BoundOK(c)' /\ MeasuredOK(c)' /\ PublishedOK(c)'
  <2>1. \A d \in Cals :
          /\ \/ cal'[d] = cal[d]
             \/ cal'[d].state = "deleted"
          /\ cal'[d].state = "published" => cal[d].gen \notin Garbage(aged)
    BY <1>0, <1>3 DEF Gc, CalType
  <2>2. CASE cal'[c].state \notin Bound
    BY <2>2 DEF BoundOK, MeasuredOK, PublishedOK
  <2>3. CASE cal'[c].state \in Bound
    <3>1. BoundOK(c)' /\ MeasuredOK(c)'
      BY <1>0, <2>1, <2>3, BoundKept
    <3>2. /\ corpusFp' = corpusFp
          /\ \A g \in Gens : g \notin Garbage(aged) => state'[g] = state[g]
      BY <1>3 DEF Gc
    <3>3. PublishedOK(c)'
      BY <1>0, <2>1, <2>3, <3>2 DEF PublishedOK, BoundOK
    <3> QED
      BY <3>1, <3>3
  <2> QED
    BY <2>2, <2>3
<1>4. CASE CalibrationStep
  <2>0. UNCHANGED <<state, corpusFp, rows, tombstones, manifest>>
    BY <1>4 DEF CalibrationStep, CarryForwardRead, CalibrateRead, CalibrateScore, CalibrateError,
                Publish, CalibrateStore, dbVars
  <2>1. ASSUME NEW b \in Cals, NEW g \in Gens, CalibrateRead(b, g)
        PROVE BoundOK(c)' /\ MeasuredOK(c)' /\ PublishedOK(c)'
    <3>1. /\ cal' = [cal EXCEPT ![b] = [state |-> "scoring", gen |-> g, fp |-> corpusFp[g],
                                        measured |-> {}]]
          /\ state[g] \in Readable
      BY <2>1 DEF CalibrateRead
    <3>2. \A s \in Sources : Settled(g, s)
      BY <3>1 DEF ServingInv, CompleteInv, ValidatedSettled, Validated, Readable
    <3>3. CASE c = b
      BY <1>0, <2>0, <3>1, <3>2, <3>3
      DEF BoundOK, MeasuredOK, PublishedOK, Fitted, Readable, Settled
    <3>4. CASE c # b
      BY <1>0, <2>0, <3>1, <3>4 DEF BoundOK, MeasuredOK, PublishedOK, SourcesOf, Settled
    <3> QED
      BY <3>3, <3>4
  <2>2. ASSUME NEW b \in Cals, CalibrateScore(b)
        PROVE BoundOK(c)' /\ MeasuredOK(c)' /\ PublishedOK(c)'
    <3>1. /\ cal' = [cal EXCEPT ![b].state = "scored",
                                ![b].measured = SourcesOf(rows[cal[b].gen])]
          /\ cal[b].state = "scoring"
      BY <2>2 DEF CalibrateScore
    <3>2. CASE c = b
      BY <1>0, <2>0, <3>1, <3>2
      DEF BoundOK, MeasuredOK, PublishedOK, SourcesOf, Settled, CalType
    <3>3. CASE c # b
      BY <1>0, <2>0, <3>1, <3>3
      DEF BoundOK, MeasuredOK, PublishedOK, SourcesOf, Settled, CalType
    <3> QED
      BY <3>2, <3>3
  <2>3. ASSUME NEW b \in Cals, NEW new \in {"draft", "rejected", "deleted"},
               cal[b].state \in {"scoring", "scored"}, cal' = [cal EXCEPT ![b].state = new],
               cal[b].state = "scored" \/ new = "deleted"
        PROVE BoundOK(c)' /\ MeasuredOK(c)' /\ PublishedOK(c)'
    BY <1>0, <2>0, <2>3 DEF BoundOK, MeasuredOK, PublishedOK, SourcesOf, Settled, CalType
  <2>4. ASSUME NEW b \in Cals, Publish(b)
        PROVE BoundOK(c)' /\ MeasuredOK(c)' /\ PublishedOK(c)'
    <3>1. /\ cal[b].state \in {"draft", "superseded"}
          /\ state[cal[b].gen] \in Live
          /\ cal[b].fp = corpusFp[cal[b].gen]
          /\ \A d \in Cals :
                cal'[d] = IF d = b THEN [cal[b] EXCEPT !.state = "published"]
                          ELSE IF cal[d].gen = cal[b].gen /\ cal[d].state = "published"
                          THEN [cal[d] EXCEPT !.state = "superseded"] ELSE cal[d]
      BY <2>4 DEF Publish, LineageUnchanged, Readable, Live
    <3>2. \A d \in Cals :
            /\ cal'[d].gen = cal[d].gen /\ cal'[d].fp = cal[d].fp
            /\ cal'[d].measured = cal[d].measured
            /\ cal'[d].state \in Measured => cal[d].state \in Measured
            /\ cal'[d].state \in Bound => cal[d].state \in Bound
            /\ cal'[d].state = "published" =>
                  d = b \/ (cal[d].state = "published" /\ cal[d].gen # cal[b].gen)
      <4> SUFFICES ASSUME NEW d \in Cals
                   PROVE /\ cal'[d].gen = cal[d].gen /\ cal'[d].fp = cal[d].fp
                         /\ cal'[d].measured = cal[d].measured
                         /\ cal'[d].state \in Measured => cal[d].state \in Measured
                         /\ cal'[d].state \in Bound => cal[d].state \in Bound
                         /\ cal'[d].state = "published" =>
                               d = b \/ (cal[d].state = "published" /\ cal[d].gen # cal[b].gen)
        OBVIOUS
      <4>1. cal[d] \in CalType /\ cal[b] \in CalType
        BY <1>0
      <4>2. CASE d = b
        BY <3>1, <4>1, <4>2 DEF CalType
      <4>3. CASE d # b /\ cal[d].gen = cal[b].gen /\ cal[d].state = "published"
        BY <3>1, <4>1, <4>3 DEF CalType
      <4>4. CASE d # b /\ ~(cal[d].gen = cal[b].gen /\ cal[d].state = "published")
        BY <3>1, <4>4
      <4> QED
        BY <4>2, <4>3, <4>4
    <3>3. BoundOK(c)' /\ MeasuredOK(c)'
      BY <1>0, <2>0, <3>2 DEF BoundOK, MeasuredOK, SourcesOf, Settled
    <3>4. PublishedOK(c)'
      BY <1>0, <2>0, <3>1, <3>2 DEF PublishedOK
    <3> QED
      BY <3>3, <3>4
  <2> QED
    BY <1>4, <2>1, <2>2, <2>3, <2>4
    DEF CalibrationStep, CarryForwardRead, CalibrateStore, CalibrateError
<1> QED
  BY <1>1, <1>2, <1>3, <1>4, CalUnchanged DEF Erasing, Collecting

LEMMA CalibrationInvariant ==
    ASSUME TenantKnown PROVE Spec => [](ServingInv /\ FpInv /\ CalInv)
<1>1. Init => FpInv /\ CalInv
  BY DEF Init, FpInv, FingerprintCurrent, Live, CalInv, BoundOK, MeasuredOK, PublishedOK, Bound,
         Measured
<1>2. ServingInv /\ FpInv /\ [Next]_vars => FpInv'
  BY FpInvStep DEF ServingInv
<1>3. ServingInv /\ FpInv /\ FpInv' /\ CalInv /\ [Next]_vars => CalInv'
  BY CalInvStep
<1> QED
  BY <1>1, <1>2, <1>3, ServingInvariant, PTL DEF Spec

\* For a tenant with a state row, a published calibration was measured on exactly
\* the rows its generation holds now, and is the only one published for it, however
\* many erasures fell between its lineage read, its scoring, its store and now.
THEOREM PublishedAlwaysCurrent == ASSUME TenantKnown PROVE Spec => []PublishedIsCurrent
<1>1. ServingInv /\ FpInv /\ CalInv => PublishedIsCurrent
  BY DEF CalInv, PublishedIsCurrent, BoundOK, MeasuredOK, PublishedOK, Bound, Measured, Fitted,
         Readable, Live
<1> QED
  BY <1>1, CalibrationInvariant, PTL

\* For a tenant with a state row, in production, nothing but a rollback takes a
\* generation live without a calibration bound to the content it serves from then.
THEOREM PromotionAlwaysCertified == ASSUME TenantKnown PROVE Spec => PromotionCertified
<1> DEFINE Gated ==
        Production /\ active' # active /\ (active # Nil => state'[active] = "retired")
            => \E c \in Cals : /\ cal'[c].state = "published"
                               /\ cal'[c].gen = active'
                               /\ cal'[c].fp = Excluded(manifest[active'], tombstones)
<1>1. ASSUME ServingInv, FpInv, [Next]_vars PROVE [Gated]_vars
  <2>1. CASE Ordinary
    BY <2>1 DEF Ordinary
  <2>2. CASE Rollback
    <3>1. active \in Gens /\ state'[active] # "retired"
      BY <1>1, <2>2 DEF Rollback, ServingInv, TypeInv, TypeOK, TenantTypeOK, PointersSafe
    <3> QED
      BY <3>1, NilAssumption
  <2>3. ASSUME NEW g \in Gens, Promote(g) PROVE Gated
    <3>1. corpusFp[g] = Excluded(manifest[g], tombstones)
      BY <1>1, <2>3 DEF Promote, FpInv, FingerprintCurrent, Live
    <3> QED
      BY <2>3, <3>1 DEF Promote, GateOpen, Certified
  <2> QED
    BY <1>1, <2>1, <2>2, <2>3, StateStep DEF ServingInv
<1> QED
  BY <1>1, CalibrationInvariant, PTL DEF Spec, PromotionCertified
=============================================================================
