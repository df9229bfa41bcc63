---------------------------- MODULE Generations ----------------------------
(***************************************************************************)
(* Blue/green index generations of one tenant: recall/generations.py       *)
(* (GenerationManager) together with the calibration artifacts bound to a  *)
(* generation (recall/calibration_v2.py, CalibrationRepository).           *)
(*                                                                         *)
(* A generation is built source by source from an immutable manifest,      *)
(* validated, calibrated, promoted, rolled back, retired and collected,    *)
(* while `forget` erases sources from all of them at any moment.           *)
(*                                                                         *)
(* Each action is one database transaction.  A transaction that holds the  *)
(* tenant row and the generation row FOR UPDATE is atomic with respect to  *)
(* every other one, and is one action.  The per-source advisory lock is    *)
(* explicit (srcLock): it is what separates "the tombstone was looked up"  *)
(* from "the rows were written".                                           *)
(***************************************************************************)
EXTENDS Naturals, FiniteSets

CONSTANTS
    Gens,               \* generation ids, in the order of their created_at
    Sources,            \* source_uri
    Versions,           \* sha256 + pipeline identity of a source's content
    EmptyVersions,      \* contents that chunk to nothing
    ClaimingVersions,   \* contents that declare `supersedes:`
    Manifests,          \* the manifests callers build from
    Workers,            \* processes running build or validate
    Cals,               \* calibration ids; one is used per fit
    RetainPrevious,     \* gc's retain_previous
    Production,         \* certification_required
    TenantKnown,        \* the tenant has a recall_tenant_state row
    Nil                 \* no generation, no version, no worker

ASSUME NilAssumption == /\ Nil \notin Gens \cup Sources \cup Versions \cup Workers
                        /\ Nil \notin [Sources -> Versions \cup {Nil}]
ASSUME VersionAssumption == EmptyVersions \subseteq Versions
                         /\ ClaimingVersions \subseteq Versions \ EmptyVersions
ASSUME ManifestAssumption == Manifests \subseteq [Sources -> Versions \cup {Nil}]
ASSUME RetainAssumption == RetainPrevious \in Nat
ASSUME BooleanAssumption == Production \in BOOLEAN /\ TenantKnown \in BOOLEAN
ASSUME GensAssumption == Gens \subseteq Nat /\ IsFiniteSet(Gens)

VARIABLES
    state,        \* recall_generations.state; absent / collected: no row
    manifest,     \* recall_generations.manifest: version of each source
    corpusFp,     \* corpus_fingerprint: the sources excluded from the manifest
    rows,         \* recall_chunks_v1: the version of each source's rows
    indexed,      \* validation_summary.indexed_sources
    marker,       \* validation_summary.semantic_graph
    graph,        \* the stored graph rows: the sources that support them
    retiredAfter, \* retired_at order: the generations retired before this one
    active,       \* recall_tenant_state.active_generation_id
    previous,     \* recall_tenant_state.previous_generation_id
    tenantRow,    \* the recall_tenant_state row exists
    tombstones,   \* recall_source_tombstones
    standing,     \* the latest supersession record of each source
    cal,          \* recall_calibrations
    srcLock,      \* holder of the advisory lock of each source
    pc, job,      \* where a worker is, and on which generation
    todo, cur,    \* its sources left, and the one in hand
    done,         \* its indexed_sources list; the tombstones a first create read
    built         \* the marker of the graph it built

dbVars   == <<state, manifest, corpusFp, rows, indexed, marker, graph, retiredAfter>>
ptrVars  == <<active, previous, tenantRow>>
workVars == <<pc, job, todo, cur, done, built>>
vars == <<dbVars, ptrVars, tombstones, standing, cal, srcLock, workVars>>

(***************************************************************************)
(* Vocabulary                                                              *)
(***************************************************************************)
Readable == {"ready", "active", "retired"}
Live == {"building", "validating", "ready", "active", "retired", "failed"}
NoRows == [s \in Sources |-> Nil]

\* mutant: projects on the contents instead of the sources
SourcesOfContents(f) == {f[s] : s \in Sources} \ {Nil}

\* the sources a manifest or a set of rows names
SourcesOf(f) == {s \in Sources : f[s] # Nil}

\* _effective_corpus_fingerprint: what a fingerprint adds to the manifest
Excluded(m, dead) == SourcesOf(m) \cap dead

\* the identity of a semantic graph over these rows, under this fingerprint
GraphOf(g) == [srcs |-> SourcesOf(rows[g]), fp |-> corpusFp[g]]
NoGraph == [srcs |-> {}, fp |-> {Nil}]

\* CalibrationRepository.resolve_within: the generation resolves CERTIFIED
Certified(g) == \E c \in Cals : /\ cal[c].state = "published"
                                /\ cal[c].gen = g
                                /\ cal[c].fp = corpusFp[g]

\* a supersession record: what removed the memo, and whether it held claims
Record(kind, claims) == [kind |-> kind, claims |-> claims]
NoRecord == Record("none", FALSE)

\* mutant: only the serving generation is protected
ProtectedActive == {active} \ {Nil}

\* the generations abandon and gc refuse: the pointers of _lock_tenant_state
Protected == {active, previous} \ {Nil}

Init ==
    /\ state = [g \in Gens |-> "absent"]
    /\ manifest = [g \in Gens |-> NoRows]
    /\ corpusFp = [g \in Gens |-> {}]
    /\ rows = [g \in Gens |-> NoRows]
    /\ indexed = [g \in Gens |-> {}]
    /\ marker = [g \in Gens |-> NoGraph]
    /\ graph = [g \in Gens |-> {}]
    /\ retiredAfter = [g \in Gens |-> {}]
    /\ active = Nil
    /\ previous = Nil
    /\ tenantRow = TenantKnown
    /\ tombstones = {}
    /\ standing = [s \in Sources |-> NoRecord]
    /\ cal = [c \in Cals |-> [state |-> "absent", gen |-> Nil, fp |-> {}, measured |-> {}]]
    /\ srcLock = [s \in Sources |-> Nil]
    /\ pc = [w \in Workers |-> "idle"]
    /\ job = [w \in Workers |-> Nil]
    /\ todo = [w \in Workers |-> {}]
    /\ cur = [w \in Workers |-> Nil]
    /\ done = [w \in Workers |-> {}]
    /\ built = [w \in Workers |-> NoGraph]

Goto(w, p) == pc' = [pc EXCEPT ![w] = p]

(***************************************************************************)
(* create.  With a tenant row the row lock covers the tombstone read and   *)
(* the insert; without one, FOR UPDATE locks nothing and a first create    *)
(* reads the tombstones and inserts in two steps.                          *)
(***************************************************************************)
InsertGeneration(g, m, excl) ==
    /\ state' = [state EXCEPT ![g] = "building"]
    /\ manifest' = [manifest EXCEPT ![g] = m]
    /\ corpusFp' = [corpusFp EXCEPT ![g] = excl]
    /\ tenantRow' = TRUE
    /\ UNCHANGED <<rows, indexed, marker, graph, retiredAfter, active, previous>>

\* ids are handed out in creation order
Newest(g) == state[g] = "absent" /\ \A h \in Gens : state[h] = "absent" => g <= h

Create(g, m) ==
    /\ tenantRow
    /\ Newest(g)
    /\ InsertGeneration(g, m, Excluded(m, tombstones))
    /\ UNCHANGED <<tombstones, standing, cal, srcLock, workVars>>

CreateFirstRead(w) ==
    /\ ~tenantRow
    /\ pc[w] = "idle"
    /\ Goto(w, "creating")
    /\ done' = [done EXCEPT ![w] = tombstones]
    /\ UNCHANGED <<dbVars, ptrVars, tombstones, standing, cal, srcLock, job, todo, cur, built>>

CreateFirstCommit(w, g, m) ==
    /\ pc[w] = "creating"
    /\ Newest(g)
    /\ InsertGeneration(g, m, Excluded(m, done[w]))
    /\ Goto(w, "idle")
    /\ done' = [done EXCEPT ![w] = {}]
    /\ UNCHANGED <<tombstones, standing, cal, srcLock, job, todo, cur, built>>

(***************************************************************************)
(* build.  Every step is a transaction of its own; a step that raises      *)
(* leaves the worker "failing", and Fail is the handler's own transaction. *)
(***************************************************************************)
\* mutant: the lock outlives its transaction
UnlockNever(w) == w \in Workers /\ UNCHANGED srcLock

\* the end of a transaction releases the advisory locks it took
Unlock(w) == srcLock' = [s \in Sources |-> IF srcLock[s] = w THEN Nil ELSE srcLock[s]]
Lock(w, s) == srcLock[s] = Nil /\ srcLock' = [srcLock EXCEPT ![s] = w]
\* source s needs no more work from w
Drop(w, s) == todo' = [todo EXCEPT ![w] = @ \ {s}]

\* the precondition check; a build of any other state raises _StepPrecondition
BuildStart(w, g) ==
    /\ pc[w] = "idle"
    /\ state[g] = "building"
    /\ Goto(w, "next")
    /\ job' = [job EXCEPT ![w] = g]
    /\ todo' = [todo EXCEPT ![w] = SourcesOf(manifest[g])]
    /\ UNCHANGED <<dbVars, ptrVars, tombstones, standing, cal, srcLock, cur, done, built>>

\* the reuse transaction opens: source lock, then the tombstone check
LockForReuse(w, s) ==
    /\ pc[w] = "next"
    /\ s \in todo[w]
    /\ srcLock[s] = Nil
    /\ IF s \in tombstones
       THEN Drop(w, s) /\ UNCHANGED <<pc, cur, srcLock>>
       ELSE /\ Lock(w, s)
            /\ cur' = [cur EXCEPT ![w] = s]
            /\ Goto(w, "reusing")
            /\ UNCHANGED todo
    /\ UNCHANGED <<dbVars, ptrVars, tombstones, standing, cal, job, done, built>>

\* _reuse_source finds the same content in a readable generation
Reusable(g, s) == \E h \in Gens : /\ state[h] \in Readable
                                  /\ rows[h][s] = manifest[g][s]

\* INSERT INTO recall_chunks_v1: the generation row must exist (foreign key)
\* and hold no rows of the source yet (primary key)
Insertable(g, s) == state[g] \in Live /\ rows[g][s] = Nil

StoreSource(w, g, s) ==
    /\ rows' = [rows EXCEPT ![g][s] = manifest[g][s]]
    /\ done' = [done EXCEPT ![w] = @ \cup {s}]
    /\ Drop(w, s)
    /\ Goto(w, "next")

\* the same transaction, to its end: copy the rows, or go on to embedding
Reuse(w) ==
    LET g == job[w]
        s == cur[w]
    IN  /\ pc[w] = "reusing"
        /\ Unlock(w)
        /\ CASE Reusable(g, s) /\ Insertable(g, s) -> StoreSource(w, g, s)
             [] Reusable(g, s) /\ ~Insertable(g, s) ->
                    Goto(w, "failing") /\ UNCHANGED <<rows, done, todo>>
             [] ~Reusable(g, s) /\ manifest[g][s] \in EmptyVersions ->
                    Drop(w, s) /\ Goto(w, "next") /\ UNCHANGED <<rows, done>>
             [] OTHER -> Goto(w, "embedded") /\ UNCHANGED <<rows, done, todo>>
        /\ UNCHANGED <<state, manifest, corpusFp, indexed, marker, graph, retiredAfter,
                       ptrVars, tombstones, standing, cal, job, cur, built>>

\* the write transaction opens: source lock, then the tombstone check again
LockForWrite(w) ==
    LET s == cur[w]
    IN  /\ pc[w] = "embedded"
        /\ srcLock[s] = Nil
        /\ IF s \in tombstones
           THEN Drop(w, s) /\ Goto(w, "next") /\ UNCHANGED srcLock
           ELSE Lock(w, s) /\ Goto(w, "writing") /\ UNCHANGED todo
        /\ UNCHANGED <<dbVars, ptrVars, tombstones, standing, cal, job, cur, done, built>>

\* _write_source and commit
Write(w) ==
    LET g == job[w]
        s == cur[w]
    IN  /\ pc[w] = "writing"
        /\ Unlock(w)
        /\ IF Insertable(g, s)
           THEN StoreSource(w, g, s)
           ELSE Goto(w, "failing") /\ UNCHANGED <<rows, done, todo>>
        /\ UNCHANGED <<state, manifest, corpusFp, indexed, marker, graph, retiredAfter,
                       ptrVars, tombstones, standing, cal, job, cur, built>>

\* _build_semantic_graph: no lock on the generation.  Its statements read and
\* write in one READ COMMITTED transaction, one step here: what commits between
\* two of them is judged, as what commits after the last, by the fingerprint in
\* the graph's identity, which every reader compares.
BuildGraph(w) ==
    LET g == job[w]
    IN  /\ pc[w] = "next"
        /\ todo[w] = {}
        /\ IF state[g] \in Live
           THEN /\ graph' = [graph EXCEPT ![g] = SourcesOf(rows[g])]
                /\ built' = [built EXCEPT ![w] = GraphOf(g)]
                /\ Goto(w, "graphed")
           ELSE Goto(w, "failing") /\ UNCHANGED <<graph, built>>
        /\ UNCHANGED <<state, manifest, corpusFp, rows, indexed, marker, retiredAfter,
                       ptrVars, tombstones, standing, cal, srcLock, job, todo, cur, done>>

\* the worker returns to the caller
Return(w) ==
    /\ Goto(w, "idle")
    /\ job' = [job EXCEPT ![w] = Nil]
    /\ todo' = [todo EXCEPT ![w] = {}]
    /\ cur' = [cur EXCEPT ![w] = Nil]
    /\ done' = [done EXCEPT ![w] = {}]
    /\ built' = [built EXCEPT ![w] = NoGraph]

\* _mark_validating, under the generation row lock
MarkValidating(w) ==
    LET g == job[w]
    IN  /\ pc[w] = "graphed"
        /\ IF state[g] = "building"
           THEN /\ state' = [state EXCEPT ![g] = "validating"]
                /\ indexed' = [indexed EXCEPT ![g] = done[w]]
                /\ marker' = [marker EXCEPT ![g] = built[w]]
                /\ Return(w)
           ELSE /\ Goto(w, "failing")
                /\ UNCHANGED <<state, indexed, marker, job, todo, cur, done, built>>
        /\ UNCHANGED <<manifest, corpusFp, rows, graph, retiredAfter,
                       ptrVars, tombstones, standing, cal, srcLock>>

\* a read, an embedding call or a statement raises; its transaction is aborted
BuildError(w) ==
    /\ pc[w] \in {"next", "reusing", "embedded", "writing", "graphed"}
    /\ Goto(w, "failing")
    /\ Unlock(w)
    /\ UNCHANGED <<dbVars, ptrVars, tombstones, standing, cal, job, todo, cur, done, built>>

\* mutant: a READY generation can be failed
FailableReady == {"building", "validating", "failed", "ready"}

\* the states fail accepts
Failable == {"building", "validating", "failed"}

\* fail, as the error handlers of build and validate call it
Fail(w) ==
    LET g == job[w]
    IN  /\ pc[w] = "failing"
        /\ state' = IF state[g] \in Failable
                    THEN [state EXCEPT ![g] = "failed"] ELSE state
        /\ Return(w)
        /\ UNCHANGED <<manifest, corpusFp, rows, indexed, marker, graph, retiredAfter,
                       ptrVars, tombstones, standing, cal, srcLock>>

\* fail, called by an ingest pipeline that gives its generation up
FailDirect(g) ==
    /\ state[g] \in Failable
    /\ state' = [state EXCEPT ![g] = "failed"]
    /\ UNCHANGED <<manifest, corpusFp, rows, indexed, marker, graph, retiredAfter,
                   ptrVars, tombstones, standing, cal, srcLock, workVars>>

\* the process dies: the server aborts its transaction and drops its locks
Crash(w) ==
    /\ pc[w] # "idle"
    /\ Return(w)
    /\ Unlock(w)
    /\ UNCHANGED <<dbVars, ptrVars, tombstones, standing, cal>>

(***************************************************************************)
(* validate                                                                *)
(***************************************************************************)
\* every check of _validate; `older`: the marker was written by an older
\* builder, whose graph is replaced rather than compared
ChecksPass(g, older) ==
    /\ SourcesOf(rows[g]) = indexed[g]
    /\ \A s \in SourcesOf(rows[g]) : rows[g][s] = manifest[g][s]
    /\ marker[g] # NoGraph
    /\ older \/ marker[g] = GraphOf(g)

Validate(g, older) ==
    /\ state[g] = "validating"
    /\ ChecksPass(g, older)
    /\ state' = [state EXCEPT ![g] = "ready"]
    /\ IF older
       THEN /\ marker' = [marker EXCEPT ![g] = GraphOf(g)]
            /\ graph' = [graph EXCEPT ![g] = SourcesOf(rows[g])]
       ELSE UNCHANGED <<marker, graph>>
    /\ UNCHANGED <<manifest, corpusFp, rows, indexed, retiredAfter,
                   ptrVars, tombstones, standing, cal, srcLock, workVars>>

\* a check fails, or a statement does: validate goes on to fail the generation
ValidateError(w, g) ==
    /\ pc[w] = "idle"
    /\ state[g] = "validating"
    /\ Goto(w, "failing")
    /\ job' = [job EXCEPT ![w] = g]
    /\ UNCHANGED <<dbVars, ptrVars, tombstones, standing, cal, srcLock, todo, cur, done, built>>

(***************************************************************************)
(* The semantic graph of a stable generation                               *)
(***************************************************************************)
RebuildGraph(g) ==
    /\ state[g] \in Readable \cup {"failed"}
    /\ graph' = [graph EXCEPT ![g] = SourcesOf(rows[g])]
    /\ marker' = [marker EXCEPT ![g] = GraphOf(g)]
    /\ UNCHANGED <<state, manifest, corpusFp, rows, indexed, retiredAfter,
                   ptrVars, tombstones, standing, cal, srcLock, workVars>>

\* mutant: any ready marker is taken for the graph's
GraphAcceptedUnchecked(g) == marker[g] # NoGraph

\* what a reader does with the graph it loaded: _cached_semantic_graph refuses
\* one that is not the graph the marker was written for.  The graph id, with
\* the corpus fingerprint in it, is itself read from the marker, so only the
\* members are compared.
GraphAccepted(g) == marker[g] # NoGraph /\ marker[g].srcs = graph[g]

DeleteGraph(g) ==
    /\ state[g] \in Live
    /\ graph' = [graph EXCEPT ![g] = {}]
    /\ marker' = [marker EXCEPT ![g] = NoGraph]
    /\ UNCHANGED <<state, manifest, corpusFp, rows, indexed, retiredAfter,
                   ptrVars, tombstones, standing, cal, srcLock, workVars>>

(***************************************************************************)
(* promote, rollback, abandon: under the tenant row lock                   *)
(***************************************************************************)
\* mutant: a forget that finds no copy records a memo without claims
RecordOfVoids(kind, version, prior) ==
    CASE version \in ClaimingVersions -> Record(kind, TRUE)
      [] version \notin ClaimingVersions /\ prior # NoRecord -> Record(kind, FALSE)
      [] OTHER -> prior

\* pending_records: what removing a memo with this content appends, given
\* the record that stands for it already
RecordOf(kind, version, prior) ==
    CASE version \in ClaimingVersions -> Record(kind, TRUE)
      [] version \in Versions \ ClaimingVersions /\ prior # NoRecord -> Record(kind, FALSE)
      [] version = Nil /\ kind = "withdrawn" /\ prior # NoRecord -> Record(kind, prior.claims)
      [] OTHER -> prior

\* _record_omitted_supersession: the memos the incoming generation lacks
OmittedRecords(outgoing, incoming) ==
    IF outgoing = Nil THEN standing
    ELSE [s \in Sources |->
            IF rows[outgoing][s] # Nil /\ rows[incoming][s] = Nil
            THEN RecordOf("forgotten", rows[outgoing][s], standing[s])
            ELSE standing[s]]

\* g is retired now, after every generation that is retired already
Retire(g) ==
    retiredAfter' = [h \in Gens |-> IF h = g THEN {k \in Gens : state[k] = "retired"} \ {g}
                                    ELSE retiredAfter[h] \ {g}]

\* mutant: a calibration published on any generation opens the gate
GateOpenAny(g) == Production => g \in Gens /\ \E c \in Cals : cal[c].state = "published"

\* require_certified_for_production, on the promoting transaction
GateOpen(g) == Production => Certified(g)

Promote(g) ==
    /\ state[g] = "ready"
    /\ GateOpen(g)
    /\ standing' = OmittedRecords(active, g)
    /\ state' = [h \in Gens |-> IF h = g THEN "active"
                                ELSE IF h = active THEN "retired" ELSE state[h]]
    /\ IF active = Nil THEN UNCHANGED retiredAfter ELSE Retire(active)
    /\ active' = g
    /\ previous' = active
    /\ UNCHANGED <<manifest, corpusFp, rows, indexed, marker, graph, tenantRow,
                   tombstones, cal, srcLock, workVars>>

\* mutant: the rollback target stays what it was
RollbackOnce ==
    /\ previous # Nil
    /\ state[previous] \in {"retired", "ready"}
    /\ state' = [h \in Gens |-> IF h = previous THEN "active"
                                ELSE IF h = active THEN "ready" ELSE state[h]]
    /\ active' = previous
    /\ UNCHANGED <<previous, manifest, corpusFp, rows, indexed, marker, graph, retiredAfter,
                   tenantRow, tombstones, standing, cal, srcLock, workVars>>

\* ungated; the outgoing generation stays READY for recovery
Rollback ==
    /\ previous # Nil
    /\ state[previous] \in {"retired", "ready"}
    /\ state' = [h \in Gens |-> IF h = previous THEN "active"
                                ELSE IF h = active THEN "ready" ELSE state[h]]
    /\ active' = previous
    /\ previous' = active
    /\ UNCHANGED <<manifest, corpusFp, rows, indexed, marker, graph, retiredAfter, tenantRow,
                   tombstones, standing, cal, srcLock, workVars>>

Abandon(g) ==
    /\ state[g] = "ready"
    /\ g \notin Protected
    /\ state' = [state EXCEPT ![g] = "failed"]
    /\ UNCHANGED <<manifest, corpusFp, rows, indexed, marker, graph, retiredAfter,
                   ptrVars, tombstones, standing, cal, srcLock, workVars>>

(***************************************************************************)
(* forget: source lock, tenant row, every generation row, one transaction  *)
(***************************************************************************)
\* mutant: the newest copy decides, served or not
HoldersNewest(s) == LET all == {g \in Gens : state[g] \in Live /\ rows[g][s] # Nil}
                    IN  {g \in all : \A h \in all : h <= g}

\* the generations a forget of s may read its claims from: the active one if
\* it holds s, else the newest that does
Holders(s) == LET all == {g \in Gens : state[g] \in Live /\ rows[g][s] # Nil}
              IN  IF active \in all THEN {active} ELSE {g \in all : \A h \in all : h <= g}

\* mutant: forget does not take the source lock
SourceFreeAlways(s) == s \in Sources

\* the source lock is forget's to take
SourceFree(s) == srcLock[s] = Nil

\* mutant: only the generations behind the pointers are erased from
SelectedPointers == Protected

\* the generations forget erases from: every one but legacy_unverified
Selected == {g \in Gens : state[g] \in Live}

Forget(s, kind) ==
    LET dead == tombstones \cup {s}
    IN  /\ SourceFree(s)
        /\ tombstones' = dead
        /\ corpusFp' = [g \in Gens |-> IF g \in Selected THEN Excluded(manifest[g], dead)
                                       ELSE corpusFp[g]]
        /\ cal' = [c \in Cals |->
                     IF cal[c].state = "published" /\ corpusFp'[cal[c].gen] # corpusFp[cal[c].gen]
                     THEN [cal[c] EXCEPT !.state = "superseded"] ELSE cal[c]]
        /\ IF Holders(s) = {}
           THEN standing' = [standing EXCEPT ![s] = RecordOf(kind, Nil, @)]
           ELSE \E h \in Holders(s) :
                    standing' = [standing EXCEPT ![s] = RecordOf(kind, rows[h][s], @)]
        /\ rows' = [g \in Gens |-> IF g \in Selected THEN [rows[g] EXCEPT ![s] = Nil]
                                   ELSE rows[g]]
        /\ graph' = [g \in Gens |-> IF g \in Selected THEN graph[g] \ {s} ELSE graph[g]]
        /\ UNCHANGED <<state, manifest, indexed, marker, retiredAfter, ptrVars, srcLock, workVars>>

(***************************************************************************)
(* gc: under the tenant row lock.  `aged` are the generations whose age is *)
(* past retention_days.                                                    *)
(***************************************************************************)
NewerRetiredThan(h, g) == state[h] = "retired" /\ state[g] = "retired" /\ g \in retiredAfter[h]
NewerRetired(g) == {h \in Gens \ Protected : NewerRetiredThan(h, g)}

\* mutant: the count starts one too high
KeptByCountOffByOne(g) ==
    /\ state[g] = "retired"
    /\ Cardinality(NewerRetired(g)) + 2 < RetainPrevious

\* retain_previous: newest retired first, the previous generation counted
KeptByCount(g) ==
    /\ state[g] = "retired"
    /\ Cardinality(NewerRetired(g)) + (IF previous = Nil THEN 0 ELSE 1) < RetainPrevious

Garbage(aged) == {g \in aged \ Protected : /\ state[g] \in {"retired", "failed"}
                                          /\ ~KeptByCount(g)}

\* deleting a generation row cascades to its rows, graph and calibrations
Gc(aged) ==
    LET dead == Garbage(aged)
    IN  /\ dead # {}
        /\ \A g \in aged, h \in Gens : NewerRetiredThan(g, h) => h \in aged
        /\ state' = [g \in Gens |-> IF g \in dead THEN "collected" ELSE state[g]]
        /\ rows' = [g \in Gens |-> IF g \in dead THEN NoRows ELSE rows[g]]
        /\ graph' = [g \in Gens |-> IF g \in dead THEN {} ELSE graph[g]]
        /\ marker' = [g \in Gens |-> IF g \in dead THEN NoGraph ELSE marker[g]]
        /\ cal' = [c \in Cals |-> IF cal[c].gen \in dead
                                      /\ cal[c].state \notin {"scoring", "scored"}
                                  THEN [cal[c] EXCEPT !.state = "deleted"] ELSE cal[c]]
        /\ UNCHANGED <<manifest, corpusFp, indexed, retiredAfter, ptrVars,
                       tombstones, standing, srcLock, workVars>>

(***************************************************************************)
(* Calibration: the lineage is read, then the queries are scored on the    *)
(* generation, then the artifact is stored; publish is one transaction     *)
(* that holds the generation row FOR SHARE.                                *)
(***************************************************************************)
CalibrateRead(c, g) ==
    /\ cal[c].state = "absent"
    /\ state[g] \in Readable
    /\ cal' = [cal EXCEPT ![c] = [state |-> "scoring", gen |-> g, fp |-> corpusFp[g],
                                  measured |-> {}]]
    /\ UNCHANGED <<dbVars, ptrVars, tombstones, standing, srcLock, workVars>>

\* carry_forward: the same, from a published parent on another generation
\* whose corpus fingerprint differs
CarryForwardRead(c, p, g) ==
    /\ cal[p].state = "published"
    /\ cal[p].gen # g
    /\ <<manifest[cal[p].gen], cal[p].fp>> # <<manifest[g], corpusFp[g]>>
    /\ CalibrateRead(c, g)

CalibrateScore(c) ==
    /\ cal[c].state = "scoring"
    /\ state[cal[c].gen] \in Readable
    /\ cal' = [cal EXCEPT ![c].state = "scored", ![c].measured = SourcesOf(rows[cal[c].gen])]
    /\ UNCHANGED <<dbVars, ptrVars, tombstones, standing, srcLock, workVars>>

CalibrateStore(c, certified) ==
    /\ cal[c].state = "scored"
    /\ state[cal[c].gen] \in Live
    /\ cal' = [cal EXCEPT ![c].state = IF certified THEN "draft" ELSE "rejected"]
    /\ UNCHANGED <<dbVars, ptrVars, tombstones, standing, srcLock, workVars>>

\* scoring raises, or the generation is gone
CalibrateError(c) ==
    /\ cal[c].state \in {"scoring", "scored"}
    /\ cal' = [cal EXCEPT ![c].state = "deleted"]
    /\ UNCHANGED <<dbVars, ptrVars, tombstones, standing, srcLock, workVars>>

\* mutant: the fingerprint is not compared at publication
LineageUnchecked(c) == cal[c].gen \in Gens

\* the generation's fingerprints are still those the fit was bound to
LineageUnchanged(c) == cal[c].fp = corpusFp[cal[c].gen]

Publish(c) ==
    LET g == cal[c].gen
    IN  /\ cal[c].state \in {"draft", "superseded"}
        /\ state[g] \in Readable
        /\ LineageUnchanged(c)
        /\ cal' = [d \in Cals |->
                     IF d = c THEN [cal[c] EXCEPT !.state = "published"]
                     ELSE IF cal[d].gen = g /\ cal[d].state = "published"
                     THEN [cal[d] EXCEPT !.state = "superseded"] ELSE cal[d]]
        /\ UNCHANGED <<dbVars, ptrVars, tombstones, standing, srcLock, workVars>>

(***************************************************************************)
(* The system                                                              *)
(***************************************************************************)
WorkerStep(w) ==
    \/ CreateFirstRead(w)
    \/ \E g \in Gens : \/ BuildStart(w, g) \/ ValidateError(w, g)
                       \/ \E m \in Manifests : CreateFirstCommit(w, g, m)
    \/ \E s \in Sources : LockForReuse(w, s)
    \/ Reuse(w) \/ LockForWrite(w) \/ Write(w) \/ BuildGraph(w) \/ MarkValidating(w)
    \/ BuildError(w) \/ Fail(w) \/ Crash(w)

OperatorStep ==
    \/ \E g \in Gens : \/ \E m \in Manifests : Create(g, m)
                       \/ \E older \in BOOLEAN : Validate(g, older)
                       \/ RebuildGraph(g) \/ DeleteGraph(g)
                       \/ Promote(g) \/ Abandon(g) \/ FailDirect(g)
    \/ Rollback
    \/ \E s \in Sources, kind \in {"forgotten", "withdrawn"} : Forget(s, kind)
    \/ \E aged \in SUBSET Gens : Gc(aged)

CalibrationStep ==
    \E c \in Cals :
        \/ \E g \in Gens : CalibrateRead(c, g) \/ \E p \in Cals : CarryForwardRead(c, p, g)
        \/ CalibrateScore(c) \/ CalibrateError(c) \/ Publish(c)
        \/ \E certified \in BOOLEAN : CalibrateStore(c, certified)

Next == (\E w \in Workers : WorkerStep(w)) \/ OperatorStep \/ CalibrationStep

Spec == Init /\ [][Next]_vars

\* A worker that is not killed goes on: its statements return, and PostgreSQL
\* grants an advisory lock to its waiters in order, so a lock that is released
\* again and again is granted in the end (strong fairness).
Progress(w) == \/ \E s \in Sources : LockForReuse(w, s)
               \/ \E g \in Gens, m \in Manifests : CreateFirstCommit(w, g, m)
               \/ Reuse(w) \/ LockForWrite(w) \/ Write(w) \/ BuildGraph(w)
               \/ MarkValidating(w) \/ Fail(w)
FairSpec == Spec /\ \A w \in Workers : SF_vars(Progress(w))

(***************************************************************************)
(* Properties                                                              *)
(***************************************************************************)
GraphType == [srcs : SUBSET Sources, fp : SUBSET (Sources \cup {Nil})]
RecordType == [kind : {"none", "forgotten", "withdrawn"}, claims : BOOLEAN]
CalStates == {"absent", "scoring", "scored", "draft", "rejected", "published", "superseded",
              "deleted"}
CalType == [state : CalStates, gen : Gens \cup {Nil}, fp : SUBSET Sources,
            measured : SUBSET Sources]
PCs == {"idle", "creating", "next", "reusing", "embedded", "writing", "graphed", "failing"}

DbTypeOK ==
    /\ state \in [Gens -> Live \cup {"absent", "collected"}]
    /\ manifest \in [Gens -> [Sources -> Versions \cup {Nil}]]
    /\ corpusFp \in [Gens -> SUBSET Sources]
    /\ rows \in [Gens -> [Sources -> Versions \cup {Nil}]]
    /\ indexed \in [Gens -> SUBSET Sources]
    /\ marker \in [Gens -> GraphType]
    /\ graph \in [Gens -> SUBSET Sources]
    /\ retiredAfter \in [Gens -> SUBSET Gens]

TenantTypeOK ==
    /\ active \in Gens \cup {Nil}
    /\ previous \in Gens \cup {Nil}
    /\ tenantRow \in BOOLEAN
    /\ tombstones \subseteq Sources
    /\ standing \in [Sources -> RecordType]
    /\ srcLock \in [Sources -> Workers \cup {Nil}]

CalTypeOK == cal \in [Cals -> CalType]

WorkTypeOK ==
    /\ pc \in [Workers -> PCs]
    /\ job \in [Workers -> Gens \cup {Nil}]
    /\ todo \in [Workers -> SUBSET Sources]
    /\ cur \in [Workers -> Sources \cup {Nil}]
    /\ done \in [Workers -> SUBSET Sources]
    /\ built \in [Workers -> GraphType]

\* The shape of every row and of every worker's local state.
TypeOK == DbTypeOK /\ TenantTypeOK /\ CalTypeOK /\ WorkTypeOK

\* The serving pointers never dangle: the active pointer names the one active
\* generation, and the previous pointer a generation rollback accepts, however
\* promotions, rollbacks, abandons, late failures and collections interleave.
PointersSafe ==
    /\ \A g \in Gens : state[g] = "active" <=> g = active
    /\ previous # Nil => /\ state[previous] \in {"retired", "ready"}
                         /\ active # Nil

\* An erased source has no rows in any generation: a build that looked the
\* source up before the erasure never writes it after.
NoResurrection == \A g \in Gens, s \in tombstones : rows[g][s] = Nil

\* A generation that passed validation holds exactly its manifest's content,
\* less what was erased and what chunks to nothing, whichever workers built,
\* validated or failed it and whatever was erased meanwhile.
ReadableIsComplete ==
    \A g \in Gens : state[g] \in Readable =>
        \A s \in Sources :
            rows[g][s] = IF s \in tombstones \/ manifest[g][s] \in EmptyVersions
                         THEN Nil ELSE manifest[g][s]

\* A published calibration was measured on exactly the rows its generation
\* holds now: no erasure, before or after the fit, leaves a stale one served.
PublishedIsCurrent ==
    \A c \in Cals : cal[c].state = "published" =>
        /\ state[cal[c].gen] \in Readable \cup {"failed"}
        /\ cal[c].fp = corpusFp[cal[c].gen]
        /\ cal[c].measured = SourcesOf(rows[cal[c].gen])
        /\ \A d \in Cals : cal[d].state = "published" /\ cal[d].gen = cal[c].gen => d = c

\* A reader that checks the stored graph against the generation's marker never
\* accepts a graph that misses a source or still holds an erased one.
AcceptedGraphIsCurrent ==
    \A g \in Gens :
        state[g] \in Readable /\ GraphAccepted(g) => graph[g] = SourcesOf(rows[g])

\* Every generation's fingerprint excludes exactly the erased sources of its
\* manifest.
FingerprintCurrent ==
    \A g \in Gens : state[g] \in Live => corpusFp[g] = Excluded(manifest[g], tombstones)

\* A generation that passed validation is only ever failed by abandon, and
\* never while it serves or is the rollback target: the late error of another
\* build or validation of it changes nothing.
LateFailureHarmless ==
    [][\A g \in Gens : state[g] \in Readable /\ state'[g] = "failed"
            => state[g] = "ready" /\ g \notin Protected]_vars

\* In production a generation goes live, other than by rollback, only under a
\* calibration that is bound to the content it serves from that moment on.
PromotionCertified ==
    [][Production /\ active' # active /\ (active # Nil => state'[active] = "retired")
            => \E c \in Cals : /\ cal'[c].state = "published"
                               /\ cal'[c].gen = active'
                               /\ cal'[c].fp = Excluded(manifest[active'], tombstones)]_vars

\* A memo that declares `supersedes:` and stops being served, by promotion or by
\* forget, leaves a record of its claims; only a rollback leaves none.
ServedClaimsSurvive ==
    [][\A s \in Sources :
            /\ active # Nil
            /\ rows[active][s] \in ClaimingVersions
            /\ rows'[active'][s] = Nil
            /\ active' # active => state'[active] = "retired"
            => standing'[s].claims]_vars

\* A forget keeps retired what the memo retired: while a record stands in for a
\* memo that is not served, only a withdrawal voids its claims.
ForgetKeepsRetired ==
    [][\A s \in Sources :
            /\ standing[s] = Record("forgotten", TRUE)
            /\ active # Nil
            /\ rows[active][s] = Nil
            => standing'[s].claims \/ standing'[s].kind = "withdrawn"]_vars

\* What voids the claims of a forgotten memo that is not served, other than a
\* withdrawal, is only a forget that reads a copy without claims from a generation
\* that does not serve either: a forget that is repeated, with or without the
\* memo's own copy left, a promotion that leaves it out again, a rollback, a
\* build or a collection keeps retired what the memo retired.
OnlyUnservedCopyVoids ==
    [][\A s \in Sources :
            /\ standing[s] = Record("forgotten", TRUE)
            /\ active # Nil
            /\ rows[active][s] = Nil
            /\ ~standing'[s].claims /\ standing'[s].kind # "withdrawn"
            => /\ s \in tombstones'
               /\ \E h \in Gens \ {active} : /\ state[h] \in Live
                                           /\ rows[h][s] \in Versions \ ClaimingVersions]_vars

\* gc leaves a rollback window: a retired generation is only collected while
\* RetainPrevious generations that served after it stay.
GcKeepsWindow ==
    [][\A g \in Gens : state[g] = "retired" /\ state'[g] = "collected" =>
            RetainPrevious <= Cardinality({h \in Gens : /\ state'[h] \in Readable \ {"active"}
                                                        /\ h = previous' \/ g \in retiredAfter'[h]})]_vars

\* A worker on a generation always gets back to its caller: no lock order, no
\* erasure and no other worker leaves it waiting for ever.
WorkersReturn == \A w \in Workers : job[w] # Nil ~> job[w] = Nil

\* what a search can return while the pointer is g
ServedBy(g) == IF g = Nil THEN Nil ELSE rows[g]

Corpus == INSTANCE ServedCorpus WITH served <- ServedBy(active), prior <- ServedBy(previous),
                                     erased <- tombstones

\* A search only ever sees one whole manifest less what was erased: builds,
\* errors, crashes, validations and collections change nothing of it, promote
\* and rollback replace it in one step, and forget removes one source from it
\* and from what a rollback would bring back.
ServesWholeCorpus == Corpus!Spec
=============================================================================
