# RE-call: a TLA+ model of the parts that are hard to test

RE-call is a memory and retrieval service: documents ("memos") are chunked and
embedded into PostgreSQL (or, for one machine, SQLite), searched, calibrated,
superseded, forgotten, and turned into facts whose provenance is kept in a ledger.
Most of the repository is sequential text processing and SQL. The parts whose
correctness depends on the *order* in which several processes, threads or
transactions act are the ones specified here.

Contents: [the system](#the-system), [the modules](#the-modules),
[the runs](#the-runs), [fairness](#fairness), [what is proved](#what-is-proved),
[findings](#findings), [what is not modelled](#what-is-not-modelled),
[plan](#plan). Line numbers and the definition-by-definition correspondence are
in `PROJECT.json` under `map`; the hazards the properties are aimed at are under
`hazards`.

## The system

| part | state it keeps | operations | interacts with | what makes it correct |
|---|---|---|---|---|
| generation manager, `recall/generations.py` | generation rows, manifests, chunk rows, semantic graphs, the tenant's active and previous pointers, tombstones | create, build, validate, fail, promote, rollback, abandon, forget, withdraw, gc, rebuild graph | called by CLI, desktop ingest and MCP server, several processes at a time; ordered by row locks and per-source advisory locks | pointers never dangle; erased text never returns; what is served is one whole manifest less what was erased |
| calibration, `recall/calibration_v2.py` | calibration artifacts bound to a generation and its corpus fingerprint | calibrate, carry_forward, publish, resolve, the promotion gate | forget supersedes artifacts; promote asks the gate | a published artifact was measured on what is served now |
| supersession records, `recall/supersession_records.py` | one standing record per removed memo | recorded by forget, withdraw, promote | read by the resolver that hides retired memos | forgetting a memo does not give back what it retired |
| materialization outbox, `recall/fact_ledger.py`, `recall/provenance_controller.py` | ledger events, outbox rows with lease tokens | apply, enqueue, claim, mark applied/failed, reconcile | callers and recovery jobs deliver the same rows to a downstream store | no success is reported that did not happen; each event is delivered in the end; a late worker undoes nothing |
| semantic graph cache, `recall_mcp/semantic_graph_cache.py`, `recall/generation_store.py` | readiness and graphs in server memory | snapshot, readiness, cached load with single flight | forget and rebuild run in other processes | no graph of an erased source is served; waiters return; refusals heal |
| lite writer lanes, `recall/lite/writer_lock.py` | ticket, counter, holder and lock files | lite_lane acquire, coalesce, give up, release | every process of a Lite installation | first come, first served; a coalesced request is still served; a dead process blocks nobody |
| fact projections, `recall/fact_current.py`, `fact_events.py` | current-facts tables derived from the ledger | apply, rebuild, reconcile | written in the ledger's transaction | the table equals a replay |
| fact decisions and their erasure, `recall/provenance_controller.py`, `stated_facts.py`, `fact_retraction.py`, `fact_redaction.py` | ledger events with evidence cards, the card table, chunk records | apply a fact, reconcile stated facts, prepare, retract and redact at a forget | forget, the indexer's prune, searches; ordered by the ledger's erasure lock | what a forget reported erased stays erased; only decisions retract for good |
| migration control plane, `recall/control_plane.py`, `enterprise_cli.py` | generations, the tenant's route, the dual-write outbox | create, mark ready, retire, set route, dual write, replay, scrub, cutover | the indexer's writes, `recall_forget`, the server's cached route | a promoted generation is owed no write; replay brings back nothing erased; the outbox drains |
| indexer, legacy store, `recall/index.py`, `recall/store.py` | legacy chunk rows | replace, delete, prune | control plane, fact ledger, supersession records | rows of one source are replaced as a whole |
| desktop ingest, `recall_mcp/desktop_ingest.py` | a tenant ingest lock, uploads carried forward | upload | generation manager | a failed upload leaves nothing that the next one carries on |
| hosted service, `recall_aml/` | rows and receipts, add flights and their slots, the user's queue, a search cache with epochs | Add, delete, Search, shutdown | other processes on the same tables | what is acknowledged is stored, once; a Search ranks nothing older than what was acknowledged; everyone is answered |
| Lite store, refresh, calibration, `recall/lite/` | one SQLite database | refresh, refit, memo requests | lanes | a refresh sees a consistent store |
| connection pool, embedding cache, rate limiter, authentication | per process | checkout, eviction, reservation | every request | tenant settings do not leak between checkouts |
| trust gate, retriever, reranker, supersession arbiter, reasoning | none of their own | pure functions of rows and scores | called by searches | ranking and verdicts |
| hooks, CLI, dashboards, evaluation | none | wrap the parts above | | |

What is hard here: a build runs for minutes outside any lock while sources are
forgotten; a calibration measures rows that change under it; workers crash
between two transactions or outlive their lease; answers are served from memory
after the database moved on; queues live in files that a killed process leaves
half written; one write goes to two tables that an operator may swap in between;
a client that was told to come back meets its own request still running; a fact
is decided on evidence that a forget is erasing.

## The modules

Each action is one transaction, one critical section or one call that other
processes can observe; everything the code does inside it, early returns and
trailing writes included, is in the action. Operators marked `mutant:` stand
next to the definition they break and are used by nothing else.

### Generations, ServedCorpus

`Generations.tla` is one tenant's generations and calibrations. Contents are
reduced to *versions* (sha256 and pipeline identity) with the two distinctions
the properties need: a version may chunk to nothing, and it may declare
`supersedes:`. A corpus fingerprint is represented by the set of sources it
excludes from the manifest, because `_effective_corpus_fingerprint` is a hash of
the manifest and that set. A semantic graph is its supporting sources and its
fingerprint.

* Transactions that hold the tenant row or the generation row `FOR UPDATE` are
  single actions: `Create`, `MarkValidating`, `Validate`, `Promote`, `Rollback`,
  `Abandon`, `Forget`, `Gc`, `RebuildGraph`, `Publish`.
* `build` is a worker with a program counter: `BuildStart`, then per source
  `LockForReuse`/`Reuse` and `LockForWrite`/`Write`, then `BuildGraph` (which
  takes no generation lock, as the code does) and `MarkValidating`. Advisory
  source locks (`srcLock`) are explicit, since the tombstone check is only sound
  while one is held. `BuildError` and `Fail` are the exception path in its two
  transactions; `Crash` is a killed process, which runs no handler.
* A tenant's first `create` finds no row to lock: `CreateFirstRead` and
  `CreateFirstCommit`, when `TenantKnown` is FALSE.
* `validate`'s failure is `ValidateError` followed by `Fail`, which re-reads the
  state; the checks pass in `Validate`.
* A fit is `CalibrateRead` (or `CarryForwardRead`), `CalibrateScore`,
  `CalibrateStore`, then `Publish`; whether it is certified is a free choice.
* `Gc` picks any set of generations as past their retention age, consistent with
  the order in which they were retired. It deletes rows, graphs and calibrations
  of the dead (the schema's cascades).

`ServedCorpus.tla` is the abstract specification: what a search can return is a
whole manifest less what was erased; it is replaced in one step, brought back in
one step, and loses an erased source for ever. `Generations` implements it under
`served <- rows of active`, `prior <- rows of previous`.

### MaterializationOutbox, LedgerDelivery

Both adapters of the durable outbox: the variable `adapter` is chosen at the start
and never changes. PostgreSQL appends and enqueues in one transaction and leaves
`lease_token` as it is at a mark; SQLite takes two transactions and sets it to
NULL. `AckLoss` allows a committed mark whose reply is lost. Callers run
`_delivered`; recovery jobs run `reconcile` and `run_once` with a batch limit.
A token is the number of the claim that minted it; the code uses a random
hexadecimal token, so distinctness is what is kept. `Deliver` is one transaction
of `materialize` (`PostgresCurrentFacts`, `SQLiteCurrentFacts`, or a store that a
deployment configures under the same contract), idempotent; what it computes from
the event is not modelled. A claim of the PostgreSQL adapter may skip a row that
another worker's enqueue or failing mark has locked (`SKIP LOCKED`, `Locked`); a
skipped row counts as a fault, so it does not happen for ever. Time is one bit
per lease, `live`, which `Expire` clears whether or not the holder is still
working.

`LedgerDelivery.tla` is the abstract specification: an event is recorded, written
downstream, settled and answered, each only after the one before; only settling can
be undone (a lost reply). `MaterializationOutbox` implements it under `recorded <-
ledger`, `written <- delivered`, `settled <-` the applied rows, `answered <- told`.

### GraphCache

One server's request threads over one active generation: the snapshot pins a
fingerprint, readiness is read or taken from its cache, the graph is looked up
under both and loaded by one thread per key. `Forget` and `RebuildGraph` are the
other processes. Database reads are separate actions, critical sections under the
cache's lock are one action each.

### LiteLanes

One lane of the Lite writer queue: counter, tickets, lane and holder files, and
the mutex they are edited under. A file lock is its holder; a ticket is live
while its creator's lock lasts. A rewrite of the counter passes through an empty
file, so `Number` and `Stamp` are two steps. Locks are let go outside the mutex,
as `_let_go` does. `ahead` is a history variable, the waiters queued before one.
Threads belong to processes (`PidOf`): a ticket's name is its number and the
process, a thread asks for one of the purposes `Jobs` gives it, and a process that
dies takes all its threads along. A thread that gives up removes its ticket by
name, which can be the name of a sibling's by then: `Lost` says so of the sibling,
and is the one exception that `FirstComeFirstServed` makes.

### ControlPlane

One tenant's move from a live generation to a shadow one. It composes the control
plane with its users: the indexer (`recall/index.py`, one per table by
`index_lock`), `recall_forget` up to its outbox scrub, replays and the operator's
commands. What a table holds of a source is the number of the batch that wrote it,
batches being numbered as the files are read, so "which write is newer" can be
told and text cannot.

* A dual write is four actions, as in `_flush`: `AppendEvent`, `WriteActive`,
  `WriteShadow`, `CompleteEvent`. `Crash` may come between any two.
* `recall_forget` looks at the cached route twice (`GetForForget`, `GetShadow`),
  takes the outbox lock, deletes from both tables in one transaction
  (`DeleteAcross`) and scrubs the pending payloads (`ScrubPending`, `ScrubFails`).
* A replay opens the stores the pending events name, takes the outbox lock or
  refuses, reads the pending events *under* the lock, and applies them in order.
* `cutover` is `CutoverBegin`, `CutoverVerify`, `CutoverLag`, `CutoverSwap`: the
  first two run before the transaction, and the route is locked only by the last.
* `set-route` reads the generations' states without a lock (`ReadStates`,
  `SetRoute`).
* `owed` and `forgotAt` are history variables: the tables an event has yet to
  reach, and how many events there were when a source was last scrubbed.

### HostedService

One user of the hosted service, with its response budget and the user's queue
switched on (`RECALL_AML_TENANT_LOCK_WAIT_SECONDS`). An Add request takes a flight
slot, looks for a receipt, joins or starts a flight, and is answered with the
result or told to come back; the flight outlives it: queue, tenant lock, receipt
check, `Persist`, `Invalidate`, receipt, unlock. Deletes go through the same queue
and lock. A Search uses, refreshes or builds the tenant's BM25 snapshot: epoch,
fingerprint, versions, missing rows and filing are separate actions, because each
is a statement or a critical section of its own. `ForeignAdd` is another process
on the same tables: one step, whose commit may leave the fingerprint (row count,
newest row, sum of versions) as it was by coincidence and which may fail after
it, before its receipt. The documentation runs the service as one process, so
deletes by another are left out; Adds are kept because `search_cache.py` (lines
22 to 28) speaks of them. `Evict`, `BeginShutdown`, `Restart`, the timeouts and the
failures are the faults. `log` is what the table held after each commit, so
"fresh" is: what is ranked is an entry of `log`, and one no older than the last
commit anybody had been told of when the Search began. Commits of another process
that left the fingerprint unchanged are kept in the history variable `hidden`; a
Search does not owe them (`Due`) until a later write moves the fingerprint or this
process's own epoch, which is what `search_cache.py` says of them.

### FactErasure

Applications of facts against the erasure of the memos they rest on. The ledger
holds, per request id, the event with its raw evidence cards, the marks of those
redacted, and whether a retraction names it. A retraction is keyed by the fact and
the set of its cards (`retraction_key`), so an assertion appended later from the
very cards of one that no redaction followed is retracted on arrival (`Retracted`).
Processes: `apply_fact` (lock, check,
perhaps a fresh search outside the lock whose cards are registered and checked
under it again, append), the reconcile of stated facts (reads before it holds the
lock, checks each memo again under it), the indexer's prune (record, then delete,
under a shared hold), and forget: lock, prepare, delete, look, retract, redact.
The erasure lock is shared or exclusive and granted in turn: whoever comes after a
waiting forget waits behind it (`ShareFree`). The code looks at the store lazily,
chunk by chunk and once for the names, where `ForgetLook` looks once; rows only
come while the forget holds the lock, and the code keeps what it saw. Any step of
a forget may fail, which skips what follows; the caller then calls again. A memo
is one chunk of one content, so a memo also names its card.

`MC*.tla` give the constants of the runs; the `*Proofs.tla` modules hold theorems.

## The runs

| run | instance | checks |
|---|---|---|
| `lifecycle` | 4 generations, no source, 1 worker, keep 2 | `PointersSafe`, `LateFailureHarmless`, `GcKeepsWindow` |
| `erasure` | 2 generations, 2 sources, 3 versions (1 claims, 1 is empty), 1 worker | `TypeOK`, `NoResurrection`, `ServedClaimsSurvive`, `OnlyUnservedCopyVoids`, `ServesWholeCorpus` (refinement) |
| `builders` | 1 generation, 2 sources, 2 workers, tenant without a row | `ReadableIsComplete`, `AcceptedGraphIsCurrent`, `WorkersReturn` |
| `calibration` | 2 generations, 1 source, 2 fits, production | `FingerprintCurrent`, `PublishedIsCurrent`, `PromotionCertified` |
| `forget_voids_claims` | 3 generations of 1 memo | violates `ForgetKeepsRetired` |
| `outbox` | either adapter, 2 events, 1 caller, 1 recovery job, batch 2, 2 faults, 1 overrun, lost replies | `ToldMeansDelivered`, `TokenInv`, `AppliedStands`, `LeaseRespected`, `DeliversLedger` (refinement), `EventuallyApplied` |
| `graph_cache` | 2 sources, 2 threads, 1 entry | `NoErasedGraph`, `OneFlight`, `WaitersReturn`, `RefusalsHeal` |
| `lanes` | 2 threads of one process and 1 of another, 4 requests, 2 faults | `FirstComeFirstServed`, `CoalescedIsServed`, `WaitersServed` |
| `control_plane` | 2 generations, 1 source, 2 batches, 1 indexer, 1 forget, 1 replay, 1 command, 1 fault | `ReplayNeverRestores`, `CutoverCarriesEveryWrite`, `EventuallyDrained` |
| `forget_straddles_cutover` | the same without faults | violates `ForgetReachesBothTables` |
| `hosted` | 9 casts of up to 3 clients, 2 Adds, 2 slots, 1 place in the queue, up to 2 foreign Adds, up to 1 fault | `TypeOK`, `AckedIsStored`, `SearchIsFresh`, `SlotsConserved`, `ReceiptIsFinal`, `EveryoneIsTold` |
| `fact_erasure` | 2 memos of 1 fact, 1 request, 1 statement, 3 calls, 1 fault | `TypeOK`, `ErasedFactsStayErased`, `RetractionsAreDecided`, `ForgetIsServed` |

The largest runs (`fact_erasure`, `hosted`, `erasure`) have between four hundred
thousand and 1.4 million states and take two to three minutes. Why the bounds are
enough:

* Every property of `Generations` is about at most two generations and one source
  at a time (the one that serves and the one that replaces it), except retention,
  which needs a previous, a kept and a collected one besides the active: four.
  Interference between builders needs two workers. Sources are independent but
  for the graph, which the two-source runs cover. Generation ids are used once,
  which is what bounds the behaviours; a collected id does not return in the code
  either. An interleaving that would need more of either is covered by the
  theorems, which fix no number.
* A dangerous outbox history is: claim, overrun, claim by another, late mark. A
  caller, a recovery job, two faults and an overrun contain it, with a second
  event for batches.
* `graph_cache` needs an erasure and a rebuild between any two reads of two
  threads, two erasures in a row, and an eviction: with one entry every new key
  evicts.
* `lanes` needs a waiter, a newcomer and a counter lost in between, by the death
  of a process or by a failed write, and a sibling of one that gave up: three
  threads in two processes, with a request more than threads and two faults, reach
  each, the ticket a sibling loses included.
* `control_plane` needs a dual write that is cut off, a second batch that
  overtakes its replay, a forget of the source between any two steps, and one
  command that moves the route; retiring a generation is not counted.
* `hosted` cannot hold every client at once, so a behaviour begins by choosing a
  cast (`Scenarios`): duplicates of an Add and a delete; another process beside
  them; a Search beside an Add, a delete, another Search or two commits of another
  process; every slot taken and two Adds queued, so that the queue is full and the
  next is refused. Each hazard listed needs at most
  three clients.
* `fact_erasure` needs a fact with one or two supporting memos, one of which also
  states it, and three calls: a prune or a forget that fails, indexing in between,
  and the forget that is run again. The statement and a request may rest on the
  same card, so the retraction of one can meet the other.

`CHECK_DEADLOCK FALSE` appears where a behaviour ends because ids, requests or
faults are used up. Symmetry is used for invariants and action properties only,
never in a liveness run, and only over sets whose members neither the model nor
the properties tell apart.

The bounds named in the modules: `MaxFaults` (errors, crashes, skipped rows),
`MaxOverruns` (leases that run out under a working holder; expiry of abandoned
leases is not bounded), `MaxRequests`, `MaxErrors`. `attempts` and ticket numbers
are bounded through them.

## Fairness

* `Generations!FairSpec`: strong fairness of a worker's own steps. Statements
  return, and PostgreSQL grants an advisory lock to its waiters in order, so a
  source lock released again and again is granted in the end. Nothing is assumed
  of operators, fits or crashes.
* `MaterializationOutbox!FairSpec`: a started call goes on (weak), every lease
  runs out (weak: the clock), and the recovery job that
  `docs/PROVENANCE_CONTROLLER.md` prescribes keeps calling `reconcile` (strong,
  because a job that crashes is started again). Without the job an event whose
  caller died is never delivered: nothing in the request path comes back for it.
* `GraphCache!FairSpec`: a request that has begun goes on (weak). Erasures and
  rebuilds need not happen, so `RefusalsHeal` is conditional on the graph being
  current for good.
* `LiteLanes!FairSpec`: sections run to their end and holders' work ends (weak);
  a waiter polling every few milliseconds for a mutex held for less gets it
  (strong). A mutex that stays taken is `MutexTimeout`, which is not assumed.
* `ControlPlane!FairSpec`: an index or a forget that has begun goes on, and
  somebody runs `recall-enterprise replay` again while events are pending, as the
  runbook asks (weak). Nothing is assumed of operators.
* `HostedService!FairSpec`: the event loop, its threads and the database go on,
  clients send again until they are answered (the 503 they get says so), and a
  service that was stopped is started again (weak). Searches need not happen.
* `FactErasure!FairSpec`: calls that have begun go on, and a lock that is free is
  granted to the first in its queue (weak: PostgreSQL's advisory locks queue).
  No call is assumed to be made.

## What is proved

All proofs are checked by TLAPS for every value of the constants, from the
assumptions named in the modules: `Nil` is none of the other values, generations
are natural numbers and finitely many, versions that claim are not empty,
manifests map sources to versions; for the outbox that callers and recovery jobs
are different and events finitely many; for the hosted service that Adds are
finitely many and no Add is a delete; bounds are natural numbers.

`GenerationsProofs`
* `TypeCorrect`. `TypeInv` = `TypeOK` and `LocalOK`: a worker past its start has
  a generation, one inside a source has a source. Without `LocalOK` the types of
  what it writes are unknown.
* `PointersAlwaysSafe` and `LateFailuresHarmless`, through `StateStep`: every
  step is a promotion, a rollback, or moves states along the few edges that
  `Ordinary` lists and leaves the pointers alone, so the invariants are checked
  against those three and not against thirty actions.
* `ErasedStaysErased`. `ErasureInv` = `LocksHeld` (a worker that is copying or
  writing a source holds its lock, and the source is not a tombstone),
  `RowsOnlyLive` and `NoResurrection`. `NoResurrection` alone is not inductive: a
  worker about to write an erased source satisfies it.
* `ReadableAlwaysComplete`. `CompleteInv`: rows are the manifest's
  (`RowsFaithful`), each source a builder has left behind is written, erased or
  empty (`WorkerSettled`), and so is every source of a generation that reached
  validation (`ValidatedSettled`). It needs a clause about *every* builder,
  because whichever comes first marks the generation.
* `GenerationsServeCorpus`, the refinement of `ServedCorpus`, with `ServingInv`
  (the invariants above and that every created generation's manifest is one of
  `Manifests`).
* `AcceptedGraphsAreCurrent`. A reader compares the stored graph with the marker
  and neither with the rows, so the property alone says nothing of the step that
  comes next. `GraphInv`: no stored graph holds an erased source, and a collected
  generation has none (`GraphUnerased`); a readable generation's marker, less what
  was erased since, is its rows (`MarkerCovers`). A builder that comes late to a
  validated generation changes its graph and no row: whoever stores a graph stores
  it for the rows of that moment.
* `ClaimsSurvive` and `ClaimsVoidedByCopy`, with `ServingInv`: the first is what
  promote and forget keep, the second what bounds finding 1.
* `GcLeavesWindow`. One gc call deletes several generations, so the newer ones a
  deleted generation was counted against may be deleted with it. `RetiredOrdered`:
  "retired after" is irreflexive and transitive. Then of the generations retired
  after a deleted one, those within the count fill it (`KeptFillsCount`): if some
  are out of the count, the newer ones of the newest of these are all within it and
  there are enough of them. The least element comes from the well-foundedness of
  strict inclusion on finite sets.

`CalibrationProofs`, for a tenant with a state row (`TenantKnown`; the first
observation below says why): `FingerprintAlwaysCurrent` by `FpInv`;
`PublishedAlwaysCurrent` and `PromotionAlwaysCertified` by `CalInv`: an artifact's
fingerprint is of its own generation and excludes only erased sources
(`BoundOK`), what it measured differs from the rows only if its fingerprint is
stale (`MeasuredOK`), and a published one is current and alone (`PublishedOK`).

`OutboxProofs`: `OutboxTypeCorrect`; `AnswersAreTrue` by `HonestInv` (a row is
applied, and a worker about to mark it, only after delivery); `TokensAlwaysFence`
and `AppliedAlwaysStands` by `TokenInv` (tokens are minted once, current for one
worker at most, and for none once the row is applied); `LeasesAlwaysRespected` by
`LiveInv`. `OutboxDeliversLedger` is the refinement of `LedgerDelivery`, by
`HonestInv` and `LedgerInv` (rows, claimed batches, what a reconcile has still to
enqueue and what a caller has in hand are ledger events): every action is one
abstract step or a stutter.

`GraphCacheProofs`: `ErasedGraphNeverServed` by `CacheInv` (the stored graph holds
nothing erased, and each entry, load and waiter agrees with the fingerprint and
the marker in its key); `OneFlightPerKey`.

`LanesProofs`: `CoalescedAlwaysServed` by `LaneInv` (who is in which section,
whose ticket is whose); `ArrivalOrderKept` by `QueueInv` (waiters have tickets
unless a sibling removed them, and the tickets are numbered in the order of
arrival), for threads spread over processes in any way; `TicketsAreKept`: a waiter
loses its ticket only to a sibling of its own process that gave up earlier, which
is what bounds the exception.

`ControlPlaneProofs`: `PlaneTypeCorrect`. `ReplaySafe` by `ScrubInv`: an event
that a source was scrubbed from no longer holds it, neither in the outbox nor in
the hand of a replay, which can only be so because whoever reads payloads holds
the outbox lock from the reading to the last write. `CutoverSafe` by `OwedInv`: a
completed event is owed to no table; an indexer or a replay that is past a table
owes its event to that table no more; and when a cutover is about to swap, every
event up to its mark is completed.

`HostedProofs`: `HostedTypes`, `SlotsNeverLeak`, `AckedAddsAreStored`,
`ReceiptsAreFinal`, all from `HostedInvariant`. Its parts: `Turn` (who mutates is
first in the user's queue, so there is one), `Locked` (and holds the tenant lock),
`Stored` (a flight that succeeded, and each receipt, has its rows), `Conserved`
(slots left, plus those of flights and of requests that have not handed theirs
over, are all the slots) and `Built` (a Search that extends a snapshot has one).
`AckedIsStored` is not inductive by itself: a request is answered from a flight's result, so the
result must be known to be stored, and to stay so until the flight ends, which is
what the queue is for.

`SearchesAreFresh`, by `FreshInv` on top of it. A Search that ranks something
current tells nothing of the next one, which may take a snapshot from the cache;
so the invariant dates what the service keeps. `Dated`: the fingerprint, what
clients were told of and the floor of each Search are positions in `log`, and an
empty table prints as 0. What another process committed under an unchanged
fingerprint is in `hidden` and is not part of a floor (`Due`, `Told`). `Snapped`: each
snapshot, filed or on its way to be, was
the table at one moment, and one no older than any Search that may still take it
for current by epoch and fingerprint. `BuildsAlone`: who builds holds the build
lock, has an epoch from before, and extends a snapshot only by rows it saw.
`RanksCurrent`: what a Search has found was the table at or after its floor. It
rests on the order in the code: an Add moves the epoch before its receipt is
written, and a Search reads the epoch before the fingerprint.

`FactErasureProofs`: `FactTypes`; `ErasureIsFinal` and `OnlyDecisionsRetract` by
`FactInv`, which adds to `TypeOK`: nobody shares the lock while a forget holds it
(`LockInv`); nothing reported erased is in the store, nor in what an application or
a reconcile has checked under the lock and will append, and that is never an empty
set of cards (`CheckedInv`); the plan of
a forget at work judges every card the ledger cites and erases only what was named
(`PlanInv`); and a memo that is not in the store was pruned or named in a forget
(`GoneIsRecorded`), which is how a forget that is run again knows what the first
one deleted.

Only model-checked: the liveness properties `WorkersReturn`, `EventuallyApplied`,
`WaitersReturn`, `RefusalsHeal`, `WaitersServed`, `EventuallyDrained`,
`EveryoneIsTold` and `ForgetIsServed`: liveness under fairness and `ENABLED` are out
of the prover's reach. Every invariant, action property and refinement that a
passing run checks is also a theorem: the three of `CalibrationProofs` for a tenant
with a state row (`TenantKnown`), which the observations below explain, the others
without a hypothesis. The type invariants
of `ControlPlane` and `MaterializationOutbox` are theorems only.

## Findings

1. `forget_voids_claims`: forget reads the claims it records from the active
   generation's copy, else from the newest copy, whatever its state. If the memo
   was left out by an earlier promotion, its claims stand as a record; a newer
   generation that never served may hold a copy that declares nothing, and a
   second forget then records "no claims", so what the memo retired becomes
   current again. The docstring names this copy and, in the same sentence,
   promises "a forget keeps retired what it retired". `OnlyUnservedCopyVoids`
   bounds it: without such a copy, no history of forgets, promotions, rollbacks,
   builds and collections voids the claims of a forgotten memo.
2. `forget_straddles_cutover`: `recall_forget` takes its active store and, later,
   its shadow store by two looks at the route. If a cutover or a set-route swaps
   the two in between, both looks return one table, and the generation that serves
   from then on keeps the source, while `docs/ENTERPRISE_RETRIEVAL.md` says the
   tool "deletes from both generation tables in one database transaction". A
   second forget erases it.

Observations, where nothing the repository says is contradicted or the effect
heals by itself:

* A tenant's first `create` finds no row to lock, so a forget that commits between
  its tombstone read and its insert leaves the generation with the fingerprint of
  its whole manifest. No erased text is written (build checks again), and the next
  forget corrects the fingerprint. `CalibrationProofs` and the run `calibration`
  assume `TenantKnown`, so `FingerprintCurrent` says nothing of that first create.
* A lane thread that gives up drops its lock and removes its ticket by name later.
  If the counter was emptied in between, a sibling thread of the same process may
  by then have a ticket of that name and loses it, so a later arrival can pass it.
  `FirstComeFirstServed` excepts exactly the waiter whose ticket was lost so, and
  `lanes` reaches the case.
* Another process's Add can leave row count, newest row and sum of versions as they
  were; a Search of this process then serves the rows it had until the next write,
  as `search_cache.py` (lines 22 to 28) says. `SearchIsFresh` excepts those commits
  and no other, and `hosted` reaches the case.
* A refusal records the claim it was given. When every card of an application
  failed it cites none (`provenance_controller.py`, lines 1474, 1506 and 1512), and
  a redaction erases a value only along a card that cites it. So an application
  that is in its fresh search while a forget erases the value's only memo records
  the value again, and so does one sent afterwards; a further forget of that memo
  does not reach it (`recall provenance erase`, which takes every value of a tenant,
  does). The redaction's description speaks of the cards of a value, so nothing is
  contradicted; the refusal asserts nothing and no projection lists it.
  `ErasedFactsStayErased` names it as the only
  way a value can be held without evidence.
* An assertion appended from the very cards of a retraction that no redaction
  followed (a forget failed in between, and the memo was indexed again) is answered
  as applied and is not listed, because the two share their `retraction_key`.
* The PostgreSQL `mark_applied` keeps the token, so after a lost reply the same
  caller's `mark_failed` puts an applied row back to failed and it is delivered
  again, which the materializer's idempotence absorbs (this is why `AppliedStands`
  is stated for the other adapter or for replies that are not lost).
* A holder record left by a release that could not get the mutex can make one more
  request of a coalescing purpose wait; that costs an extra run.
* `retire` and a failed `create-generation` do not look for pending events that
  name the generation: every later replay refuses them and every cutover is
  blocked (`Wedged`, which `EventuallyDrained` excepts).
* `set-route` reads the generations' states without a lock, so a `retire` that
  commits in between leaves the route naming a retired generation. The docstring
  of `control_plane.py` counts on the serving path, which refuses a retired
  generation at each request.
* A prune scrubs no pending event, so a replay can write a vanished source back;
  the next index prunes it again.
* With the user's queue switched off, a delete may commit after an Add released
  the tenant lock and before its flight ended; a resend that joins the flight is
  then acknowledged although its rows are gone. The queue is what rules it out.
* Evidence cards are registered without the erasure lock, so a search that read a
  memo before its forget can put the memo's card back into the card table
  afterwards. `ErasedFactsStayErased` is about the ledger, which checks the rows
  again under the lock; a second forget erases the card.
* Recovery delivers materializations without the erasure lock: a payload claimed
  before a redaction may reach a configured store after it. The repository's own
  materializers take nothing of it but the event id and read the ledger again.

## What is not modelled

Inside the modelled parts: whole-group reuse and take-back of contextual
embedding groups, adoption of legacy generations, the fact retraction after gc,
redaction of outbox rows, supersession and contradiction between facts, the Lite
variant of the fact ledger, reentrant lanes, calibration statistics and the
resolution cache; for the control plane several tenants and what its parity report
counts; for the hosted service a response budget of zero, the queue switched off,
Adds that yield no row, the caches of corpus status and superseded ids, and the
reference ranking. An Add's rows are one commit in the model.

Steps that are coarser than the code: `BuildGraph` is one step where the code runs
several READ COMMITTED statements without a lock on the generation, and
`CutoverBegin` and `CutoverVerify` each merge autocommit reads; what is read there
is compared again, by the graph's identity at each reader and by the outbox and the
route in the swap's transaction. Row locks are not modelled (a transaction is a
step), so `WorkersReturn` would find an advisory lock that is not released and not
a wait between an advisory and a row lock. `owed` counts a batch as carried to a
table once it was written there, so `CutoverCarriesEveryWrite` does not speak of an
older replay that overwrites a newer batch; `ReplayNeverRestores` speaks of one
that overwrites an erasure.

Elsewhere:
ranking, trust thresholds and calibration statistics are floating-point
functions, out of TLC's reach; extraction, chunking and prompts are text
processing; providers, authentication and hooks are network I/O; CLI, dashboards
and evaluation add no state. `PROJECT.json` lists each part with its reason.

## Plan

Done, with proofs: `Generations` and `ServedCorpus`, `MaterializationOutbox`,
`GraphCache`, `LiteLanes`, `ControlPlane`, `HostedService`, `FactErasure`. What is
left, most important first:

1. `GroupedBuild`: group reuse and take-back over several source locks, with the
   deadlock question of its lock order; retraction after gc.
2. `CurrentFacts`: the current-facts tables refine a replay of the ledger.
3. `DesktopIngest` over `Generations`: the tenant ingest lock and what a failed
   upload leaves; Lite refresh and refit over `LiteLanes`, with lane order.
4. Pure algorithms against reference definitions: the supersession resolver and
   the arbiter, the rate limiter's reservation and replay, the embedding cache's
   eviction.
