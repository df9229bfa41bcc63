---------------------------- MODULE ControlPlane ----------------------------
(***************************************************************************)
(* One tenant's move from a live index generation to a shadow one:         *)
(*   recall/control_plane.py     generations, the route, the outbox of     *)
(*                               dual writes, replay, scrub and cutover    *)
(*   recall/index.py             the indexer's prune and dual write        *)
(*   recall/index_lock.py        one indexer per active table              *)
(*   recall_mcp/stores.py        the server's cached route                 *)
(*   recall_mcp/lifecycle.py     recall_forget, up to its outbox scrub     *)
(*   recall/enterprise_cli.py    the operator's commands                   *)
(*                                                                         *)
(* What a generation holds of a source is the number of the batch that     *)
(* wrote it, 0 when it holds nothing; batches are numbered as the files    *)
(* are read.  Every transaction is an action.  A process that raises or    *)
(* dies loses its session locks and nothing else.                          *)
(***************************************************************************)
EXTENDS Naturals, FiniteSets

CONSTANTS
    Gens,           \* generation ids, each with a physical table
    First,          \* the generation the tenant starts on
    Tables,         \* the tables indexed by name
    Shadows,        \* the shadows it may start with, ready; Nil: none
    Sources,
    Loads,          \* the sets of sources a batch of files may hold
    Requests,       \* the sets of sources a forget may name
    Indexers,       \* requests of recall_index
    Forgetters,     \* requests of recall_forget
    Replayers,      \* runs of recall-enterprise replay
    Operators,      \* runs of the other recall-enterprise commands
    AllowDivergent, \* cutover is given --allow-divergent-corpus
    MaxBatches,     \* bound: batches read
    MaxForgets,     \* bound: erasure requests
    MaxCommands,    \* bound: commands of the operators, retire aside
    MaxFaults,      \* bound: errors and crashes
    Nil             \* no generation, no process

Procs == Indexers \cup Forgetters \cup Replayers \cup Operators
Batches == 1..MaxBatches

ASSUME PlaneFirst ==
    /\ First \in Gens /\ Nil \notin Gens
    /\ Tables \subseteq Gens /\ Shadows \subseteq Gens \cup {Nil}
ASSUME PlaneInputs == Loads \cup Requests \subseteq (SUBSET Sources) \ {{}}
ASSUME PlaneRoles ==
    /\ Nil \notin Procs
    /\ Indexers \cap Forgetters = {} /\ Indexers \cap Replayers = {}
    /\ Forgetters \cap Replayers = {}
    /\ Operators \cap (Indexers \cup Forgetters \cup Replayers) = {}
ASSUME PlaneBounds ==
    MaxBatches \in Nat /\ MaxForgets \in Nat /\ MaxCommands \in Nat /\ MaxFaults \in Nat
ASSUME PlaneSwitch == AllowDivergent \in BOOLEAN

VARIABLES
    gstate,     \* recall_index_generations.state; none: not registered
    route,      \* recall_tenant_routes: the active and the shadow generation
    cached,     \* StoreRegistry._routes: the route and the states read with it
    rows,       \* generation -> source -> the batch its rows come from
    read,       \* how many batches have been read
    appended,   \* how many events recall_migration_events holds, by sequence_id
    status,     \* .status of each event
    payload,    \* the sources in .payload
    pair,       \* .payload: the active and the shadow generation
    batch,      \* .payload: the batch the chunks come from
    outboxLock, \* who holds the tenant's outbox advisory lock
    indexLock,  \* who holds the advisory lock of each table's indexing
    pc,
    store, shadow,  \* the generations a process works on
    work,       \* the sources an indexer writes or a forget is asked for
    found,      \* the sources a table held when a process looked
    mine,       \* the batch in an indexer's hand
    event,      \* the event an indexer has to complete
    opened,     \* the stores a replay has opened
    hand,       \* the payloads a replay has read and not yet applied
    mark,       \* how many events there were when a cutover saw no lag
    forgets, commands, faults,
    owed,       \* history: the generations each event has yet to be written to
    forgotAt    \* history: how many events there were when a source was last scrubbed

plane == <<gstate, route>>
outbox == <<appended, status, payload, pair, batch>>
locks == <<outboxLock, indexLock>>
jobs == <<store, shadow, work, found, mine, event, opened, hand, mark>>
bounds == <<read, forgets, commands, faults>>
history == <<owed, forgotAt>>
vars == <<plane, cached, rows, outbox, locks, pc, jobs, bounds, history>>

States == {"none", "building", "ready", "active", "retired", "failed"}
SERVABLE_ACTIVE_STATES == {"ready", "active"}
SERVABLE_STATES == {"building", "ready", "active"}
Routes == [active : Gens, shadow : Gens \cup {Nil}]
Views == [active : Gens, shadow : Gens \cup {Nil}, astate : States, sstate : States]
Steps == {"idle", "shadow", "lock", "prune", "batch", "append", "write", "mirror", "complete",
          "delete", "scrub", "drain", "next",
          "created", "routing", "checking", "verified", "swap"}

PlaneTypeOK ==
    /\ gstate \in [Gens -> States] /\ route \in Routes
    /\ cached \in Views
    /\ rows \in [Gens -> [Sources -> 0..MaxBatches]]

OutboxTypeOK ==
    /\ appended \in 0..MaxBatches
    /\ status \in [Batches -> {"none", "pending", "complete"}]
    /\ payload \in [Batches -> SUBSET Sources]
    /\ pair \in [Batches -> [active : Gens \cup {Nil}, shadow : Gens \cup {Nil}]]
    /\ batch \in [Batches -> 0..MaxBatches]
    /\ owed \in [Batches -> SUBSET (Gens \cup {Nil})]
    /\ forgotAt \in [Sources -> 0..MaxBatches]

LockTypeOK ==
    outboxLock \in Procs \cup {Nil} /\ indexLock \in [Gens -> Procs \cup {Nil}]

JobTypeOK ==
    /\ pc \in [Procs -> Steps]
    /\ store \in [Procs -> Gens \cup {Nil}] /\ shadow \in [Procs -> Gens \cup {Nil}]
    /\ work \in [Procs -> SUBSET Sources] /\ found \in [Procs -> SUBSET Sources]
    /\ mine \in [Procs -> 0..MaxBatches] /\ event \in [Procs -> 0..MaxBatches]
    /\ opened \in [Procs -> SUBSET (Gens \cup {Nil})]
    /\ hand \in [Procs -> [Batches -> SUBSET Sources]]
    /\ mark \in [Procs -> 0..MaxBatches]

BoundTypeOK ==
    /\ read \in 0..MaxBatches /\ forgets \in 0..MaxForgets
    /\ commands \in 0..MaxCommands /\ faults \in 0..MaxFaults

TypeOK == PlaneTypeOK /\ OutboxTypeOK /\ LockTypeOK /\ JobTypeOK /\ BoundTypeOK

\* ControlPlane.route, one statement.
View ==
    [active |-> route.active, shadow |-> route.shadow, astate |-> gstate[route.active],
     sstate |-> IF route.shadow = Nil THEN "none" ELSE gstate[route.shadow]]

\* A tenant on its first generation, perhaps with a shadow, perhaps with
\* generations made ready earlier that it is not routed to.
Init ==
    /\ \E s \in Shadows, R \in SUBSET Gens :
        /\ gstate = [g \in Gens |-> IF g \in {First, s} \cup R THEN "ready" ELSE "none"]
        /\ route = [active |-> First, shadow |-> s]
    /\ cached = View
    /\ rows = [g \in Gens |-> [s \in Sources |-> 0]]
    /\ appended = 0
    /\ status = [i \in Batches |-> "none"]
    /\ payload = [i \in Batches |-> {}]
    /\ pair = [i \in Batches |-> [active |-> Nil, shadow |-> Nil]]
    /\ batch = [i \in Batches |-> 0]
    /\ outboxLock = Nil /\ indexLock = [g \in Gens |-> Nil]
    /\ pc = [p \in Procs |-> "idle"]
    /\ store = [p \in Procs |-> Nil] /\ shadow = [p \in Procs |-> Nil]
    /\ work = [p \in Procs |-> {}] /\ found = [p \in Procs |-> {}]
    /\ mine = [p \in Procs |-> 0] /\ event = [p \in Procs |-> 0]
    /\ opened = [p \in Procs |-> {}]
    /\ hand = [p \in Procs |-> [i \in Batches |-> {}]]
    /\ mark = [p \in Procs |-> 0]
    /\ read = 0 /\ forgets = 0 /\ commands = 0 /\ faults = 0
    /\ owed = [i \in Batches |-> {}]
    /\ forgotAt = [s \in Sources |-> 0]

-----------------------------------------------------------------------------
(* Shared steps of the processes                                           *)

Go(p, step) == pc' = [pc EXCEPT ![p] = step]

\* A process ends, however it ends: what it had in hand is gone and its
\* connections close, which releases the advisory locks they hold.
Stop(p) ==
    /\ Go(p, "idle")
    /\ store' = [store EXCEPT ![p] = Nil] /\ shadow' = [shadow EXCEPT ![p] = Nil]
    /\ work' = [work EXCEPT ![p] = {}] /\ found' = [found EXCEPT ![p] = {}]
    /\ mine' = [mine EXCEPT ![p] = 0] /\ event' = [event EXCEPT ![p] = 0]
    /\ opened' = [opened EXCEPT ![p] = {}]
    /\ hand' = [hand EXCEPT ![p] = [i \in Batches |-> {}]]
    /\ mark' = [mark EXCEPT ![p] = 0]
    /\ outboxLock' = (IF outboxLock = p THEN Nil ELSE outboxLock)
    /\ indexLock' = [g \in Gens |-> IF indexLock[g] = p THEN Nil ELSE indexLock[g]]

Crash(p) ==
    /\ pc[p] # "idle" /\ faults < MaxFaults
    /\ faults' = faults + 1
    /\ Stop(p)
    /\ UNCHANGED <<plane, cached, rows, outbox, read, forgets, commands, history>>

\* In one transaction: the sources S of the tables gs come from batch n now,
\* or (n = 0) are deleted.
Put(gs, S, n) ==
    rows' = [g \in Gens |-> [s \in Sources |-> IF g \in gs /\ s \in S THEN n ELSE rows[g][s]]]

\* Event i (0: there is none) is written to g.
Reach(i, g) == owed' = (IF i = 0 THEN owed ELSE [owed EXCEPT ![i] = @ \ {g}])

-----------------------------------------------------------------------------
(* StoreRegistry: the route a server works with                            *)

\* What a request is told of the route: the cached entry, or, when a NOTIFY or
\* its age has dropped it, the route and the states as they are.
RouteReads == {cached, View}

\* A request acquires the active generation's store, or is refused it.
GetStore(p, v) ==
    /\ pc[p] = "idle" /\ v.astate \in SERVABLE_ACTIVE_STATES
    /\ cached' = v
    /\ store' = [store EXCEPT ![p] = v.active]
    /\ Go(p, "shadow")
    /\ UNCHANGED <<plane, rows, outbox, locks, shadow, found, mine, event, opened, hand, mark,
                   read, commands, faults, history>>

GetForIndex(x) ==
    /\ read < MaxBatches
    /\ \E v \in RouteReads : GetStore(x, v)
    /\ UNCHANGED <<work, forgets>>

GetForForget(f) ==
    \E v \in RouteReads, S \in Requests :
        /\ forgets < MaxForgets
        /\ GetStore(f, v)
        /\ forgets' = forgets + 1
        /\ work' = [work EXCEPT ![f] = S]

GetRefused(p) ==
    /\ pc[p] = "idle"
    /\ cached' \in RouteReads /\ cached'.astate \notin SERVABLE_ACTIVE_STATES
    /\ UNCHANGED <<plane, rows, outbox, locks, pc, jobs, bounds, history>>

\* Later, with the registry's lock released in between, the shadow's store.
\* An indexer then reads the route itself for the shadow's profile.
GetShadow(p) ==
    /\ pc[p] = "shadow"
    /\ cached' \in RouteReads
    /\ IF \/ cached'.shadow = Nil
          \/ /\ cached'.sstate \in SERVABLE_STATES
             /\ p \in Indexers => route.shadow # Nil
       THEN /\ shadow' = [shadow EXCEPT ![p] = cached'.shadow]
            /\ Go(p, "lock")
            /\ UNCHANGED <<locks, store, work, found, mine, event, opened, hand, mark>>
       ELSE Stop(p)
    /\ UNCHANGED <<plane, rows, outbox, bounds, history>>

-----------------------------------------------------------------------------
(* The indexer                                                             *)

\* recall index and the session hooks open a table by name, with no route.
OpenTable(x, g) ==
    /\ pc[x] = "idle" /\ read < MaxBatches
    /\ gstate[g] # "none"
    /\ store' = [store EXCEPT ![x] = g]
    /\ Go(x, "lock")
    /\ UNCHANGED <<plane, cached, rows, outbox, locks, shadow, work, found, mine, event, opened,
                   hand, mark, bounds, history>>

\* single_writer: the lock is the active table's; then what that table holds
\* is read, which decides what can be pruned.
LockTable(x) ==
    /\ pc[x] = "lock"
    /\ IF indexLock[store[x]] = Nil
       THEN /\ indexLock' = [indexLock EXCEPT ![store[x]] = x]
            /\ found' = [found EXCEPT ![x] = {s \in Sources : rows[store[x]][s] # 0}]
            /\ Go(x, "prune")
            /\ UNCHANGED <<outboxLock, store, shadow, work, mine, event, opened, hand, mark>>
       ELSE Stop(x)     \* ConcurrentIndex
    /\ UNCHANGED <<plane, cached, rows, outbox, bounds, history>>

\* Files gone from the disk leave both tables, and no event is recorded.
PruneVanished(x) ==
    /\ pc[x] = "prune"
    /\ \E vanished \in SUBSET found[x] : Put({store[x], shadow[x]}, vanished, 0)
    /\ found' = [found EXCEPT ![x] = {}]
    /\ Go(x, "batch")
    /\ UNCHANGED <<plane, cached, outbox, locks, store, shadow, work, mine, event, opened, hand,
                   mark, bounds, history>>

\* The next batch of files is read and embedded for both generations.
ReadBatch(x) ==
    /\ pc[x] = "batch" /\ read < MaxBatches
    /\ \E S \in Loads : work' = [work EXCEPT ![x] = S]
    /\ read' = read + 1
    /\ mine' = [mine EXCEPT ![x] = read + 1]
    /\ Go(x, IF shadow[x] = Nil THEN "write" ELSE "append")
    /\ UNCHANGED <<plane, cached, rows, outbox, locks, store, shadow, found, event, opened, hand,
                   mark, forgets, commands, faults, history>>

FinishIndex(x) ==
    /\ pc[x] = "batch"
    /\ Stop(x)
    /\ UNCHANGED <<plane, cached, rows, outbox, bounds, history>>

AppendEvent(x) ==
    LET i == appended + 1
    IN  /\ pc[x] = "append" /\ appended < MaxBatches
        /\ appended' = i
        /\ status' = [status EXCEPT ![i] = "pending"]
        /\ payload' = [payload EXCEPT ![i] = work[x]]
        /\ pair' = [pair EXCEPT ![i] = [active |-> store[x], shadow |-> shadow[x]]]
        /\ batch' = [batch EXCEPT ![i] = mine[x]]
        /\ event' = [event EXCEPT ![x] = i]
        /\ owed' = [owed EXCEPT ![i] = {store[x], shadow[x]}]
        /\ Go(x, "write")
        /\ UNCHANGED <<plane, cached, rows, locks, store, shadow, work, found, mine, opened, hand,
                       mark, bounds, forgotAt>>

WriteActive(x) ==
    /\ pc[x] = "write"
    /\ Put({store[x]}, work[x], mine[x])
    /\ Reach(event[x], store[x])
    /\ Go(x, IF shadow[x] = Nil THEN "batch" ELSE "mirror")
    /\ UNCHANGED <<plane, cached, outbox, locks, jobs, bounds, forgotAt>>

WriteShadow(x) ==
    /\ pc[x] = "mirror"
    /\ Put({shadow[x]}, work[x], mine[x])
    /\ Reach(event[x], shadow[x])
    /\ Go(x, "complete")
    /\ UNCHANGED <<plane, cached, outbox, locks, jobs, bounds, forgotAt>>

\* complete_event, which raises when the event is no longer pending.
MarkComplete(i) ==
    /\ status' = [status EXCEPT ![i] = "complete"]
    /\ payload' = [payload EXCEPT ![i] = {}]

CompleteEvent(x) ==
    /\ pc[x] = "complete"
    /\ IF status[event[x]] = "pending"
       THEN /\ MarkComplete(event[x])
            /\ work' = [work EXCEPT ![x] = {}] /\ mine' = [mine EXCEPT ![x] = 0]
            /\ event' = [event EXCEPT ![x] = 0]
            /\ Go(x, "batch")
            /\ UNCHANGED <<locks, store, shadow, found, opened, hand, mark>>
       ELSE Stop(x) /\ UNCHANGED <<status, payload>>
    /\ UNCHANGED <<plane, cached, rows, appended, pair, batch, bounds, history>>

-----------------------------------------------------------------------------
(* recall_forget                                                           *)

\* erasure_session waits for the outbox lock, and gives up after lock_timeout;
\* under it, the sources are looked up in both tables.
LockOutbox(f) ==
    /\ pc[f] = "lock"
    /\ IF outboxLock = Nil
       THEN /\ outboxLock' = f
            /\ found' = [found EXCEPT ![f] =
                 {s \in work[f] : \E g \in {store[f], shadow[f]} \ {Nil} : rows[g][s] # 0}]
            /\ Go(f, "delete")
            /\ UNCHANGED <<indexLock, store, shadow, work, mine, event, opened, hand, mark>>
       ELSE Stop(f)
    /\ UNCHANGED <<plane, cached, rows, outbox, bounds, history>>

DeleteAcross(f) ==
    /\ pc[f] = "delete"
    /\ Put({store[f], shadow[f]}, found[f], 0)
    /\ found' = [found EXCEPT ![f] = {}]
    /\ Go(f, "scrub")
    /\ UNCHANGED <<plane, cached, outbox, locks, store, shadow, work, mine, event, opened, hand,
                   mark, bounds, history>>

\* The scrub: a pending payload loses the sources, and an event left with
\* nothing is complete.
ScrubPending(f) ==
    LET left(i) == payload[i] \ work[f]
        void(i) == status[i] = "pending" /\ left(i) = {}
    IN  /\ pc[f] = "scrub"
        /\ payload' = [i \in Batches |-> left(i)]
        /\ status' = [i \in Batches |-> IF void(i) THEN "complete" ELSE status[i]]
        /\ owed' = [i \in Batches |-> IF void(i) THEN {} ELSE owed[i]]
        /\ forgotAt' = [s \in Sources |-> IF s \in work[f] THEN appended ELSE forgotAt[s]]
        /\ Stop(f)
        /\ UNCHANGED <<plane, cached, rows, appended, pair, batch, bounds>>

\* The scrub fails and the answer reports it (outbox_events_scrubbed = -1).
ScrubFails(f) ==
    /\ pc[f] = "scrub" /\ faults < MaxFaults
    /\ faults' = faults + 1
    /\ Stop(f)
    /\ UNCHANGED <<plane, cached, rows, outbox, read, forgets, commands, history>>

-----------------------------------------------------------------------------
(* recall-enterprise replay                                                *)

Pending == {i \in Batches : status[i] = "pending"}
Named(i) == {pair[i].active, pair[i].shadow}
Wedged == \E i \in Pending : \E g \in Named(i) : gstate[g] \notin SERVABLE_STATES
InHand(r) == {i \in Batches : hand[r][i] # {}}
IsNext(r, i) == i \in InHand(r) /\ \A j \in InHand(r) : i <= j

\* mutant: stores are opened for the active generations only
OpenStoresActive(r) ==
    /\ pc[r] = "idle" /\ Pending # {} /\ ~Wedged
    /\ opened' = [opened EXCEPT ![r] = {pair[i].active : i \in Pending}]
    /\ Go(r, "drain")
    /\ UNCHANGED <<plane, cached, rows, outbox, locks, store, shadow, work, found, mine, event,
                   hand, mark, bounds, history>>

\* Stores are opened for the generations the pending events name, before the
\* outbox is locked; with nothing pending there is nothing to do, and one
\* generation that is retired or failed ends the command.
OpenStores(r) ==
    /\ pc[r] = "idle" /\ Pending # {} /\ ~Wedged
    /\ opened' = [opened EXCEPT ![r] = UNION {Named(i) : i \in Pending}]
    /\ Go(r, "drain")
    /\ UNCHANGED <<plane, cached, rows, outbox, locks, store, shadow, work, found, mine, event,
                   hand, mark, bounds, history>>

\* mutant: the payloads are read with no lock on the outbox
ReadPendingUnlocked(r) ==
    /\ pc[r] = "drain"
    /\ hand' = [hand EXCEPT ![r] = [i \in Batches |-> IF i \in Pending THEN payload[i] ELSE {}]]
    /\ Go(r, "next")
    /\ UNCHANGED <<plane, cached, rows, outbox, locks, store, shadow, work, found, mine, event,
                   opened, mark, bounds, history>>

\* The lock is tried, not awaited; then the payloads are read, once.
ReadPending(r) ==
    /\ pc[r] = "drain"
    /\ IF outboxLock = Nil
       THEN /\ outboxLock' = r
            /\ hand' = [hand EXCEPT ![r] =
                           [i \in Batches |-> IF i \in Pending THEN payload[i] ELSE {}]]
            /\ Go(r, "next")
            /\ UNCHANGED <<indexLock, store, shadow, work, found, mine, event, opened, mark>>
       ELSE Stop(r)     \* ConcurrentOutboxDrain
    /\ UNCHANGED <<plane, cached, rows, outbox, bounds, history>>

\* The next event in order; one that names a store nobody opened aborts.
ReplayActive(r, i) ==
    /\ pc[r] = "next" /\ IsNext(r, i)
    /\ IF Named(i) \subseteq opened[r]
       THEN /\ Put({pair[i].active}, hand[r][i], batch[i])
            /\ Reach(i, pair[i].active)
            /\ Go(r, "mirror")
            /\ UNCHANGED <<locks, jobs>>
       ELSE Stop(r) /\ UNCHANGED <<rows, owed>>
    /\ UNCHANGED <<plane, cached, outbox, bounds, forgotAt>>

ReplayShadow(r, i) ==
    /\ pc[r] = "mirror" /\ IsNext(r, i)
    /\ Put({pair[i].shadow}, hand[r][i], batch[i])
    /\ Reach(i, pair[i].shadow)
    /\ Go(r, "complete")
    /\ UNCHANGED <<plane, cached, outbox, locks, jobs, bounds, forgotAt>>

\* An event its indexer has completed meanwhile aborts the replay.
ReplayComplete(r, i) ==
    /\ pc[r] = "complete" /\ IsNext(r, i)
    /\ IF status[i] = "pending"
       THEN /\ MarkComplete(i)
            /\ hand' = [hand EXCEPT ![r][i] = {}]
            /\ Go(r, "next")
            /\ UNCHANGED <<locks, store, shadow, work, found, mine, event, opened, mark>>
       ELSE Stop(r) /\ UNCHANGED <<status, payload>>
    /\ UNCHANGED <<plane, cached, rows, appended, pair, batch, bounds, history>>

ReplayDone(r) ==
    /\ pc[r] = "next" /\ InHand(r) = {}
    /\ Stop(r)
    /\ UNCHANGED <<plane, cached, rows, outbox, bounds, history>>

-----------------------------------------------------------------------------
(* The operator's other commands                                           *)

Command == commands < MaxCommands /\ commands' = commands + 1

\* create-generation registers the row, then creates the table; a failure
\* then marks the row failed, whatever its state is by then.
CreateGeneration(o, g) ==
    /\ pc[o] = "idle" /\ gstate[g] = "none" /\ Command
    /\ gstate' = [gstate EXCEPT ![g] = "building"]
    /\ store' = [store EXCEPT ![o] = g]
    /\ Go(o, "created")
    /\ UNCHANGED <<route, cached, rows, outbox, locks, shadow, work, found, mine, event, opened,
                   hand, mark, read, forgets, faults, history>>

TableCreated(o) ==
    /\ pc[o] = "created"
    /\ Stop(o)
    /\ UNCHANGED <<plane, cached, rows, outbox, bounds, history>>

CreateFails(o) ==
    /\ pc[o] = "created" /\ faults < MaxFaults
    /\ faults' = faults + 1
    /\ gstate' = [gstate EXCEPT ![store[o]] = "failed"]
    /\ Stop(o)
    /\ UNCHANGED <<route, cached, rows, outbox, read, forgets, commands, history>>

MarkReady(g) ==
    /\ gstate[g] # "none" /\ Command
    /\ gstate' = [gstate EXCEPT ![g] = "ready"]
    /\ UNCHANGED <<route, cached, rows, outbox, locks, pc, jobs, read, forgets, faults, history>>

Retire(g) ==
    /\ gstate[g] # "none" /\ g \notin {route.active, route.shadow}
    /\ gstate' = [gstate EXCEPT ![g] = "retired"]
    /\ UNCHANGED <<route, cached, rows, outbox, locks, pc, jobs, bounds, history>>

\* set-route reads the states with no lock on them, then writes the route.
ReadStates(o, a, s) ==
    /\ pc[o] = "idle" /\ Command
    /\ gstate[a] \in {"ready", "active"}
    /\ s # Nil => gstate[s] \in {"building", "ready"}
    /\ store' = [store EXCEPT ![o] = a] /\ shadow' = [shadow EXCEPT ![o] = s]
    /\ Go(o, "routing")
    /\ UNCHANGED <<plane, cached, rows, outbox, locks, work, found, mine, event, opened, hand,
                   mark, read, forgets, faults, history>>

SetRoute(o) ==
    /\ pc[o] = "routing"
    /\ route' = [active |-> store[o], shadow |-> shadow[o]]
    /\ Stop(o)
    /\ UNCHANGED <<gstate, cached, rows, outbox, bounds, history>>

\* cutover, before its transaction: the route, the cheap refusals, ...  The reads
\* of each of these two steps are autocommit statements; its
\* transaction reads the outbox and the route again.
CutoverBegin(o) ==
    /\ pc[o] = "idle" /\ Command /\ route.shadow # Nil
    /\ Pending = {} /\ gstate[route.shadow] = "ready"
    /\ store' = [store EXCEPT ![o] = route.active]
    /\ shadow' = [shadow EXCEPT ![o] = route.shadow]
    /\ Go(o, "checking")
    /\ UNCHANGED <<plane, cached, rows, outbox, locks, work, found, mine, event, opened, hand,
                   mark, read, forgets, faults, history>>

\* ... then the shadow's rows: some, and the active generation's unless the
\* operator allows a divergence.
CutoverVerify(o) ==
    /\ pc[o] = "checking"
    /\ IF /\ \E s \in Sources : rows[shadow[o]][s] # 0
          /\ AllowDivergent \/ rows[shadow[o]] = rows[store[o]]
       THEN Go(o, "verified") /\ UNCHANGED <<locks, jobs>>
       ELSE Stop(o)
    /\ UNCHANGED <<plane, cached, rows, outbox, bounds, history>>

\* mutant: the outbox is not looked at again
CutoverLagUnchecked(o) ==
    /\ pc[o] = "verified"
    /\ mark' = [mark EXCEPT ![o] = appended]
    /\ Go(o, "swap")
    /\ UNCHANGED <<plane, cached, rows, outbox, locks, store, shadow, work, found, mine, event,
                   opened, hand, bounds, history>>

\* The transaction first looks at the outbox again, ...
CutoverLag(o) ==
    /\ pc[o] = "verified"
    /\ IF Pending = {}
       THEN /\ mark' = [mark EXCEPT ![o] = appended]
            /\ Go(o, "swap")
            /\ UNCHANGED <<locks, store, shadow, work, found, mine, event, opened, hand>>
       ELSE Stop(o)
    /\ UNCHANGED <<plane, cached, rows, outbox, bounds, history>>

\* ... then locks the route, and swaps it if it is the one verified.
CutoverSwap(o) ==
    /\ pc[o] = "swap"
    /\ route' = (IF /\ route = [active |-> store[o], shadow |-> shadow[o]]
                    /\ gstate[shadow[o]] = "ready"
                 THEN [active |-> route.shadow, shadow |-> route.active]
                 ELSE route)
    /\ Stop(o)
    /\ UNCHANGED <<gstate, cached, rows, outbox, bounds, history>>

-----------------------------------------------------------------------------

Index(x) ==
    \/ GetForIndex(x) \/ LockTable(x) \/ PruneVanished(x) \/ ReadBatch(x) \/ FinishIndex(x)
    \/ AppendEvent(x) \/ WriteActive(x) \/ WriteShadow(x) \/ CompleteEvent(x)
    \/ \E g \in Tables : OpenTable(x, g)

Forget(f) ==
    \/ GetForForget(f) \/ LockOutbox(f) \/ DeleteAcross(f)
    \/ ScrubPending(f) \/ ScrubFails(f)

Replay(r) ==
    \/ OpenStores(r) \/ ReadPending(r) \/ ReplayDone(r)
    \/ \E i \in Batches : ReplayActive(r, i) \/ ReplayShadow(r, i) \/ ReplayComplete(r, i)

Operate(o) ==
    \/ \E g \in Gens : CreateGeneration(o, g)
    \/ TableCreated(o) \/ CreateFails(o)
    \/ \E a \in Gens, s \in Gens \cup {Nil} : ReadStates(o, a, s)
    \/ SetRoute(o)
    \/ CutoverBegin(o) \/ CutoverVerify(o) \/ CutoverLag(o) \/ CutoverSwap(o)

Next ==
    \/ \E x \in Indexers : Index(x)
    \/ \E f \in Forgetters : Forget(f)
    \/ \E p \in Indexers \cup Forgetters : GetRefused(p) \/ GetShadow(p)
    \/ \E r \in Replayers : Replay(r)
    \/ \E o \in Operators : Operate(o)
    \/ \E g \in Gens : MarkReady(g) \/ Retire(g)
    \/ \E p \in Procs : Crash(p)

Spec == Init /\ [][Next]_vars

-----------------------------------------------------------------------------
\* A process that has begun goes on until it ends, and somebody runs the
\* replay again for as long as events are pending, as the runbook asks.
FairSpec ==
    /\ Spec
    /\ \A x \in Indexers : WF_vars(pc[x] # "idle" /\ (Index(x) \/ GetShadow(x)))
    /\ \A f \in Forgetters : WF_vars(pc[f] # "idle" /\ (Forget(f) \/ GetShadow(f)))
    /\ \A r \in Replayers : WF_vars(Replay(r))

-----------------------------------------------------------------------------
(* Properties                                                              *)

\* What a replay writes (_replay_locked) was not forgotten since its event was
\* recorded: no source comes back from an event that was in the outbox when a
\* recall_forget of that source scrubbed it, even when the replay had opened
\* its stores, or a flush was under way, before the forget began.
ReplayNeverRestores ==
    [][\A r \in Replayers :
         (pc[r] = "next" /\ pc'[r] = "mirror") \/ (pc[r] = "mirror" /\ pc'[r] = "complete")
         => \A i \in Batches : IsNext(r, i) => \A s \in hand[r][i] : i > forgotAt[s]]_vars

\* A generation that cutover promotes is owed no dual write: whatever was
\* recorded before the cutover last looked at the outbox has been written to
\* it, by the indexer or a replay, or was scrubbed.
CutoverCarriesEveryWrite ==
    [][\A o \in Operators :
         pc[o] = "swap" /\ route' # route => \A i \in 1..mark[o] : shadow[o] \notin owed[i]]_vars

\* No event stays pending for ever, which would block every cutover: a crash,
\* a failed scrub, an event completed under a replay's hands or one naming
\* stores it did not open only delay the drain.  The one way to wedge the
\* outbox is to retire or fail a generation that a pending event names, which
\* neither retire_generation nor create-generation looks for.
EventuallyDrained == []<>(Pending = {} \/ Wedged)

\* A forget that found a shadow deletes from both generations of the route.
ForgetReachesBothTables ==
    [][\A f \in Forgetters :
         pc[f] = "delete" /\ pc'[f] = "scrub" /\ shadow[f] # Nil
         => \A g \in {route.active, route.shadow} \ {Nil}, s \in found[f] : rows'[g][s] = 0]_vars
=============================================================================
