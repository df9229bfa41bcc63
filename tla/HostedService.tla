---------------------------- MODULE HostedService ----------------------------
(***************************************************************************)
(* One user of the hosted service:                                         *)
(*   recall_aml/app.py           an Add request within its response budget *)
(*   recall_aml/add_flight.py    the flight that duplicates of an Add join *)
(*   recall_aml/service.py       the user's queue, the Add, the delete     *)
(*   recall_aml/storage.py       rows, receipts and the tenant lock        *)
(*   recall_aml/search_cache.py  the BM25 snapshot a Search ranks from     *)
(*                                                                         *)
(* The response budget and the user's queue are on.  An Add stores one row *)
(* whose version is the commit that wrote it; log is what the table held   *)
(* after each commit.  Other processes add to the same tables.             *)
(***************************************************************************)
EXTENDS Naturals, Sequences, FiniteSets

CONSTANTS
    Adds,        \* Add identities: request id and payload
    Requests,    \* clients, each sending one Add until it is acknowledged
    AddOf,       \* the Add each of them sends
    Deletes,     \* clients deleting the user, until that is acknowledged
    Searches,
    FlightSlots, \* FLIGHTS_PER_ADD_SLOT * add_concurrency, less what other users hold
    MaxWaiters,  \* add_concurrency - 1
    Scenarios,   \* who takes part in a behaviour, and its bounds: Adds of other
                 \* processes; errors, timeouts, evictions and restarts
    Nil

ASSUME HostedClients ==
    /\ IsFiniteSet(Requests) /\ IsFiniteSet(Adds) /\ AddOf \in [Requests -> Adds]
    /\ Adds \cap Deletes = {} /\ Nil \notin Adds \cup Deletes \cup Searches
ASSUME HostedBounds ==
    /\ FlightSlots \in Nat /\ MaxWaiters \in Nat
    /\ Scenarios \subseteq [who : SUBSET (Requests \cup Deletes \cup Searches),
                             foreign : Nat, faults : Nat]

VARIABLES
    cast,       \* the scenario
    log,        \* what the table held after each commit
    fp,         \* its fingerprint now
    receipts,   \* recall_idempotency_receipts
    lock,       \* who holds the tenant's mutation lock
    rpc,        \* where each Add request is
    slots,      \* flight_slots, the ones left
    flight,     \* where the flight of each Add is
    result,     \* whether it succeeded
    queue,      \* the user's gate: its holder, then the waiters
    dpc,        \* where each delete is
    stopping,
    cache,      \* the tenant's BM25 entries, the last one current
    spc,        \* where each Search is
    entry,      \* the entry it was given
    read,       \* the fingerprint it read
    epoch,      \* the epoch it read
    rows,       \* the rows or the row versions it read
    found,      \* the rows it ranks
    foreign, faults,
    deleted,    \* history: the user was deleted since a request came in
    erased,     \* history: the commit of each delete
    base,       \* history: the last commit anybody is told of, or that shows in fp
    hidden,     \* history: commits of other processes that left fp as it was
    floor       \* history: base when a Search began

db == <<log, fp, receipts>>
adds == <<rpc, slots, flight, result>>
caches == <<cache, spc, entry, read, epoch, rows, found>>
bounds == <<cast, foreign, faults>>
history == <<deleted, erased, base, hidden, floor>>
vars == <<db, lock, adds, queue, dpc, stopping, caches, bounds, history>>

Empty == [a \in Adds |-> 0]
Contents == [Adds -> Nat]
Rows == log[Len(log)]
Snapshots == [rows : Contents, fp : Nat, epoch : Nat]
Entries == [epoch : Nat, state : Snapshots \cup {Nil}, building : Searches \cup {Nil}]
Fresh == [epoch |-> 0, state |-> Nil, building |-> Nil]

RequestSteps == {"idle", "slot", "parse", "receipt", "start", "wait", "ok", "told"}
FlightSteps ==
    {"none", "enter", "gate", "check", "persist", "invalidate", "receipt", "unlock", "end"}
DeleteSteps == {"idle", "gate", "erase", "drop", "unlock", "end", "told"}
SearchSteps ==
    {"idle", "fingerprint", "state", "build", "recheck", "versions", "fetch", "all", "file", "rank"}

WriteTypeOK ==
    /\ log \in Seq(Contents) /\ log # <<>> /\ fp \in Nat /\ receipts \subseteq Adds
    /\ lock \in Adds \cup Deletes \cup {Nil}
    /\ rpc \in [Requests -> RequestSteps]
    /\ flight \in [Adds -> FlightSteps] /\ result \in [Adds -> BOOLEAN]
    /\ queue \in Seq(Adds \cup Deletes)
    /\ dpc \in [Deletes -> DeleteSteps]
    /\ stopping \in BOOLEAN

CacheTypeOK ==
    /\ cache \in Seq(Entries) /\ cache # <<>>
    /\ spc \in [Searches -> SearchSteps]
    /\ entry \in [Searches -> 1..Len(cache)]
    /\ read \in [Searches -> Nat] /\ epoch \in [Searches -> Nat]
    /\ rows \in [Searches -> Contents] /\ found \in [Searches -> Contents]

BoundTypeOK ==
    /\ cast \in Scenarios /\ foreign \in 0..cast.foreign /\ faults \in 0..cast.faults
    /\ deleted \in [Requests -> BOOLEAN] /\ erased \in [Deletes -> Nat]
    /\ base \in Nat /\ hidden \subseteq Nat /\ floor \in [Searches -> Nat]

TypeOK == WriteTypeOK /\ slots \in 0..FlightSlots /\ CacheTypeOK /\ BoundTypeOK

Init ==
    /\ log = <<Empty>> /\ fp = 0 /\ receipts = {}
    /\ lock = Nil
    /\ rpc = [q \in Requests |-> "idle"] /\ slots = FlightSlots
    /\ flight = [a \in Adds |-> "none"] /\ result = [a \in Adds |-> FALSE]
    /\ queue = <<>> /\ dpc = [d \in Deletes |-> "idle"] /\ stopping = FALSE
    /\ cache = <<Fresh>>
    /\ spc = [p \in Searches |-> "idle"] /\ entry = [p \in Searches |-> 1]
    /\ read = [p \in Searches |-> 0] /\ epoch = [p \in Searches |-> 0]
    /\ rows = [p \in Searches |-> Empty] /\ found = [p \in Searches |-> Empty]
    /\ cast \in Scenarios /\ foreign = 0 /\ faults = 0
    /\ deleted = [q \in Requests |-> FALSE] /\ erased = [d \in Deletes |-> 1]
    /\ base = 1 /\ hidden = {} /\ floor = [p \in Searches |-> 1]

Fault == faults < cast.faults /\ faults' = faults + 1 /\ UNCHANGED <<cast, foreign>>

Later(m, n) == IF m < n THEN n ELSE m

\* The commit that whoever is told of the Add must find, if there is one.
Due(a) == IF Rows[a] \in hidden THEN 0 ELSE Rows[a]

-----------------------------------------------------------------------------
(* An Add request (run_within_budget)                                      *)

Step(q, s) == rpc' = [rpc EXCEPT ![q] = s]

Arrive(q) ==
    /\ rpc[q] = "idle" /\ q \in cast.who /\ ~stopping
    /\ Step(q, "slot")
    /\ deleted' = [deleted EXCEPT ![q] = FALSE]
    /\ UNCHANGED <<db, lock, slots, flight, result, queue, dpc, stopping, caches, bounds, erased,
                   base, hidden, floor>>

\* A flight slot is taken before the body is read.
TakeSlot(q) ==
    /\ rpc[q] = "slot" /\ slots > 0
    /\ slots' = slots - 1
    /\ Step(q, "parse")
    /\ UNCHANGED <<db, lock, flight, result, queue, dpc, stopping, caches, bounds, history>>

\* The body is read; a request that finds a flight joins it and gives its
\* slot back, another one looks for a receipt.
Parse(q) ==
    /\ rpc[q] = "parse"
    /\ IF flight[AddOf[q]] # "none"
       THEN Step(q, "wait") /\ slots' = slots + 1
       ELSE Step(q, "receipt") /\ UNCHANGED slots
    /\ UNCHANGED <<db, lock, flight, result, queue, dpc, stopping, caches, bounds, history>>

\* stored_add, with no lock.
StoredAdd(q) ==
    /\ rpc[q] = "receipt"
    /\ IF AddOf[q] \in receipts
       THEN Step(q, "ok") /\ slots' = slots + 1 /\ base' = Later(base, Due(AddOf[q]))
       ELSE Step(q, "start") /\ UNCHANGED <<slots, base>>
    /\ UNCHANGED <<db, lock, flight, result, queue, dpc, stopping, caches, bounds, deleted, erased,
                   hidden, floor>>

\* mutant: a request that joins a flight keeps the slot it took
JoinKeepsSlot(q) ==
    /\ rpc[q] = "start"
    /\ Step(q, "wait")
    /\ IF flight[AddOf[q]] = "none"
       THEN flight' = [flight EXCEPT ![AddOf[q]] = "enter"]
       ELSE UNCHANGED flight
    /\ UNCHANGED <<db, lock, slots, result, queue, dpc, stopping, caches, bounds, history>>

\* A started flight keeps the slot; a request that joins one gives it back.
JoinOrStart(q) ==
    /\ rpc[q] = "start"
    /\ Step(q, "wait")
    /\ IF flight[AddOf[q]] = "none"
       THEN flight' = [flight EXCEPT ![AddOf[q]] = "enter"] /\ UNCHANGED slots
       ELSE slots' = slots + 1 /\ UNCHANGED flight
    /\ UNCHANGED <<db, lock, result, queue, dpc, stopping, caches, bounds, history>>

\* The budget runs out: 503 with Retry-After, and the flight goes on.
Pending(q) ==
    /\ rpc[q] = "wait"
    /\ Step(q, "idle")
    /\ UNCHANGED <<db, lock, slots, flight, result, queue, dpc, stopping, caches, bounds, history>>

\* mutant: a slot the request never got is given back
PendingEarlyReleases(q) ==
    /\ rpc[q] \in {"slot", "parse", "receipt", "start"} /\ Fault
    /\ Step(q, "idle")
    /\ slots' = slots + 1
    /\ UNCHANGED <<db, lock, flight, result, queue, dpc, stopping, caches, history>>

\* It runs out before the flight: the slot is given back.
PendingEarly(q) ==
    /\ rpc[q] \in {"slot", "parse", "receipt", "start"} /\ Fault
    /\ Step(q, "idle")
    /\ slots' = IF rpc[q] = "slot" THEN slots ELSE slots + 1
    /\ UNCHANGED <<db, lock, flight, result, queue, dpc, stopping, caches, history>>

Acknowledge(q) ==
    /\ rpc[q] = "ok"
    /\ Step(q, "told")
    /\ UNCHANGED <<db, lock, slots, flight, result, queue, dpc, stopping, caches, bounds, history>>

-----------------------------------------------------------------------------
(* The flight of an Add: the user's queue, the tenant lock, _add_once      *)

Fly(a, s) == flight' = [flight EXCEPT ![a] = s]

First(x) == queue # <<>> /\ queue[1] = x

\* x gives up its place in the queue.
Leave(x) ==
    \E i \in 1..Len(queue) :
        /\ queue[i] = x
        /\ queue' = [j \in 1..(Len(queue) - 1) |-> IF j < i THEN queue[j] ELSE queue[j + 1]]

\* The flight is over: its slot is free and whoever waits for it is answered.
Finish(a, ok) ==
    /\ Fly(a, "none")
    /\ slots' = slots + 1
    /\ result' = [result EXCEPT ![a] = FALSE]
    /\ rpc' = [q \in Requests |->
                 IF rpc[q] = "wait" /\ AddOf[q] = a
                 THEN IF ok THEN "ok" ELSE "idle"
                 ELSE rpc[q]]
    /\ base' = IF ok THEN Later(base, Due(a)) ELSE base
    /\ UNCHANGED <<deleted, erased, hidden, floor>>

\* tenant_gate refuses while the service stops, or past the waiters it takes.
EnterGate(a) ==
    /\ flight[a] = "enter"
    /\ IF stopping \/ Len(queue) > MaxWaiters
       THEN Finish(a, FALSE) /\ UNCHANGED queue
       ELSE /\ Fly(a, "gate")
            /\ queue' = Append(queue, a)
            /\ UNCHANGED <<rpc, slots, result, history>>
    /\ UNCHANGED <<db, lock, dpc, stopping, caches, bounds>>

\* The head of the queue takes the tenant lock, unless the service stops.
TakeLock(a) ==
    /\ flight[a] = "gate" /\ First(a)
    /\ IF stopping
       THEN Finish(a, FALSE) /\ Leave(a) /\ UNCHANGED lock
       ELSE /\ lock = Nil
            /\ lock' = a
            /\ Fly(a, "check")
            /\ UNCHANGED <<rpc, slots, result, queue, history>>
    /\ UNCHANGED <<db, dpc, stopping, caches, bounds>>

\* The wait for the queue or for the lock runs out.
GateTimeout(a) ==
    /\ flight[a] = "gate" /\ Fault
    /\ Finish(a, FALSE) /\ Leave(a)
    /\ UNCHANGED <<db, lock, dpc, stopping, caches>>

\* mutant: the receipt is not looked for again under the lock
CheckReceiptOnce(a) ==
    /\ flight[a] = "check"
    /\ Fly(a, "persist")
    /\ UNCHANGED <<db, lock, rpc, slots, result, queue, dpc, stopping, caches, bounds, history>>

\* An Add that has a receipt by now is done.
CheckReceipt(a) ==
    /\ flight[a] = "check"
    /\ IF a \in receipts
       THEN Fly(a, "unlock") /\ result' = [result EXCEPT ![a] = TRUE]
       ELSE Fly(a, "persist") /\ UNCHANGED result
    /\ UNCHANGED <<db, lock, rpc, slots, queue, dpc, stopping, caches, bounds, history>>

\* A commit; prints are the fingerprints the table may have after it.
Commit(c, prints) ==
    /\ log' = Append(log, c)
    /\ fp' \in prints

\* The fingerprint (count, latest, sum of xmin) after an upsert: new rows move
\* the count in it; rows that are there already may leave it as it was.
Prints(a) == {Len(log) + 1} \cup (IF Rows[a] # 0 THEN {fp} ELSE {})

Persist(a) ==
    LET n == Len(log) + 1
    IN  /\ flight[a] = "persist"
        /\ Commit([Rows EXCEPT ![a] = n], Prints(a))
        /\ Fly(a, "invalidate")
        /\ UNCHANGED <<receipts, lock, rpc, slots, result, queue, dpc, stopping, caches, bounds,
                       history>>

\* TenantSearchCache.invalidate
Invalidate(a) ==
    /\ flight[a] = "invalidate"
    /\ cache' = [cache EXCEPT ![Len(cache)].epoch = @ + 1]
    /\ Fly(a, "receipt")
    /\ UNCHANGED <<db, lock, rpc, slots, result, queue, dpc, stopping, spc, entry, read, epoch,
                   rows, found, bounds, history>>

RecordReceipt(a) ==
    /\ flight[a] = "receipt"
    /\ receipts' = receipts \cup {a}
    /\ Fly(a, "unlock")
    /\ result' = [result EXCEPT ![a] = TRUE]
    /\ UNCHANGED <<log, fp, lock, rpc, slots, queue, dpc, stopping, caches, bounds, history>>

\* An error under the lock; in "invalidate", after the rows were committed.
AddFails(a) ==
    /\ flight[a] \in {"check", "persist", "invalidate", "receipt"} /\ Fault
    /\ Fly(a, "unlock")
    /\ UNCHANGED <<db, lock, rpc, slots, result, queue, dpc, stopping, caches, history>>

\* The lock is released in a thread; the task ends, with its place in the
\* queue, when the loop comes back to it.
Unlock(a) ==
    /\ flight[a] = "unlock"
    /\ lock' = Nil
    /\ Fly(a, "end")
    /\ UNCHANGED <<db, rpc, slots, result, queue, dpc, stopping, caches, bounds, history>>

\* mutant: the flight ends and keeps its place in the queue
EndFlightQueued(a) ==
    /\ flight[a] = "end"
    /\ Finish(a, result[a])
    /\ UNCHANGED <<db, lock, queue, dpc, stopping, caches, bounds>>

EndFlight(a) ==
    /\ flight[a] = "end"
    /\ Finish(a, result[a]) /\ Leave(a)
    /\ UNCHANGED <<db, lock, dpc, stopping, caches, bounds>>

\* A process elsewhere makes the Add, under the same lock, or fails after it
\* committed the rows and before the receipt.  It invalidates no cache here.
ForeignAdd(a) ==
    LET n == Len(log) + 1
    IN  /\ lock = Nil /\ a \notin receipts /\ foreign < cast.foreign
        /\ foreign' = foreign + 1
        /\ Commit([Rows EXCEPT ![a] = n], Prints(a))
        /\ receipts' \in {receipts, receipts \cup {a}}
        /\ IF fp' = fp
           THEN hidden' = hidden \cup {n} /\ UNCHANGED base
           ELSE base' = n /\ UNCHANGED hidden
        /\ UNCHANGED <<lock, adds, queue, dpc, stopping, caches, cast, faults, deleted, erased,
                       floor>>

-----------------------------------------------------------------------------
(* delete_user                                                             *)

Del(d, s) == dpc' = [dpc EXCEPT ![d] = s]

QueueDelete(d) ==
    /\ dpc[d] = "idle" /\ d \in cast.who /\ ~stopping
    /\ Del(d, "gate")
    /\ queue' = Append(queue, d)
    /\ UNCHANGED <<db, lock, adds, stopping, caches, bounds, history>>

\* mutant: the delete takes the tenant lock and not its turn in the queue
LockDeleteUngated(d) ==
    /\ dpc[d] = "gate" /\ lock = Nil
    /\ lock' = d /\ Del(d, "erase")
    /\ UNCHANGED <<db, adds, queue, stopping, caches, bounds, history>>

LockDelete(d) ==
    /\ dpc[d] = "gate" /\ First(d)
    /\ IF stopping
       THEN Del(d, "idle") /\ Leave(d) /\ UNCHANGED lock
       ELSE lock = Nil /\ lock' = d /\ Del(d, "erase") /\ UNCHANGED queue
    /\ UNCHANGED <<db, adds, stopping, caches, bounds, history>>

DeleteTimeout(d) ==
    /\ dpc[d] = "gate" /\ Fault
    /\ Del(d, "idle") /\ Leave(d)
    /\ UNCHANGED <<db, lock, adds, stopping, caches, history>>

\* delete_tenant: rows and receipts, in one transaction.
DeleteTenant(d) ==
    /\ dpc[d] = "erase"
    /\ Commit(Empty, {0})
    /\ receipts' = {}
    /\ erased' = [erased EXCEPT ![d] = Len(log) + 1]
    /\ deleted' = [q \in Requests |-> TRUE]
    /\ Del(d, "drop")
    /\ UNCHANGED <<lock, adds, queue, stopping, caches, bounds, base, hidden,
                   floor>>

\* It raises; the caches are dropped and the locks released all the same.
DeleteFails(d) ==
    /\ dpc[d] = "erase" /\ Fault
    /\ Del(d, "drop")
    /\ erased' = [erased EXCEPT ![d] = 1]
    /\ UNCHANGED <<db, lock, adds, queue, stopping, caches, deleted, base, hidden,
                   floor>>

\* A Search that has the old entry goes on with it; nobody else finds it.
DropEntry ==
    LET held(k) == \E p \in Searches : spc[p] # "idle" /\ entry[p] = k
    IN  cache' = Append([k \in 1..Len(cache) |-> IF held(k) THEN cache[k] ELSE Fresh], Fresh)

DropCaches(d) ==
    /\ dpc[d] = "drop"
    /\ DropEntry
    /\ Del(d, "unlock")
    /\ UNCHANGED <<db, lock, adds, queue, stopping, spc, entry, read, epoch, rows, found, bounds,
                   history>>

UnlockDelete(d) ==
    /\ dpc[d] = "unlock"
    /\ lock' = Nil
    /\ Del(d, "end")
    /\ UNCHANGED <<db, adds, queue, stopping, caches, bounds, history>>

EndDelete(d) ==
    /\ dpc[d] = "end"
    /\ Del(d, IF erased[d] > 1 THEN "told" ELSE "idle")
    /\ Leave(d)
    /\ base' = Later(base, erased[d])
    /\ erased' = [erased EXCEPT ![d] = 1]
    /\ UNCHANGED <<db, lock, adds, stopping, caches, bounds, deleted, hidden, floor>>

-----------------------------------------------------------------------------
(* rank_bm25                                                               *)

Seek(p, s) == spc' = [spc EXCEPT ![p] = s]
State(p) == cache[entry[p]].state

BeginSearch(p) ==
    /\ spc[p] = "idle" /\ p \in cast.who /\ ~stopping
    /\ entry' = [entry EXCEPT ![p] = Len(cache)]
    /\ floor' = [floor EXCEPT ![p] = base]
    /\ Seek(p, "fingerprint")
    /\ UNCHANGED <<db, lock, adds, queue, dpc, stopping, cache, read, epoch, rows, found, bounds,
                   deleted, erased, base, hidden>>

ReadFingerprint(p) ==
    /\ spc[p] = "fingerprint"
    /\ read' = [read EXCEPT ![p] = fp]
    /\ Seek(p, "state")
    /\ UNCHANGED <<db, lock, adds, queue, dpc, stopping, cache, entry, epoch, rows, found, bounds,
                   history>>

\* The snapshot serves while its epoch and its fingerprint are current.
Hit(p) ==
    /\ spc[p] = "state"
    /\ IF State(p) # Nil /\ State(p).epoch = cache[entry[p]].epoch /\ State(p).fp = read[p]
       THEN found' = [found EXCEPT ![p] = State(p).rows] /\ Seek(p, "rank")
       ELSE Seek(p, "build") /\ UNCHANGED found
    /\ read' = [read EXCEPT ![p] = 0]
    /\ UNCHANGED <<db, lock, adds, queue, dpc, stopping, cache, entry, epoch, rows, bounds, history>>

\* _refresh reads the epoch first, under the entry's build lock ...
TakeBuild(p) ==
    /\ spc[p] = "build" /\ cache[entry[p]].building = Nil
    /\ cache' = [cache EXCEPT ![entry[p]].building = p]
    /\ epoch' = [epoch EXCEPT ![p] = cache[entry[p]].epoch]
    /\ Seek(p, "recheck")
    /\ UNCHANGED <<db, lock, adds, queue, dpc, stopping, entry, read, rows, found, bounds, history>>

\* ... then looks whether another Search has refreshed the entry meanwhile.
Recheck(p) ==
    /\ spc[p] = "recheck"
    /\ IF State(p) # Nil /\ State(p).epoch = epoch[p] /\ State(p).fp = fp
       THEN /\ found' = [found EXCEPT ![p] = State(p).rows]
            /\ cache' = [cache EXCEPT ![entry[p]].building = Nil]
            /\ Seek(p, "rank")
       ELSE /\ Seek(p, IF State(p) = Nil THEN "all" ELSE "versions")
            /\ UNCHANGED <<cache, found>>
    /\ UNCHANGED <<db, lock, adds, queue, dpc, stopping, entry, read, epoch, rows, bounds, history>>

\* One statement reads every row's version: rows that changed or went mean a
\* full read, new ones are fetched by a second statement.
Missing(p) == {a \in Adds : rows[p][a] # 0 /\ State(p).rows[a] = 0}

ReadVersions(p) ==
    /\ spc[p] = "versions"
    /\ rows' = [rows EXCEPT ![p] = Rows]
    /\ read' = [read EXCEPT ![p] = fp]
    /\ Seek(p, IF \A a \in Adds : State(p).rows[a] \in {0, Rows[a]} THEN "fetch" ELSE "all")
    /\ UNCHANGED <<db, lock, adds, queue, dpc, stopping, cache, entry, epoch, found, bounds,
                   history>>

\* The second statement must see the versions that the first one saw.
ReadRows(p) ==
    /\ spc[p] = "fetch"
    /\ IF \A a \in Missing(p) : Rows[a] = rows[p][a]
       THEN /\ found' = [found EXCEPT ![p] =
                           [a \in Adds |-> IF a \in Missing(p) THEN Rows[a] ELSE State(p).rows[a]]]
            /\ Seek(p, "file")
       ELSE Seek(p, "all") /\ UNCHANGED found
    /\ UNCHANGED <<db, lock, adds, queue, dpc, stopping, cache, entry, read, epoch, rows, bounds,
                   history>>

ReadAll(p) ==
    /\ spc[p] = "all"
    /\ found' = [found EXCEPT ![p] = Rows]
    /\ read' = [read EXCEPT ![p] = fp]
    /\ Seek(p, "file")
    /\ UNCHANGED <<db, lock, adds, queue, dpc, stopping, cache, entry, epoch, rows, bounds, history>>

\* mutant: the snapshot is filed under the epoch of the moment
FileSnapshotLate(p) ==
    /\ spc[p] = "file"
    /\ cache' = [cache EXCEPT ![entry[p]] =
                   [@ EXCEPT !.state = [rows |-> found[p], fp |-> read[p], epoch |-> cache[entry[p]].epoch],
                             !.building = Nil]]
    /\ Seek(p, "rank")
    /\ UNCHANGED <<db, lock, adds, queue, dpc, stopping, entry, read, epoch, rows, found, bounds,
                   history>>

\* The snapshot is filed under the epoch read before its rows were.
FileSnapshot(p) ==
    /\ spc[p] = "file"
    /\ cache' = [cache EXCEPT ![entry[p]] =
                   [@ EXCEPT !.state = [rows |-> found[p], fp |-> read[p], epoch |-> epoch[p]],
                             !.building = Nil]]
    /\ Seek(p, "rank")
    /\ UNCHANGED <<db, lock, adds, queue, dpc, stopping, entry, read, epoch, rows, found, bounds,
                   history>>

Rank(p) ==
    /\ spc[p] = "rank"
    /\ Seek(p, "idle")
    /\ read' = [read EXCEPT ![p] = 0] /\ epoch' = [epoch EXCEPT ![p] = 0]
    /\ rows' = [rows EXCEPT ![p] = Empty] /\ found' = [found EXCEPT ![p] = Empty]
    /\ floor' = [floor EXCEPT ![p] = 1]
    /\ UNCHANGED <<db, lock, adds, queue, dpc, stopping, cache, entry, bounds, deleted, erased, base,
                   hidden>>

\* The searches of other users push the entry out.
Evict ==
    /\ Fault
    /\ DropEntry
    /\ UNCHANGED <<db, lock, adds, queue, dpc, stopping, spc, entry, read, epoch, rows, found,
                   history>>

-----------------------------------------------------------------------------
(* Shutdown and restart                                                    *)

BeginShutdown ==
    /\ ~stopping /\ Fault
    /\ stopping' = TRUE
    /\ UNCHANGED <<db, lock, adds, queue, dpc, caches, history>>

\* The process ends, after the flights it drained or in the middle of them,
\* and another one starts: what was in memory is gone.
Restart ==
    /\ \/ stopping /\ UNCHANGED bounds
       \/ ~stopping /\ Fault
    /\ stopping' = FALSE /\ lock' = Nil
    /\ rpc' = [q \in Requests |-> IF rpc[q] = "told" THEN "told" ELSE "idle"]
    /\ slots' = FlightSlots
    /\ flight' = [a \in Adds |-> "none"] /\ result' = [a \in Adds |-> FALSE]
    /\ queue' = <<>>
    /\ dpc' = [d \in Deletes |-> IF dpc[d] = "told" THEN "told" ELSE "idle"]
    /\ cache' = <<Fresh>>
    /\ spc' = [p \in Searches |-> "idle"] /\ entry' = [p \in Searches |-> 1]
    /\ read' = [p \in Searches |-> 0] /\ epoch' = [p \in Searches |-> 0]
    /\ rows' = [p \in Searches |-> Empty] /\ found' = [p \in Searches |-> Empty]
    /\ UNCHANGED <<db, history>>

-----------------------------------------------------------------------------

Request(q) ==
    Arrive(q) \/ TakeSlot(q) \/ Parse(q) \/ StoredAdd(q) \/ JoinOrStart(q) \/ Acknowledge(q)

Flight(a) ==
    \/ EnterGate(a) \/ TakeLock(a) \/ CheckReceipt(a) \/ Persist(a) \/ Invalidate(a)
    \/ RecordReceipt(a) \/ Unlock(a) \/ EndFlight(a)

Delete(d) ==
    QueueDelete(d) \/ LockDelete(d) \/ DeleteTenant(d) \/ DropCaches(d) \/ UnlockDelete(d)
    \/ EndDelete(d)

Search(p) ==
    \/ BeginSearch(p) \/ ReadFingerprint(p) \/ Hit(p) \/ TakeBuild(p) \/ Recheck(p)
    \/ ReadVersions(p) \/ ReadRows(p) \/ ReadAll(p) \/ FileSnapshot(p) \/ Rank(p)

Next ==
    \/ \E q \in Requests : Request(q) \/ Pending(q) \/ PendingEarly(q)
    \/ \E a \in Adds : Flight(a) \/ GateTimeout(a) \/ AddFails(a) \/ ForeignAdd(a)
    \/ \E d \in Deletes : Delete(d) \/ DeleteTimeout(d) \/ DeleteFails(d)
    \/ \E p \in Searches : Search(p)
    \/ Evict \/ BeginShutdown \/ Restart

Spec == Init /\ [][Next]_vars

\* The loop, its threads and the database go on, clients send again until they
\* are told, and a service that stops is started again.
FairSpec ==
    /\ Spec
    /\ \A q \in Requests : WF_vars(Request(q))
    /\ \A a \in Adds : WF_vars(Flight(a))
    /\ \A d \in Deletes : WF_vars(Delete(d))
    /\ WF_vars(stopping /\ Restart)

-----------------------------------------------------------------------------
(* Properties                                                              *)

\* An Add that is answered 200 is stored, unless the user was deleted since
\* the request came in: it holds for a receipt read without a lock, and for a
\* request that joins a flight in its last moments.
AckedIsStored ==
    \A q \in Requests :
        rpc[q] = "ok" => Rows[AddOf[q]] # 0 \/ deleted[q]

\* An Add that has a receipt is not stored a second time, by a duplicate or by
\* another process: its rows stay until a delete takes them and the receipt.
ReceiptIsFinal ==
    [][\A a \in receipts : Rows[a] # 0 /\ (Rows'[a] = Rows[a] \/ a \notin receipts')]_vars

\* A Search ranks what the table held at one moment, and one no earlier than
\* the last Add or delete that was answered before the Search began.  The one
\* exception is an upsert of another process that leaves count, latest time and
\* sum of the fingerprint as they were: that commit may be missing until this
\* process answers its next write, or another process moves the fingerprint.
SearchIsFresh ==
    \A p \in Searches :
        spc[p] = "rank" => \E i \in floor[p] .. Len(log) : log[i] = found[p]

\* No flight slot is lost or given back twice.
SlotsConserved ==
    slots + Cardinality({q \in Requests : rpc[q] \in {"parse", "receipt", "start"}})
          + Cardinality({a \in Adds : flight[a] # "none"}) = FlightSlots

\* Whoever goes on sending an Add or a delete is told it was done.
EveryoneIsTold ==
    /\ \A q \in Requests : <>(q \in cast.who => rpc[q] = "told")
    /\ \A d \in Deletes : <>(d \in cast.who => dpc[d] = "told")
=============================================================================
