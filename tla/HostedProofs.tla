---------------------------- MODULE HostedProofs ----------------------------
(***************************************************************************)
(* Proofs about HostedService: flight slots are conserved, an acknowledged *)
(* Add is stored, a receipt is final and a Search ranks fresh rows, for    *)
(* any number of Adds, requests, deletes, Searches, faults and Adds of     *)
(* other processes.                                                        *)
(***************************************************************************)
EXTENDS HostedService, FiniteSetTheorems, TLAPS

-----------------------------------------------------------------------------
(* Types, all but the number of free slots, which needs their conservation *)

\* The contents of the table are well typed, and there has been a commit.
LEMMA RowsTypes ==
    ASSUME WriteTypeOK PROVE Rows \in Contents /\ Len(log) \in Nat /\ Len(log) > 0
BY DEF WriteTypeOK, Rows

\* A fingerprint is one of a commit.
LEMMA PrintsTypes == ASSUME WriteTypeOK, NEW a \in Adds PROVE Prints(a) \in SUBSET Nat
BY RowsTypes DEF Prints, WriteTypeOK

\* A commit appends what the table holds from then on.
LEMMA CommitRows ==
    ASSUME WriteTypeOK, NEW c \in Contents, NEW s \in SUBSET Nat, Commit(c, s)
    PROVE  /\ log' \in Seq(Contents) /\ log' # <<>> /\ fp' \in Nat
           /\ Len(log') = Len(log) + 1 /\ Rows' = c
BY DEF WriteTypeOK, Commit, Rows

\* Whoever leaves the queue leaves a queue.
LEMMA LeaveTypes ==
    ASSUME queue \in Seq(Adds \cup Deletes), NEW x, Leave(x)
    PROVE  queue' \in Seq(Adds \cup Deletes)
BY DEF Leave

\* A request changes neither the tables, nor the queue, nor the caches.
LEMMA RequestFrame ==
    ASSUME NEW q \in Requests, Request(q) \/ Pending(q) \/ PendingEarly(q)
    PROVE  UNCHANGED <<db, lock, result, queue, dpc, stopping, caches, cast, foreign, erased, floor>>
BY DEF Request, Arrive, TakeSlot, Parse, StoredAdd, JoinOrStart, Acknowledge, Pending,
PendingEarly, Fault, bounds, history, caches, db

\* A Search changes only the caches and its own variables.
LEMMA SearchFrame ==
    ASSUME NEW p \in Searches, Search(p)
    PROVE  UNCHANGED <<db, lock, adds, queue, dpc, stopping, bounds, deleted, erased, base, hidden>>
BY DEF Search, BeginSearch, ReadFingerprint, Hit, TakeBuild, Recheck, ReadVersions,
ReadRows, ReadAll, FileSnapshot, Rank, bounds, history, db, adds

\* Every step keeps the types of the write side.
LEMMA WriteTypes ==
    ASSUME TypeOK, [Next]_vars
    PROVE  WriteTypeOK'
<1>0. WriteTypeOK
    BY DEF TypeOK
<1> USE <1>0
<1>1. CASE UNCHANGED vars
    BY <1>1 DEF vars, db, adds, caches, bounds, history, WriteTypeOK
<1>2. ASSUME NEW q \in Requests, Arrive(q) PROVE WriteTypeOK'
    BY <1>2 DEF Arrive, Step, db, adds, caches, bounds, history, RequestSteps, FlightSteps,
    DeleteSteps, WriteTypeOK
<1>3. ASSUME NEW q \in Requests, TakeSlot(q) PROVE WriteTypeOK'
    BY <1>3 DEF TakeSlot, Step, db, adds, caches, bounds, history, RequestSteps, FlightSteps,
    DeleteSteps, WriteTypeOK
<1>4. ASSUME NEW q \in Requests, Parse(q) PROVE WriteTypeOK'
    BY <1>4 DEF Parse, Step, db, adds, caches, bounds, history, RequestSteps, FlightSteps,
    DeleteSteps, WriteTypeOK
<1>5. ASSUME NEW q \in Requests, StoredAdd(q) PROVE WriteTypeOK'
    BY <1>5 DEF StoredAdd, Step, db, adds, caches, bounds, history, RequestSteps, FlightSteps,
    DeleteSteps, WriteTypeOK
<1>6. ASSUME NEW q \in Requests, JoinOrStart(q) PROVE WriteTypeOK'
    BY <1>6, HostedClients DEF JoinOrStart, Step, db, adds, caches, bounds, history,
    RequestSteps, FlightSteps, DeleteSteps, WriteTypeOK
<1>7. ASSUME NEW q \in Requests, Acknowledge(q) PROVE WriteTypeOK'
    BY <1>7 DEF Acknowledge, Step, db, adds, caches, bounds, history, RequestSteps,
    FlightSteps, DeleteSteps, WriteTypeOK
<1>8. ASSUME NEW q \in Requests, Pending(q) PROVE WriteTypeOK'
    BY <1>8 DEF Pending, Step, db, adds, caches, bounds, history, RequestSteps, FlightSteps,
    DeleteSteps, WriteTypeOK
<1>9. ASSUME NEW q \in Requests, PendingEarly(q) PROVE WriteTypeOK'
    BY <1>9 DEF PendingEarly, Step, Fault, db, adds, caches, bounds, history, RequestSteps,
    FlightSteps, DeleteSteps, WriteTypeOK
<1>10. ASSUME NEW a \in Adds, EnterGate(a) PROVE WriteTypeOK'
<2> USE DEF WriteTypeOK, RequestSteps, FlightSteps
<2>1. queue' \in Seq(Adds \cup Deletes)
  <3>1. queue' = queue \/ queue' = Append(queue, a)
      BY <1>10 DEF EnterGate
  <3> QED
      BY <3>1
<2>2. log' = log /\ fp' = fp /\ receipts' = receipts /\ dpc' = dpc /\ stopping' = stopping /\ lock' \in Adds \cup Deletes \cup {Nil}
    BY <1>10 DEF EnterGate, Fly, Finish, db
<2>3. rpc' \in [Requests -> RequestSteps]
    BY <1>10 DEF EnterGate, Fly, Finish
<2>4. flight' \in [Adds -> FlightSteps] /\ result' \in [Adds -> BOOLEAN]
    BY <1>10 DEF EnterGate, Fly, Finish
<2> QED
    BY <2>1, <2>2, <2>3, <2>4
<1>11. ASSUME NEW a \in Adds, TakeLock(a) PROVE WriteTypeOK'
<2> USE DEF WriteTypeOK, RequestSteps, FlightSteps
<2>1. queue' \in Seq(Adds \cup Deletes)
    BY <1>11, LeaveTypes DEF TakeLock, Fly, Finish
<2>2. log' = log /\ fp' = fp /\ receipts' = receipts /\ dpc' = dpc /\ stopping' = stopping /\ lock' \in Adds \cup Deletes \cup {Nil}
    BY <1>11 DEF TakeLock, Fly, Finish, db
<2>3. rpc' \in [Requests -> RequestSteps]
    BY <1>11 DEF TakeLock, Fly, Finish
<2>4. flight' \in [Adds -> FlightSteps] /\ result' \in [Adds -> BOOLEAN]
    BY <1>11 DEF TakeLock, Fly, Finish
<2> QED
    BY <2>1, <2>2, <2>3, <2>4
<1>12. ASSUME NEW a \in Adds, CheckReceipt(a) PROVE WriteTypeOK'
    BY <1>12 DEF CheckReceipt, Fly, db, adds, caches, bounds, history, RequestSteps,
    FlightSteps, DeleteSteps, WriteTypeOK
<1>13. ASSUME NEW a \in Adds, Persist(a) PROVE WriteTypeOK'
<2> DEFINE n == Len(log) + 1
<2> HIDE DEF n
<2>1. n \in Nat /\ [Rows EXCEPT ![a] = n] \in Contents
    BY RowsTypes DEF Contents, n
<2>2. Commit([Rows EXCEPT ![a] = n], Prints(a))
    BY <1>13 DEF Persist, n
<2>4. Prints(a) \in SUBSET Nat
    BY PrintsTypes
<2>3. log' \in Seq(Contents) /\ log' # <<>> /\ fp' \in Nat
    BY <2>1, <2>2, <2>4, CommitRows
<2> QED
    BY <1>13, <2>3 DEF Persist, Fly, FlightSteps, WriteTypeOK
<1>14. ASSUME NEW a \in Adds, Invalidate(a) PROVE WriteTypeOK'
    BY <1>14 DEF Invalidate, Fly, db, adds, caches, bounds, history, RequestSteps, FlightSteps,
    DeleteSteps, WriteTypeOK
<1>15. ASSUME NEW a \in Adds, RecordReceipt(a) PROVE WriteTypeOK'
    BY <1>15 DEF RecordReceipt, Fly, db, adds, caches, bounds, history, RequestSteps,
    FlightSteps, DeleteSteps, WriteTypeOK
<1>16. ASSUME NEW a \in Adds, Unlock(a) PROVE WriteTypeOK'
    BY <1>16 DEF Unlock, Fly, db, adds, caches, bounds, history, RequestSteps, FlightSteps,
    DeleteSteps, WriteTypeOK
<1>17. ASSUME NEW a \in Adds, EndFlight(a) PROVE WriteTypeOK'
<2> USE DEF WriteTypeOK, RequestSteps, FlightSteps
<2>1. queue' \in Seq(Adds \cup Deletes)
    BY <1>17, LeaveTypes DEF EndFlight, Fly, Finish
<2>2. log' = log /\ fp' = fp /\ receipts' = receipts /\ dpc' = dpc /\ stopping' = stopping /\ lock' \in Adds \cup Deletes \cup {Nil}
    BY <1>17 DEF EndFlight, Fly, Finish, db
<2>3. rpc' \in [Requests -> RequestSteps]
    BY <1>17 DEF EndFlight, Fly, Finish
<2>4. flight' \in [Adds -> FlightSteps] /\ result' \in [Adds -> BOOLEAN]
    BY <1>17 DEF EndFlight, Fly, Finish
<2> QED
    BY <2>1, <2>2, <2>3, <2>4
<1>18. ASSUME NEW a \in Adds, GateTimeout(a) PROVE WriteTypeOK'
<2> USE DEF WriteTypeOK, RequestSteps, FlightSteps
<2>1. queue' \in Seq(Adds \cup Deletes)
    BY <1>18, LeaveTypes DEF GateTimeout, Fly, Finish, Fault
<2>2. log' = log /\ fp' = fp /\ receipts' = receipts /\ dpc' = dpc /\ stopping' = stopping /\ lock' \in Adds \cup Deletes \cup {Nil}
    BY <1>18 DEF GateTimeout, Fly, Finish, Fault, db
<2>3. rpc' \in [Requests -> RequestSteps]
    BY <1>18 DEF GateTimeout, Fly, Finish, Fault
<2>4. flight' \in [Adds -> FlightSteps] /\ result' \in [Adds -> BOOLEAN]
    BY <1>18 DEF GateTimeout, Fly, Finish, Fault
<2> QED
    BY <2>1, <2>2, <2>3, <2>4
<1>19. ASSUME NEW a \in Adds, AddFails(a) PROVE WriteTypeOK'
    BY <1>19 DEF AddFails, Fly, Fault, db, adds, caches, bounds, history, RequestSteps,
    FlightSteps, DeleteSteps, WriteTypeOK
<1>20. ASSUME NEW a \in Adds, ForeignAdd(a) PROVE WriteTypeOK'
<2> DEFINE n == Len(log) + 1
<2> HIDE DEF n
<2>1. n \in Nat /\ [Rows EXCEPT ![a] = n] \in Contents
    BY RowsTypes DEF Contents, n
<2>2. Commit([Rows EXCEPT ![a] = n], Prints(a))
    BY <1>20 DEF ForeignAdd, n
<2>4. Prints(a) \in SUBSET Nat
    BY PrintsTypes
<2>3. log' \in Seq(Contents) /\ log' # <<>> /\ fp' \in Nat
    BY <2>1, <2>2, <2>4, CommitRows
<2> QED
    BY <1>20, <2>3 DEF ForeignAdd, adds, WriteTypeOK
<1>21. ASSUME NEW d \in Deletes, QueueDelete(d) PROVE WriteTypeOK'
    BY <1>21 DEF QueueDelete, Del, db, adds, caches, bounds, history, RequestSteps, FlightSteps,
    DeleteSteps, WriteTypeOK
<1>22. ASSUME NEW d \in Deletes, LockDelete(d) PROVE WriteTypeOK'
<2>1. queue' \in Seq(Adds \cup Deletes)
    BY <1>22, LeaveTypes DEF LockDelete, Del, WriteTypeOK
<2> QED
    BY <1>22, <2>1 DEF LockDelete, Del, db, adds, caches, bounds, history, RequestSteps,
    FlightSteps, DeleteSteps, WriteTypeOK
<1>23. ASSUME NEW d \in Deletes, DeleteTenant(d) PROVE WriteTypeOK'
<2>1. Empty \in Contents
    BY DEF Empty, Contents
<2>2. log' \in Seq(Contents) /\ log' # <<>> /\ fp' \in Nat
    BY <1>23, <2>1, CommitRows DEF DeleteTenant
<2> QED
    BY <1>23, <2>2 DEF DeleteTenant, Del, DeleteSteps, adds, WriteTypeOK
<1>24. ASSUME NEW d \in Deletes, DropCaches(d) PROVE WriteTypeOK'
    BY <1>24 DEF DropCaches, Del, db, adds, caches, bounds, history, RequestSteps, FlightSteps,
    DeleteSteps, WriteTypeOK
<1>25. ASSUME NEW d \in Deletes, UnlockDelete(d) PROVE WriteTypeOK'
    BY <1>25 DEF UnlockDelete, Del, db, adds, caches, bounds, history, RequestSteps,
    FlightSteps, DeleteSteps, WriteTypeOK
<1>26. ASSUME NEW d \in Deletes, EndDelete(d) PROVE WriteTypeOK'
<2>1. queue' \in Seq(Adds \cup Deletes)
    BY <1>26, LeaveTypes DEF EndDelete, Del, WriteTypeOK
<2> QED
    BY <1>26, <2>1 DEF EndDelete, Del, db, adds, caches, bounds, history, RequestSteps,
    FlightSteps, DeleteSteps, WriteTypeOK
<1>27. ASSUME NEW d \in Deletes, DeleteTimeout(d) PROVE WriteTypeOK'
<2>1. queue' \in Seq(Adds \cup Deletes)
    BY <1>27, LeaveTypes DEF DeleteTimeout, Del, Fault, WriteTypeOK
<2> QED
    BY <1>27, <2>1 DEF DeleteTimeout, Del, Fault, db, adds, caches, bounds, history,
    RequestSteps, FlightSteps, DeleteSteps, WriteTypeOK
<1>28. ASSUME NEW d \in Deletes, DeleteFails(d) PROVE WriteTypeOK'
    BY <1>28 DEF DeleteFails, Del, Fault, db, adds, caches, bounds, history, RequestSteps,
    FlightSteps, DeleteSteps, WriteTypeOK
<1>29. ASSUME NEW p \in Searches, Search(p) PROVE WriteTypeOK'
    BY <1>29, SearchFrame DEF WriteTypeOK, db, adds
<1>30. ASSUME Evict PROVE WriteTypeOK'
    BY <1>30 DEF Evict, Fault, db, adds, caches, bounds, history, RequestSteps, FlightSteps,
    DeleteSteps, WriteTypeOK
<1>31. ASSUME BeginShutdown PROVE WriteTypeOK'
    BY <1>31 DEF BeginShutdown, Fault, db, adds, caches, bounds, history, RequestSteps,
    FlightSteps, DeleteSteps, WriteTypeOK
<1>32. ASSUME Restart PROVE WriteTypeOK'
<2> USE DEF Restart, WriteTypeOK, RequestSteps, FlightSteps, DeleteSteps
<2>1. log' = log /\ fp' = fp /\ receipts' = receipts /\ lock' = Nil /\ stopping' = FALSE
    BY <1>32 DEF db
<2>2. queue' \in Seq(Adds \cup Deletes)
    BY <1>32
<2>3. rpc' \in [Requests -> {"idle", "told"}] /\ dpc' \in [Deletes -> {"idle", "told"}]
    BY <1>32
<2>4. flight' \in [Adds -> {"none"}] /\ result' \in [Adds -> BOOLEAN]
    BY <1>32
<2> QED
    BY <2>1, <2>2, <2>3, <2>4
<1> QED
    BY <1>1, <1>2, <1>3, <1>4, <1>5, <1>6, <1>7, <1>8, <1>9, <1>10, <1>11, <1>12, <1>13,
    <1>14, <1>15, <1>16, <1>17, <1>18, <1>19, <1>20, <1>21, <1>22, <1>23, <1>24, <1>25,
    <1>26, <1>27, <1>28, <1>29, <1>30, <1>31, <1>32 DEF Next, Request, Flight, Delete

\* The flight of an Add and a delete touch the caches in one step each.
LEMMA FlightFrame ==
    ASSUME NEW a \in Adds, Flight(a) \/ GateTimeout(a) \/ AddFails(a) \/ ForeignAdd(a)
    PROVE  Invalidate(a) \/ UNCHANGED caches
BY DEF Flight, EnterGate, TakeLock, CheckReceipt, Persist, RecordReceipt, Unlock, EndFlight,
GateTimeout, AddFails, ForeignAdd, caches

LEMMA DeleteFrame ==
    ASSUME NEW d \in Deletes, Delete(d) \/ DeleteTimeout(d) \/ DeleteFails(d)
    PROVE  DropCaches(d) \/ UNCHANGED caches
BY DEF Delete, QueueDelete, LockDelete, DeleteTenant, UnlockDelete, EndDelete,
DeleteTimeout, DeleteFails, caches

\* An entry that is dropped gives way to a new one.
LEMMA DropTypes ==
    ASSUME CacheTypeOK, DropEntry, UNCHANGED <<spc, entry, read, epoch, rows, found>>
    PROVE  CacheTypeOK'
<1>1. Fresh \in Entries
    BY DEF Fresh, Entries
<1> DEFINE c == [k \in 1..Len(cache) |->
                   IF \E p \in Searches : spc[p] # "idle" /\ entry[p] = k THEN cache[k] ELSE Fresh]
<1>2. c \in Seq(Entries) /\ Len(c) = Len(cache)
    BY <1>1 DEF CacheTypeOK
<1>3. cache' = Append(c, Fresh)
    BY DEF DropEntry
<1> HIDE DEF c
<1>4. cache' \in Seq(Entries) /\ cache' # <<>> /\ Len(cache') = Len(cache) + 1
    BY <1>1, <1>2, <1>3
<1> QED
    BY <1>4 DEF CacheTypeOK

\* An entry that is replaced by another leaves the caches well typed.
LEMMA EntryTypes ==
    ASSUME CacheTypeOK, NEW k \in 1..Len(cache), NEW e \in Entries,
           cache' = [cache EXCEPT ![k] = e]
    PROVE  cache' \in Seq(Entries) /\ cache' # <<>> /\ Len(cache') = Len(cache)
BY DEF CacheTypeOK

\* A Search that extends a snapshot has one.
Built ==
    \A p \in Searches : spc[p] \in {"versions", "fetch"} => State(p) \in Snapshots

\* Every step keeps the types of the caches.
LEMMA CacheTypes ==
    ASSUME TypeOK, Built, [Next]_vars
    PROVE  CacheTypeOK'
<1>0. WriteTypeOK /\ CacheTypeOK
    BY DEF TypeOK
<1> USE <1>0
<1>1. CASE UNCHANGED vars
    BY <1>1 DEF vars, db, adds, caches, bounds, history, CacheTypeOK
<1>2. ASSUME NEW q \in Requests, Request(q) \/ Pending(q) \/ PendingEarly(q) PROVE CacheTypeOK'
    BY <1>2, RequestFrame DEF caches, CacheTypeOK
<1>3. ASSUME NEW a \in Adds, Invalidate(a) PROVE CacheTypeOK'
<2> DEFINE n == Len(cache)
<2> DEFINE e == [cache[n] EXCEPT !.epoch = cache[n].epoch + 1]
<2>1. n \in 1..Len(cache) /\ cache[n] \in Entries
    BY DEF CacheTypeOK
<2>2. e \in Entries
    BY <2>1 DEF Entries
<2>3. cache' = [cache EXCEPT ![n] = e]
    BY <1>3, <2>1 DEF Invalidate, CacheTypeOK
<2> HIDE DEF e, n
<2>4. cache' \in Seq(Entries) /\ cache' # <<>> /\ Len(cache') = Len(cache)
    BY <2>1, <2>2, <2>3, EntryTypes
<2> QED
    BY <1>3, <2>4 DEF Invalidate, CacheTypeOK
<1>4. ASSUME NEW d \in Deletes, DropCaches(d) PROVE CacheTypeOK'
    BY <1>4, DropTypes DEF DropCaches
<1>5. ASSUME UNCHANGED caches PROVE CacheTypeOK'
    BY <1>5 DEF caches, CacheTypeOK
<1>6. ASSUME NEW p \in Searches, BeginSearch(p) PROVE CacheTypeOK'
    BY <1>6 DEF BeginSearch, Seek, SearchSteps, CacheTypeOK, WriteTypeOK
<1>7. ASSUME NEW p \in Searches, ReadFingerprint(p) PROVE CacheTypeOK'
    BY <1>7 DEF ReadFingerprint, Seek, SearchSteps, CacheTypeOK, WriteTypeOK
<1>8. ASSUME NEW p \in Searches, Hit(p) PROVE CacheTypeOK'
<2>1. found' = found \/ (State(p) # Nil /\ found' = [found EXCEPT ![p] = State(p).rows])
    BY <1>8 DEF Hit
<2>4. cache[entry[p]] \in Entries
    BY DEF CacheTypeOK
<2>2. State(p) # Nil => State(p).rows \in Contents
    BY <2>4 DEF State, Entries, Snapshots
<2>3. found' \in [Searches -> Contents]
    BY <2>1, <2>2 DEF CacheTypeOK
<2> QED
    BY <1>8, <2>3 DEF Hit, Seek, SearchSteps, CacheTypeOK
<1>9. ASSUME NEW p \in Searches, TakeBuild(p) PROVE CacheTypeOK'
<2> DEFINE k == entry[p]
<2> DEFINE e == [cache[k] EXCEPT !.building = p]
<2>1. k \in 1..Len(cache) /\ cache[k] \in Entries
    BY DEF CacheTypeOK
<2>2. e \in Entries
    BY <2>1 DEF CacheTypeOK, Entries
<2>3. cache' = [cache EXCEPT ![k] = e]
    BY <1>9 DEF TakeBuild
<2>4. epoch' \in [Searches -> Nat]
    BY <1>9, <2>1 DEF TakeBuild, CacheTypeOK, Entries
<2> HIDE DEF e, k
<2>5. cache' \in Seq(Entries) /\ cache' # <<>> /\ Len(cache') = Len(cache)
    BY <2>1, <2>2, <2>3, EntryTypes DEF CacheTypeOK
<2> QED
    BY <1>9, <2>5, <2>4 DEF TakeBuild, Seek, SearchSteps, CacheTypeOK
<1>10. ASSUME NEW p \in Searches, Recheck(p) PROVE CacheTypeOK'
<2> DEFINE k == entry[p]
<2> DEFINE e == [cache[k] EXCEPT !.building = Nil]
<2>1. k \in 1..Len(cache) /\ cache[k] \in Entries
    BY DEF CacheTypeOK
<2>2. e \in Entries
    BY <2>1 DEF CacheTypeOK, Entries
<2>3. cache' = [cache EXCEPT ![k] = e] \/ cache' = cache
    BY <1>10 DEF Recheck
<2>4. found' \in [Searches -> Contents]
  <3>1. found' = found \/ (State(p) # Nil /\ found' = [found EXCEPT ![p] = State(p).rows])
      BY <1>10 DEF Recheck
  <3>2. State(p) # Nil => State(p).rows \in Contents
      BY <2>1 DEF State, Entries, Snapshots
  <3> QED
      BY <3>1, <3>2 DEF CacheTypeOK
<2> HIDE DEF e, k
<2>5. cache' \in Seq(Entries) /\ cache' # <<>> /\ Len(cache') = Len(cache)
    BY <2>1, <2>2, <2>3, EntryTypes DEF CacheTypeOK
<2> QED
    BY <1>10, <2>5, <2>4 DEF Recheck, Seek, SearchSteps, CacheTypeOK
<1>11. ASSUME NEW p \in Searches, ReadVersions(p) PROVE CacheTypeOK'
    BY <1>11, RowsTypes DEF ReadVersions, Seek, SearchSteps, CacheTypeOK, WriteTypeOK
<1>12. ASSUME NEW p \in Searches, ReadRows(p) PROVE CacheTypeOK'
<2> DEFINE f == [a \in Adds |-> IF a \in Missing(p) THEN Rows[a] ELSE State(p).rows[a]]
<2>1. spc[p] = "fetch"
    BY <1>12 DEF ReadRows
<2>2. f \in Contents
    BY <2>1, RowsTypes DEF Built, Snapshots, Contents
<2>3. found' = found \/ found' = [found EXCEPT ![p] = f]
    BY <1>12 DEF ReadRows
<2> HIDE DEF f
<2>4. found' \in [Searches -> Contents]
    BY <2>2, <2>3 DEF CacheTypeOK
<2> QED
    BY <1>12, <2>4 DEF ReadRows, Seek, SearchSteps, CacheTypeOK
<1>13. ASSUME NEW p \in Searches, ReadAll(p) PROVE CacheTypeOK'
    BY <1>13, RowsTypes DEF ReadAll, Seek, SearchSteps, CacheTypeOK, WriteTypeOK
<1>14. ASSUME NEW p \in Searches, FileSnapshot(p) PROVE CacheTypeOK'
<2> DEFINE k == entry[p]
<2> DEFINE e == [cache[k] EXCEPT !.state = [rows |-> found[p], fp |-> read[p], epoch |-> epoch[p]],
                                  !.building = Nil]
<2>1. k \in 1..Len(cache) /\ cache[k] \in Entries
    BY DEF CacheTypeOK
<2>2. e \in Entries
    BY <2>1 DEF CacheTypeOK, Entries, Snapshots
<2>3. cache' = [cache EXCEPT ![k] = e]
    BY <1>14 DEF FileSnapshot
<2> HIDE DEF e, k
<2>5. cache' \in Seq(Entries) /\ cache' # <<>> /\ Len(cache') = Len(cache)
    BY <2>1, <2>2, <2>3, EntryTypes DEF CacheTypeOK
<2> QED
    BY <1>14, <2>5 DEF FileSnapshot, Seek, SearchSteps, CacheTypeOK
<1>15. ASSUME NEW p \in Searches, Rank(p) PROVE CacheTypeOK'
<2>1. Empty \in Contents
    BY DEF Empty, Contents
<2> QED
    BY <1>15, <2>1 DEF Rank, Seek, SearchSteps, CacheTypeOK
<1>16. ASSUME Evict PROVE CacheTypeOK'
    BY <1>16, DropTypes DEF Evict
<1>17. ASSUME BeginShutdown PROVE CacheTypeOK'
    BY <1>17 DEF BeginShutdown, caches, CacheTypeOK
<1>18. ASSUME Restart PROVE CacheTypeOK'
<2>1. Fresh \in Entries /\ Empty \in Contents
    BY DEF Fresh, Entries, Empty, Contents
<2>2. cache' \in Seq(Entries) /\ cache' # <<>> /\ Len(cache') = 1
    BY <1>18, <2>1 DEF Restart
<2> QED
    BY <1>18, <2>1, <2>2 DEF Restart, CacheTypeOK, SearchSteps
<1> QED
    BY FlightFrame, DeleteFrame, <1>1, <1>2, <1>3, <1>4, <1>5, <1>6, <1>7, <1>8, <1>9, <1>10, <1>11, <1>12, <1>13,
    <1>14, <1>15, <1>16, <1>17, <1>18 DEF Next, Search

\* An entry that a Search holds keeps its snapshot or gets another.
LEMMA BuiltStep ==
    ASSUME TypeOK, Built, [Next]_vars
    PROVE  Built'
<1>0. WriteTypeOK /\ CacheTypeOK
    BY DEF TypeOK
<1> USE <1>0
<1>1. CASE UNCHANGED vars
    BY <1>1 DEF vars, db, adds, caches, bounds, history, Built, State
<1>2. ASSUME NEW q \in Requests, Request(q) \/ Pending(q) \/ PendingEarly(q) PROVE Built'
    BY <1>2, RequestFrame DEF caches, Built, State
<1>3. ASSUME NEW a \in Adds, Invalidate(a) PROVE Built'
<2>1. \A k \in 1..Len(cache) : cache'[k].state = cache[k].state
    BY <1>3 DEF Invalidate, CacheTypeOK, Entries
<2> QED
    BY <1>3, <2>1 DEF Invalidate, Built, State, CacheTypeOK
<1>4. ASSUME NEW d \in Deletes, DropCaches(d) PROVE Built'
<2>1. \A p \in Searches : spc[p] # "idle" => cache'[entry[p]] = cache[entry[p]]
    BY <1>4 DEF DropCaches, DropEntry, CacheTypeOK
<2> QED
    BY <1>4, <2>1 DEF DropCaches, Built, State
<1>5. ASSUME UNCHANGED caches PROVE Built'
    BY <1>5 DEF caches, Built, State
<1>6. ASSUME NEW p \in Searches, BeginSearch(p) PROVE Built'
    BY <1>6 DEF BeginSearch, Seek, Built, State, CacheTypeOK
<1>7. ASSUME NEW p \in Searches, ReadFingerprint(p) PROVE Built'
    BY <1>7 DEF ReadFingerprint, Seek, Built, State, CacheTypeOK
<1>8. ASSUME NEW p \in Searches, Hit(p) PROVE Built'
    BY <1>8 DEF Hit, Seek, Built, State, CacheTypeOK
<1>9. ASSUME NEW p \in Searches, TakeBuild(p) PROVE Built'
<2>1. \A k \in 1..Len(cache) : cache'[k].state = cache[k].state
    BY <1>9 DEF TakeBuild, CacheTypeOK, Entries
<2> QED
    BY <1>9, <2>1 DEF TakeBuild, Seek, Built, State, CacheTypeOK
<1>10. ASSUME NEW p \in Searches, Recheck(p) PROVE Built'
<2>1. cache' = cache \/ cache' = [cache EXCEPT ![entry[p]].building = Nil]
    BY <1>10 DEF Recheck
<2>2. \A k \in 1..Len(cache) : cache[k] \in Entries
    BY DEF CacheTypeOK
<2>3. \A k \in 1..Len(cache) : cache'[k].state = cache[k].state
  <3>1. CASE cache' = cache
      BY <3>1
  <3>2. CASE cache' = [cache EXCEPT ![entry[p]].building = Nil]
      BY <3>2, <2>2 DEF CacheTypeOK, Entries
  <3> QED
      BY <2>1, <3>1, <3>2
<2>4. entry[p] \in 1..Len(cache)
    BY DEF CacheTypeOK
<2>5. State(p) # Nil => State(p) \in Snapshots
    BY <2>2, <2>4 DEF State, Entries
<2>6. spc'[p] \in {"versions", "fetch"} => State(p) # Nil
    BY <1>10 DEF Recheck, Seek, CacheTypeOK
<2> QED
    BY <1>10, <2>3, <2>5, <2>6 DEF Recheck, Seek, Built, State, CacheTypeOK
<1>11. ASSUME NEW p \in Searches, ReadVersions(p) PROVE Built'
    BY <1>11 DEF ReadVersions, Seek, Built, State, CacheTypeOK
<1>12. ASSUME NEW p \in Searches, ReadRows(p) PROVE Built'
    BY <1>12 DEF ReadRows, Seek, Built, State, CacheTypeOK
<1>13. ASSUME NEW p \in Searches, ReadAll(p) PROVE Built'
    BY <1>13 DEF ReadAll, Seek, Built, State, CacheTypeOK
<1>14. ASSUME NEW p \in Searches, FileSnapshot(p) PROVE Built'
<2> DEFINE s == [rows |-> found[p], fp |-> read[p], epoch |-> epoch[p]]
<2>1. s \in Snapshots
    BY DEF CacheTypeOK, Snapshots
<2>2. \A k \in 1..Len(cache) : cache'[k].state = IF k = entry[p] THEN s ELSE cache[k].state
    BY <1>14 DEF FileSnapshot, CacheTypeOK, Entries
<2> HIDE DEF s
<2> QED
    BY <1>14, <2>1, <2>2 DEF FileSnapshot, Seek, Built, State, CacheTypeOK
<1>15. ASSUME NEW p \in Searches, Rank(p) PROVE Built'
    BY <1>15 DEF Rank, Seek, Built, State, CacheTypeOK
<1>16. ASSUME Evict PROVE Built'
<2>1. \A p \in Searches : spc[p] # "idle" => cache'[entry[p]] = cache[entry[p]]
    BY <1>16 DEF Evict, DropEntry, CacheTypeOK
<2> QED
    BY <1>16, <2>1 DEF Evict, Built, State
<1>17. ASSUME BeginShutdown PROVE Built'
    BY <1>17 DEF BeginShutdown, caches, Built, State
<1>18. ASSUME Restart PROVE Built'
    BY <1>18 DEF Restart, Built
<1> QED
    BY FlightFrame, DeleteFrame, <1>1, <1>2, <1>3, <1>4, <1>5, <1>6, <1>7, <1>8, <1>9, <1>10, <1>11, <1>12, <1>13,
    <1>14, <1>15, <1>16, <1>17, <1>18 DEF Next, Search

\* Every step keeps the bounds and the types of the history variables.
LEMMA BoundTypes ==
    ASSUME TypeOK, [Next]_vars
    PROVE  BoundTypeOK'
<1>0. WriteTypeOK /\ BoundTypeOK
    BY DEF TypeOK
<1> USE <1>0
<1>1. CASE UNCHANGED vars
    BY <1>1 DEF vars, db, adds, caches, bounds, history, BoundTypeOK
<1>2. ASSUME NEW q \in Requests, Arrive(q) PROVE BoundTypeOK'
    BY <1>2 DEF Arrive, Step, BoundTypeOK, db, adds, caches, bounds, history
<1>3. ASSUME NEW q \in Requests, TakeSlot(q) PROVE BoundTypeOK'
    BY <1>3 DEF TakeSlot, Step, BoundTypeOK, db, adds, caches, bounds, history
<1>4. ASSUME NEW q \in Requests, Parse(q) PROVE BoundTypeOK'
    BY <1>4 DEF Parse, Step, BoundTypeOK, db, adds, caches, bounds, history
<1>5. ASSUME NEW q \in Requests, StoredAdd(q) PROVE BoundTypeOK'
<2>1. Due(AddOf[q]) \in Nat
    BY RowsTypes, HostedClients DEF Contents, Due
<2>2. base' \in Nat
    BY <1>5, <2>1 DEF StoredAdd, Step, Later, BoundTypeOK, history
<2> QED
    BY <1>5, <2>2, HostedBounds DEF StoredAdd, Step, BoundTypeOK, bounds, history
<1>6. ASSUME NEW q \in Requests, JoinOrStart(q) PROVE BoundTypeOK'
    BY <1>6 DEF JoinOrStart, Step, BoundTypeOK, db, adds, caches, bounds, history
<1>7. ASSUME NEW q \in Requests, Acknowledge(q) PROVE BoundTypeOK'
    BY <1>7 DEF Acknowledge, Step, BoundTypeOK, db, adds, caches, bounds, history
<1>8. ASSUME NEW q \in Requests, Pending(q) PROVE BoundTypeOK'
    BY <1>8 DEF Pending, Step, BoundTypeOK, db, adds, caches, bounds, history
<1>9. ASSUME NEW q \in Requests, PendingEarly(q) PROVE BoundTypeOK'
    BY <1>9, HostedBounds DEF PendingEarly, Step, Fault, BoundTypeOK, db, adds, caches, bounds,
    history
<1>10. ASSUME NEW a \in Adds, EnterGate(a) PROVE BoundTypeOK'
<2>1. Due(a) \in Nat
    BY RowsTypes DEF Contents, Due
<2>2. base' \in Nat
    BY <1>10, <2>1 DEF EnterGate, Fly, Finish, Later, BoundTypeOK, history
<2> QED
    BY <1>10, <2>2, HostedBounds DEF EnterGate, Fly, Finish, BoundTypeOK, bounds, history
<1>11. ASSUME NEW a \in Adds, TakeLock(a) PROVE BoundTypeOK'
<2>1. Due(a) \in Nat
    BY RowsTypes DEF Contents, Due
<2>2. base' \in Nat
    BY <1>11, <2>1 DEF TakeLock, Fly, Finish, Later, BoundTypeOK, history
<2> QED
    BY <1>11, <2>2, HostedBounds DEF TakeLock, Fly, Finish, BoundTypeOK, bounds, history
<1>12. ASSUME NEW a \in Adds, CheckReceipt(a) PROVE BoundTypeOK'
    BY <1>12 DEF CheckReceipt, Fly, BoundTypeOK, db, adds, caches, bounds, history
<1>13. ASSUME NEW a \in Adds, Persist(a) PROVE BoundTypeOK'
    BY <1>13 DEF Persist, Fly, Commit, BoundTypeOK, db, adds, caches, bounds, history
<1>14. ASSUME NEW a \in Adds, Invalidate(a) PROVE BoundTypeOK'
    BY <1>14 DEF Invalidate, Fly, BoundTypeOK, db, adds, caches, bounds, history
<1>15. ASSUME NEW a \in Adds, RecordReceipt(a) PROVE BoundTypeOK'
    BY <1>15 DEF RecordReceipt, Fly, BoundTypeOK, db, adds, caches, bounds, history
<1>16. ASSUME NEW a \in Adds, Unlock(a) PROVE BoundTypeOK'
    BY <1>16 DEF Unlock, Fly, BoundTypeOK, db, adds, caches, bounds, history
<1>17. ASSUME NEW a \in Adds, EndFlight(a) PROVE BoundTypeOK'
<2>1. Due(a) \in Nat
    BY RowsTypes DEF Contents, Due
<2>2. base' \in Nat
    BY <1>17, <2>1 DEF EndFlight, Fly, Finish, Later, BoundTypeOK, history
<2> QED
    BY <1>17, <2>2, HostedBounds DEF EndFlight, Fly, Finish, BoundTypeOK, bounds, history
<1>18. ASSUME NEW a \in Adds, GateTimeout(a) PROVE BoundTypeOK'
<2>1. Due(a) \in Nat
    BY RowsTypes DEF Contents, Due
<2>2. base' \in Nat
    BY <1>18, <2>1 DEF GateTimeout, Fly, Finish, Fault, Later, BoundTypeOK, history
<2> QED
    BY <1>18, <2>2, HostedBounds DEF GateTimeout, Fly, Finish, Fault, BoundTypeOK, bounds,
    history
<1>19. ASSUME NEW a \in Adds, AddFails(a) PROVE BoundTypeOK'
    BY <1>19, HostedBounds DEF AddFails, Fly, Fault, BoundTypeOK, db, adds, caches, bounds,
    history
<1>20. ASSUME NEW a \in Adds, ForeignAdd(a) PROVE BoundTypeOK'
<2>0. Len(log) + 1 \in Nat /\ base \in Nat /\ hidden \subseteq Nat
    BY RowsTypes DEF BoundTypeOK
<2>1. base' \in Nat /\ hidden' \subseteq Nat
  <3>1. \/ hidden' = hidden \cup {Len(log) + 1} /\ base' = base
        \/ base' = Len(log) + 1 /\ hidden' = hidden
      BY <1>20 DEF ForeignAdd
  <3> QED
      BY <2>0, <3>1
<2> QED
    BY <1>20, <2>1, HostedBounds DEF ForeignAdd, BoundTypeOK
<1>21. ASSUME NEW d \in Deletes, QueueDelete(d) PROVE BoundTypeOK'
    BY <1>21 DEF QueueDelete, Del, BoundTypeOK, db, adds, caches, bounds, history
<1>22. ASSUME NEW d \in Deletes, LockDelete(d) PROVE BoundTypeOK'
    BY <1>22 DEF LockDelete, Del, BoundTypeOK, db, adds, caches, bounds, history
<1>23. ASSUME NEW d \in Deletes, DeleteTenant(d) PROVE BoundTypeOK'
    BY <1>23, RowsTypes DEF DeleteTenant, Commit, Del, BoundTypeOK, db, adds, caches, bounds,
    history
<1>24. ASSUME NEW d \in Deletes, DropCaches(d) PROVE BoundTypeOK'
    BY <1>24 DEF DropCaches, Del, BoundTypeOK, db, adds, caches, bounds, history
<1>25. ASSUME NEW d \in Deletes, UnlockDelete(d) PROVE BoundTypeOK'
    BY <1>25 DEF UnlockDelete, Del, BoundTypeOK, db, adds, caches, bounds, history
<1>26. ASSUME NEW d \in Deletes, EndDelete(d) PROVE BoundTypeOK'
    BY <1>26 DEF EndDelete, Del, BoundTypeOK, db, adds, caches, bounds, history, Later
<1>27. ASSUME NEW d \in Deletes, DeleteTimeout(d) PROVE BoundTypeOK'
    BY <1>27, HostedBounds DEF DeleteTimeout, Del, Fault, BoundTypeOK, db, adds, caches, bounds,
    history
<1>28. ASSUME NEW d \in Deletes, DeleteFails(d) PROVE BoundTypeOK'
    BY <1>28, HostedBounds DEF DeleteFails, Del, Fault, BoundTypeOK, db, adds, caches, bounds,
    history
<1>29. ASSUME NEW p \in Searches, BeginSearch(p) PROVE BoundTypeOK'
    BY <1>29 DEF BeginSearch, Seek, BoundTypeOK, db, adds, caches, bounds, history
<1>30. ASSUME NEW p \in Searches, Rank(p) PROVE BoundTypeOK'
    BY <1>30 DEF Rank, Seek, BoundTypeOK, db, adds, caches, bounds, history
<1>31. ASSUME NEW p \in Searches, Search(p), floor' = floor PROVE BoundTypeOK'
    BY <1>31, SearchFrame DEF BoundTypeOK, bounds
<1>32. ASSUME Evict PROVE BoundTypeOK'
    BY <1>32, HostedBounds DEF Evict, Fault, BoundTypeOK, db, adds, caches, bounds, history
<1>33. ASSUME BeginShutdown PROVE BoundTypeOK'
    BY <1>33, HostedBounds DEF BeginShutdown, Fault, BoundTypeOK, db, adds, caches, bounds,
    history
<1>34. ASSUME Restart PROVE BoundTypeOK'
    BY <1>34, HostedBounds DEF Restart, Fault, BoundTypeOK, db, adds, caches, bounds, history
<1>35. ASSUME NEW p \in Searches, Search(p) PROVE BoundTypeOK'
<2>1. BeginSearch(p) \/ Rank(p) \/ floor' = floor
    BY <1>35 DEF Search, ReadFingerprint, Hit, TakeBuild, Recheck, ReadVersions, ReadRows, ReadAll,
    FileSnapshot, history
<2> QED
    BY <1>29, <1>30, <1>31, <1>35, <2>1
<1> QED
    BY <1>1, <1>2, <1>3, <1>4, <1>5, <1>6, <1>7, <1>8, <1>9, <1>10, <1>11, <1>12, <1>13,
    <1>14, <1>15, <1>16, <1>17, <1>18, <1>19, <1>20, <1>21, <1>22, <1>23, <1>24, <1>25,
    <1>26, <1>27, <1>28, <1>32, <1>33, <1>34, <1>35 DEF Next, Request, Flight, Delete

-----------------------------------------------------------------------------
(* Flight slots                                                            *)

Preparing == {q \in Requests : rpc[q] \in {"parse", "receipt", "start"}}
Flying == {a \in Adds : flight[a] # "none"}
Conserved == slots \in Nat /\ slots + Cardinality(Preparing) + Cardinality(Flying) = FlightSlots

\* The requests and the flights that hold slots are finitely many.
LEMMA Holders ==
    /\ IsFiniteSet(Preparing) /\ Cardinality(Preparing) \in Nat
    /\ IsFiniteSet(Flying) /\ Cardinality(Flying) \in Nat
<1>1. Preparing \in SUBSET Requests /\ Flying \in SUBSET Adds
    BY DEF Preparing, Flying
<1> QED
    BY <1>1, HostedClients, FS_Subset, FS_CardinalityType

\* A request that is about to start a flight, or gives up, is one less.
LEMMA OneLess ==
    ASSUME NEW S, IsFiniteSet(S), NEW x \in S
    PROVE  Cardinality(S \ {x}) = Cardinality(S) - 1 /\ Cardinality(S) > 0
BY FS_RemoveElement, FS_EmptySet, FS_CardinalityType

\* A step that gives back a request's slot, or leaves it, conserves the slots.
LEMMA RequestSlots ==
    ASSUME WriteTypeOK, Conserved, NEW q \in Requests, UNCHANGED flight,
           \/ Preparing' = Preparing \ {q} /\ q \in Preparing /\ slots' = slots + 1
           \/ Preparing' = Preparing /\ slots' = slots
    PROVE  Conserved'
BY Holders, OneLess DEF Conserved, Flying

\* So does the end of a flight.
LEMMA FlightSlotsKept ==
    ASSUME WriteTypeOK, Conserved, NEW a \in Adds, flight[a] # "none", Finish(a, TRUE) \/ Finish(a, FALSE)
    PROVE  Conserved'
<1>1. Preparing' = Preparing
    BY DEF Finish, Preparing, WriteTypeOK
<1>2. Flying' = Flying \ {a} /\ a \in Flying
    BY DEF Finish, Fly, Flying, WriteTypeOK
<1>3. slots' = slots + 1
    BY DEF Finish
<1> QED
    BY <1>1, <1>2, <1>3, Holders, OneLess DEF Conserved

\* And a step between the start and the end of a flight.
LEMMA FlightGoesOn ==
    ASSUME WriteTypeOK, Conserved, NEW a \in Adds, NEW s, flight[a] # "none", s # "none",
           Fly(a, s), UNCHANGED <<rpc, slots>>
    PROVE  Conserved'
<1>1. Preparing' = Preparing
    BY DEF Preparing
<1>2. Flying' = Flying
    BY DEF Fly, Flying, WriteTypeOK
<1> QED
    BY <1>1, <1>2 DEF Conserved

\* Every step conserves the slots.
LEMMA SlotsStep ==
    ASSUME TypeOK, Conserved, [Next]_vars
    PROVE  Conserved'
<1>0. WriteTypeOK
    BY DEF TypeOK
<1> USE <1>0
<1>1. CASE UNCHANGED vars
    BY <1>1 DEF vars, db, adds, caches, bounds, history, Conserved, Preparing, Flying
<1>2. ASSUME NEW q \in Requests, Arrive(q) PROVE Conserved'
<2>1. Preparing' = Preparing
    BY <1>2 DEF Arrive, Step, Preparing, WriteTypeOK, RequestSteps
<2> QED
    BY <1>2, <2>1, RequestSlots DEF Arrive
<1>3. ASSUME NEW q \in Requests, TakeSlot(q) PROVE Conserved'
<2>1. Preparing' = Preparing \cup {q} /\ q \notin Preparing
    BY <1>3 DEF TakeSlot, Step, Preparing, WriteTypeOK
<2>2. Cardinality(Preparing') = Cardinality(Preparing) + 1
    BY <2>1, Holders, FS_AddElement
<2>3. Flying' = Flying
    BY <1>3 DEF TakeSlot, Flying
<2> QED
    BY <1>3, <2>2, <2>3, Holders DEF TakeSlot, Conserved
<1>4. ASSUME NEW q \in Requests, Parse(q) PROVE Conserved'
<2>1. CASE flight[AddOf[q]] # "none"
  <3>1. Preparing' = Preparing \ {q} /\ q \in Preparing /\ slots' = slots + 1
      BY <1>4, <2>1 DEF Parse, Step, Preparing, WriteTypeOK
  <3> QED
      BY <1>4, <3>1, RequestSlots DEF Parse
<2>2. CASE ~(flight[AddOf[q]] # "none")
  <3>1. Preparing' = Preparing /\ slots' = slots
      BY <1>4, <2>2 DEF Parse, Step, Preparing, WriteTypeOK
  <3> QED
      BY <1>4, <3>1, RequestSlots DEF Parse
<2> QED
    BY <2>1, <2>2
<1>5. ASSUME NEW q \in Requests, StoredAdd(q) PROVE Conserved'
<2>1. CASE AddOf[q] \in receipts
  <3>1. Preparing' = Preparing \ {q} /\ q \in Preparing /\ slots' = slots + 1
      BY <1>5, <2>1 DEF StoredAdd, Step, Preparing, WriteTypeOK
  <3> QED
      BY <1>5, <3>1, RequestSlots DEF StoredAdd
<2>2. CASE ~(AddOf[q] \in receipts)
  <3>1. Preparing' = Preparing /\ slots' = slots
      BY <1>5, <2>2 DEF StoredAdd, Step, Preparing, WriteTypeOK
  <3> QED
      BY <1>5, <3>1, RequestSlots DEF StoredAdd
<2> QED
    BY <2>1, <2>2
<1>6. ASSUME NEW q \in Requests, JoinOrStart(q) PROVE Conserved'
<2>1. Preparing' = Preparing \ {q} /\ q \in Preparing
    BY <1>6 DEF JoinOrStart, Step, Preparing, WriteTypeOK
<2>2. CASE flight[AddOf[q]] = "none"
  <3>1. Flying' = Flying \cup {AddOf[q]} /\ AddOf[q] \notin Flying
      BY <1>6, <2>2, HostedClients DEF JoinOrStart, Flying, WriteTypeOK
  <3>2. Cardinality(Flying') = Cardinality(Flying) + 1
      BY <3>1, Holders, FS_AddElement
  <3>3. Cardinality(Preparing') = Cardinality(Preparing) - 1
      BY <2>1, Holders, OneLess
  <3> QED
      BY <1>6, <2>2, <3>2, <3>3, Holders DEF JoinOrStart, Conserved
<2>3. CASE flight[AddOf[q]] # "none"
    BY <1>6, <2>1, <2>3, RequestSlots DEF JoinOrStart
<2> QED
    BY <2>2, <2>3
<1>7. ASSUME NEW q \in Requests, Acknowledge(q) PROVE Conserved'
<2>1. Preparing' = Preparing
    BY <1>7 DEF Acknowledge, Step, Preparing, WriteTypeOK, RequestSteps
<2> QED
    BY <1>7, <2>1, RequestSlots DEF Acknowledge
<1>8. ASSUME NEW q \in Requests, Pending(q) PROVE Conserved'
<2>1. Preparing' = Preparing
    BY <1>8 DEF Pending, Step, Preparing, WriteTypeOK, RequestSteps
<2> QED
    BY <1>8, <2>1, RequestSlots DEF Pending
<1>9. ASSUME NEW q \in Requests, PendingEarly(q) PROVE Conserved'
<2>1. CASE rpc[q] = "slot"
  <3>1. Preparing' = Preparing /\ slots' = slots
      BY <1>9, <2>1 DEF PendingEarly, Step, Preparing, WriteTypeOK
  <3> QED
      BY <1>9, <3>1, RequestSlots DEF PendingEarly
<2>2. CASE rpc[q] # "slot"
  <3>1. Preparing' = Preparing \ {q} /\ q \in Preparing /\ slots' = slots + 1
      BY <1>9, <2>2 DEF PendingEarly, Step, Preparing, WriteTypeOK
  <3> QED
      BY <1>9, <3>1, RequestSlots DEF PendingEarly
<2> QED
    BY <2>1, <2>2
<1>10. ASSUME NEW a \in Adds, EnterGate(a) PROVE Conserved'
    BY <1>10, FlightSlotsKept, FlightGoesOn DEF EnterGate
<1>11. ASSUME NEW a \in Adds, TakeLock(a) PROVE Conserved'
    BY <1>11, FlightSlotsKept, FlightGoesOn DEF TakeLock
<1>12. ASSUME NEW a \in Adds, CheckReceipt(a) PROVE Conserved'
    BY <1>12, FlightGoesOn DEF CheckReceipt
<1>13. ASSUME NEW a \in Adds, Persist(a) PROVE Conserved'
    BY <1>13, FlightGoesOn DEF Persist
<1>14. ASSUME NEW a \in Adds, Invalidate(a) PROVE Conserved'
    BY <1>14, FlightGoesOn DEF Invalidate
<1>15. ASSUME NEW a \in Adds, RecordReceipt(a) PROVE Conserved'
    BY <1>15, FlightGoesOn DEF RecordReceipt
<1>16. ASSUME NEW a \in Adds, Unlock(a) PROVE Conserved'
    BY <1>16, FlightGoesOn DEF Unlock
<1>17. ASSUME NEW a \in Adds, EndFlight(a) PROVE Conserved'
<2>1. result[a] \in BOOLEAN
    BY DEF WriteTypeOK
<2> QED
    BY <1>17, <2>1, FlightSlotsKept DEF EndFlight
<1>18. ASSUME NEW a \in Adds, GateTimeout(a) PROVE Conserved'
    BY <1>18, FlightSlotsKept DEF GateTimeout
<1>19. ASSUME NEW a \in Adds, AddFails(a) PROVE Conserved'
    BY <1>19, FlightGoesOn DEF AddFails
<1>20. ASSUME NEW a \in Adds, ForeignAdd(a) PROVE Conserved'
    BY <1>20 DEF ForeignAdd, adds, Conserved, Preparing, Flying
<1>21. ASSUME NEW d \in Deletes, Delete(d) \/ DeleteTimeout(d) \/ DeleteFails(d) PROVE Conserved'
    BY <1>21 DEF Delete, QueueDelete, LockDelete, DeleteTenant, DropCaches, UnlockDelete,
    EndDelete, DeleteTimeout, DeleteFails, adds, Conserved, Preparing, Flying
<1>22. ASSUME NEW p \in Searches, Search(p) PROVE Conserved'
    BY <1>22, SearchFrame DEF adds, Conserved, Preparing, Flying
<1>23. ASSUME Evict PROVE Conserved'
    BY <1>23 DEF Evict, adds, Conserved, Preparing, Flying
<1>24. ASSUME BeginShutdown PROVE Conserved'
    BY <1>24 DEF BeginShutdown, adds, Conserved, Preparing, Flying
<1>25. ASSUME Restart PROVE Conserved'
<2>1. Preparing' = {} /\ Flying' = {} /\ slots' = FlightSlots
    BY <1>25 DEF Restart, Preparing, Flying, WriteTypeOK
<2> QED
    BY <2>1, HostedBounds, FS_EmptySet DEF Conserved
<1> QED
    BY <1>1, <1>2, <1>3, <1>4, <1>5, <1>6, <1>7, <1>8, <1>9, <1>10, <1>11, <1>12, <1>13,
    <1>14, <1>15, <1>16, <1>17, <1>18, <1>19, <1>20, <1>21, <1>22, <1>23, <1>24, <1>25 DEF
    Next, Request, Flight

-----------------------------------------------------------------------------
(* The queue and the tenant lock: whoever mutates is first in the queue,   *)
(* also in the moments after it released the lock, and holds the lock.     *)

Running == {"check", "persist", "invalidate", "receipt", "unlock", "end"}
Erasing == {"erase", "drop", "unlock", "end"}

Turn ==
    /\ \A a \in Adds : flight[a] \in Running => First(a)
    /\ \A d \in Deletes : dpc[d] \in Erasing => First(d)

Locked ==
    /\ \A a \in Adds : flight[a] \in Running \ {"end"} => lock = a
    /\ \A d \in Deletes : dpc[d] \in Erasing \ {"end"} => lock = d

\* Whoever leaves the queue leaves the first place to whoever had it.
LEMMA LeaveFirst ==
    ASSUME WriteTypeOK, NEW x, NEW y, Leave(x), First(y), x # y
    PROVE  First(y)'
<1>1. PICK i \in 1..Len(queue) :
          /\ queue[i] = x
          /\ queue' = [j \in 1..(Len(queue) - 1) |-> IF j < i THEN queue[j] ELSE queue[j + 1]]
    BY DEF Leave
<1>2. queue[1] = y /\ i > 1 /\ Len(queue) \in Nat
    BY <1>1 DEF First, WriteTypeOK
<1>3. queue' \in Seq(Adds \cup Deletes) /\ Len(queue') = Len(queue) - 1
    BY <1>1, <1>2 DEF WriteTypeOK
<1>4. queue'[1] = y
    BY <1>1, <1>2
<1> QED
    BY <1>2, <1>3, <1>4 DEF First

\* Whoever joins it does too.
LEMMA JoinFirst ==
    ASSUME WriteTypeOK, NEW x \in Adds \cup Deletes, NEW y, queue' = Append(queue, x), First(y)
    PROVE  First(y)'
BY DEF First, WriteTypeOK

\* Every step leaves the one that mutates first in the queue.
LEMMA TurnStep ==
    ASSUME TypeOK, Turn, [Next]_vars
    PROVE  Turn'
<1>0. WriteTypeOK
    BY DEF TypeOK
<1> USE <1>0
<1>1. CASE UNCHANGED vars
    BY <1>1 DEF vars, db, adds, caches, bounds, history, First, Turn
<1>2. ASSUME NEW q \in Requests, JoinOrStart(q) PROVE Turn'
    BY <1>2, HostedClients DEF JoinOrStart, First, Turn, Running, Erasing, WriteTypeOK
<1>3. ASSUME NEW q \in Requests, Request(q) \/ Pending(q) \/ PendingEarly(q), flight' = flight PROVE Turn'
    BY <1>3, RequestFrame DEF First, Turn
<1>4. ASSUME NEW a \in Adds, EnterGate(a) PROVE Turn'
<2>1. \A y : First(y) => First(y)'
    BY <1>4, JoinFirst DEF EnterGate, First
<2>2. dpc' = dpc /\ \A b \in Adds : flight'[b] \in Running => flight[b] \in Running
    BY <1>4 DEF EnterGate, Finish, Fly, Running, WriteTypeOK
<2> QED
    BY <2>1, <2>2 DEF Turn
<1>5. ASSUME NEW a \in Adds, TakeLock(a) PROVE Turn'
<2>1. CASE stopping
  <3>1. Leave(a) /\ dpc' = dpc /\ \A b \in Adds : flight'[b] \in Running => b # a /\ flight[b] \in Running
      BY <1>5, <2>1 DEF TakeLock, Finish, Fly, Running, WriteTypeOK
  <3> QED
      BY <3>1, LeaveFirst, HostedClients DEF Turn
<2>2. CASE ~stopping
    BY <1>5, <2>2 DEF TakeLock, Fly, First, Turn, Running, WriteTypeOK
<2> QED
    BY <2>1, <2>2
<1>6. ASSUME NEW a \in Adds, CheckReceipt(a) PROVE Turn'
    BY <1>6 DEF CheckReceipt, Fly, adds, First, Turn, Running, Erasing, WriteTypeOK
<1>7. ASSUME NEW a \in Adds, Persist(a) PROVE Turn'
    BY <1>7 DEF Persist, Fly, adds, First, Turn, Running, Erasing, WriteTypeOK
<1>8. ASSUME NEW a \in Adds, Invalidate(a) PROVE Turn'
    BY <1>8 DEF Invalidate, Fly, adds, First, Turn, Running, Erasing, WriteTypeOK
<1>9. ASSUME NEW a \in Adds, RecordReceipt(a) PROVE Turn'
    BY <1>9 DEF RecordReceipt, Fly, adds, First, Turn, Running, Erasing, WriteTypeOK
<1>10. ASSUME NEW a \in Adds, Unlock(a) PROVE Turn'
    BY <1>10 DEF Unlock, Fly, adds, First, Turn, Running, Erasing, WriteTypeOK
<1>11. ASSUME NEW a \in Adds, EndFlight(a) PROVE Turn'
<2>1. Leave(a) /\ dpc' = dpc /\ \A b \in Adds : flight'[b] \in Running => b # a /\ flight[b] \in Running
    BY <1>11 DEF EndFlight, Finish, Fly, Running, WriteTypeOK
<2> QED
    BY <2>1, LeaveFirst, HostedClients DEF Turn
<1>12. ASSUME NEW a \in Adds, GateTimeout(a) PROVE Turn'
<2>1. Leave(a) /\ dpc' = dpc /\ \A b \in Adds : flight'[b] \in Running => b # a /\ flight[b] \in Running
    BY <1>12 DEF GateTimeout, Finish, Fly, Running, WriteTypeOK
<2> QED
    BY <2>1, LeaveFirst, HostedClients DEF Turn
<1>13. ASSUME NEW a \in Adds, AddFails(a) PROVE Turn'
    BY <1>13 DEF AddFails, Fly, Fault, adds, First, Turn, Running, Erasing, WriteTypeOK
<1>14. ASSUME NEW a \in Adds, ForeignAdd(a) PROVE Turn'
    BY <1>14 DEF ForeignAdd, adds, First, Turn, Running, Erasing, WriteTypeOK
<1>15. ASSUME NEW d \in Deletes, QueueDelete(d) PROVE Turn'
<2>1. \A y : First(y) => First(y)'
    BY <1>15, JoinFirst DEF QueueDelete
<2>2. flight' = flight /\ \A e \in Deletes : dpc'[e] \in Erasing => dpc[e] \in Erasing
    BY <1>15 DEF QueueDelete, Del, adds, Erasing, WriteTypeOK
<2> QED
    BY <2>1, <2>2 DEF Turn
<1>16. ASSUME NEW d \in Deletes, LockDelete(d) PROVE Turn'
<2>1. CASE stopping
  <3>1. Leave(d) /\ flight' = flight /\ \A e \in Deletes : dpc'[e] \in Erasing => e # d /\ dpc[e] \in Erasing
      BY <1>16, <2>1 DEF LockDelete, Del, adds, Erasing, WriteTypeOK
  <3> QED
      BY <3>1, LeaveFirst, HostedClients DEF Turn
<2>2. CASE ~stopping
    BY <1>16, <2>2 DEF LockDelete, Del, adds, First, Turn, Erasing, WriteTypeOK
<2> QED
    BY <2>1, <2>2
<1>17. ASSUME NEW d \in Deletes, DeleteTenant(d) PROVE Turn'
    BY <1>17 DEF DeleteTenant, Del, adds, First, Turn, Running, Erasing, WriteTypeOK
<1>18. ASSUME NEW d \in Deletes, DropCaches(d) PROVE Turn'
    BY <1>18 DEF DropCaches, Del, adds, First, Turn, Running, Erasing, WriteTypeOK
<1>19. ASSUME NEW d \in Deletes, UnlockDelete(d) PROVE Turn'
    BY <1>19 DEF UnlockDelete, Del, adds, First, Turn, Running, Erasing, WriteTypeOK
<1>20. ASSUME NEW d \in Deletes, EndDelete(d) PROVE Turn'
<2>1. Leave(d) /\ flight' = flight /\ \A e \in Deletes : dpc'[e] \in Erasing => e # d /\ dpc[e] \in Erasing
    BY <1>20 DEF EndDelete, Del, adds, Erasing, WriteTypeOK
<2> QED
    BY <2>1, LeaveFirst, HostedClients DEF Turn
<1>21. ASSUME NEW d \in Deletes, DeleteTimeout(d) PROVE Turn'
<2>1. Leave(d) /\ flight' = flight /\ \A e \in Deletes : dpc'[e] \in Erasing => e # d /\ dpc[e] \in Erasing
    BY <1>21 DEF DeleteTimeout, Del, adds, Erasing, WriteTypeOK
<2> QED
    BY <2>1, LeaveFirst, HostedClients DEF Turn
<1>22. ASSUME NEW d \in Deletes, DeleteFails(d) PROVE Turn'
    BY <1>22 DEF DeleteFails, Del, adds, First, Turn, Running, Erasing, WriteTypeOK
<1>23. ASSUME NEW p \in Searches, Search(p) PROVE Turn'
    BY <1>23, SearchFrame DEF adds, First, Turn
<1>24. ASSUME Evict PROVE Turn'
    BY <1>24 DEF Evict, adds, First, Turn
<1>25. ASSUME BeginShutdown PROVE Turn'
    BY <1>25 DEF BeginShutdown, adds, First, Turn
<1>26. ASSUME Restart PROVE Turn'
    BY <1>26 DEF Restart, Turn, Running, Erasing
<1> QED
    BY <1>1, <1>2, <1>3, <1>4, <1>5, <1>6, <1>7, <1>8, <1>9, <1>10, <1>11, <1>12, <1>13,
    <1>14, <1>15, <1>16, <1>17, <1>18, <1>19, <1>20, <1>21, <1>22, <1>23, <1>24, <1>25,
    <1>26 DEF Next, Request, Flight, Delete, Arrive, TakeSlot, Parse, StoredAdd,
    Acknowledge, Pending, PendingEarly

\* Every step leaves the tenant lock with the one that mutates.
LEMMA LockedStep ==
    ASSUME TypeOK, Locked, [Next]_vars
    PROVE  Locked'
<1>0. WriteTypeOK
    BY DEF TypeOK
<1> USE <1>0
<1>1. CASE UNCHANGED vars
    BY <1>1 DEF vars, db, adds, caches, bounds, history, Locked
<1>2. ASSUME NEW q \in Requests, JoinOrStart(q) PROVE Locked'
    BY <1>2, HostedClients DEF JoinOrStart, Step, adds, Locked, Running, Erasing, WriteTypeOK
<1>3. ASSUME NEW q \in Requests, Request(q) \/ Pending(q) \/ PendingEarly(q), flight' = flight PROVE Locked'
    BY <1>3, RequestFrame DEF Locked
<1>4. ASSUME NEW a \in Adds, EnterGate(a) PROVE Locked'
    BY <1>4 DEF EnterGate, Fly, Finish, adds, Locked, Running, Erasing, WriteTypeOK
<1>5. ASSUME NEW a \in Adds, TakeLock(a) PROVE Locked'
    BY <1>5, HostedClients DEF TakeLock, Fly, Finish, adds, Locked, Running, Erasing,
    WriteTypeOK
<1>6. ASSUME NEW a \in Adds, CheckReceipt(a) PROVE Locked'
    BY <1>6 DEF CheckReceipt, Fly, adds, Locked, Running, Erasing, WriteTypeOK
<1>7. ASSUME NEW a \in Adds, Persist(a) PROVE Locked'
    BY <1>7 DEF Persist, Fly, adds, Locked, Running, Erasing, WriteTypeOK
<1>8. ASSUME NEW a \in Adds, Invalidate(a) PROVE Locked'
    BY <1>8 DEF Invalidate, Fly, adds, Locked, Running, Erasing, WriteTypeOK
<1>9. ASSUME NEW a \in Adds, RecordReceipt(a) PROVE Locked'
    BY <1>9 DEF RecordReceipt, Fly, adds, Locked, Running, Erasing, WriteTypeOK
<1>10. ASSUME NEW a \in Adds, Unlock(a) PROVE Locked'
    BY <1>10, HostedClients DEF Unlock, Fly, adds, Locked, Running, Erasing, WriteTypeOK
<1>11. ASSUME NEW a \in Adds, EndFlight(a) PROVE Locked'
    BY <1>11 DEF EndFlight, Fly, Finish, adds, Locked, Running, Erasing, WriteTypeOK
<1>12. ASSUME NEW a \in Adds, GateTimeout(a) PROVE Locked'
    BY <1>12 DEF GateTimeout, Fly, Finish, adds, Locked, Running, Erasing, WriteTypeOK
<1>13. ASSUME NEW a \in Adds, AddFails(a) PROVE Locked'
    BY <1>13 DEF AddFails, Fly, adds, Locked, Running, Erasing, WriteTypeOK
<1>14. ASSUME NEW a \in Adds, ForeignAdd(a) PROVE Locked'
    BY <1>14 DEF ForeignAdd, adds, Locked, Running, Erasing, WriteTypeOK
<1>15. ASSUME NEW d \in Deletes, QueueDelete(d) PROVE Locked'
    BY <1>15 DEF QueueDelete, Del, adds, Locked, Running, Erasing, WriteTypeOK
<1>16. ASSUME NEW d \in Deletes, LockDelete(d) PROVE Locked'
    BY <1>16, HostedClients DEF LockDelete, Del, adds, Locked, Running, Erasing, WriteTypeOK
<1>17. ASSUME NEW d \in Deletes, DeleteTenant(d) PROVE Locked'
    BY <1>17 DEF DeleteTenant, Del, adds, Locked, Running, Erasing, WriteTypeOK
<1>18. ASSUME NEW d \in Deletes, DropCaches(d) PROVE Locked'
    BY <1>18 DEF DropCaches, Del, adds, Locked, Running, Erasing, WriteTypeOK
<1>19. ASSUME NEW d \in Deletes, UnlockDelete(d) PROVE Locked'
    BY <1>19, HostedClients DEF UnlockDelete, Del, adds, Locked, Running, Erasing, WriteTypeOK
<1>20. ASSUME NEW d \in Deletes, EndDelete(d) PROVE Locked'
    BY <1>20 DEF EndDelete, Del, adds, Locked, Running, Erasing, WriteTypeOK
<1>21. ASSUME NEW d \in Deletes, DeleteTimeout(d) PROVE Locked'
    BY <1>21 DEF DeleteTimeout, Del, adds, Locked, Running, Erasing, WriteTypeOK
<1>22. ASSUME NEW d \in Deletes, DeleteFails(d) PROVE Locked'
    BY <1>22 DEF DeleteFails, Del, adds, Locked, Running, Erasing, WriteTypeOK
<1>23. ASSUME NEW p \in Searches, Search(p) PROVE Locked'
    BY <1>23, SearchFrame DEF adds, Locked
<1>24. ASSUME Evict PROVE Locked'
    BY <1>24 DEF Evict, adds, Locked
<1>25. ASSUME BeginShutdown PROVE Locked'
    BY <1>25 DEF BeginShutdown, adds, Locked
<1>26. ASSUME Restart PROVE Locked'
    BY <1>26 DEF Restart, Locked, Running, Erasing
<1> QED
    BY <1>1, <1>2, <1>3, <1>4, <1>5, <1>6, <1>7, <1>8, <1>9, <1>10, <1>11, <1>12, <1>13,
    <1>14, <1>15, <1>16, <1>17, <1>18, <1>19, <1>20, <1>21, <1>22, <1>23, <1>24, <1>25,
    <1>26 DEF Next, Request, Flight, Delete, Arrive, TakeSlot, Parse, StoredAdd,
    Acknowledge, Pending, PendingEarly

-----------------------------------------------------------------------------
(* Rows and receipts                                                       *)

Stored ==
    /\ \A a \in receipts : Rows[a] # 0
    /\ \A a \in Adds : flight[a] = "persist" => a \notin receipts
    /\ \A a \in Adds : flight[a] \in {"invalidate", "receipt"} => Rows[a] # 0
    /\ \A a \in Adds : result[a] => flight[a] \in {"unlock", "end"} /\ a \in receipts

\* A step that commits nothing leaves the table as it is.
LEMMA SameRows == ASSUME UNCHANGED log PROVE Rows' = Rows
BY DEF Rows

\* An upsert changes one row of it.
LEMMA UpsertRows ==
    ASSUME WriteTypeOK, NEW a \in Adds, NEW s,
           Commit([Rows EXCEPT ![a] = Len(log) + 1], s), s \in SUBSET Nat
    PROVE  Rows' \in Contents /\ Rows'[a] # 0 /\ \A b \in Adds \ {a} : Rows'[b] = Rows[b]
<1>1. [Rows EXCEPT ![a] = Len(log) + 1] \in Contents
    BY RowsTypes DEF Contents
<1>2. Rows' = [Rows EXCEPT ![a] = Len(log) + 1]
    BY <1>1, CommitRows
<1> QED
    BY <1>1, <1>2, RowsTypes DEF Contents

\* Every step keeps the rows of what has a receipt or was acknowledged.
LEMMA StoredStep ==
    ASSUME TypeOK, Turn, Locked, Stored, AckedIsStored, [Next]_vars
    PROVE  Stored' /\ AckedIsStored'
<1>0. WriteTypeOK /\ BoundTypeOK
    BY DEF TypeOK
<1> USE <1>0
<1>1. CASE UNCHANGED vars
    BY <1>1 DEF vars, db, adds, caches, bounds, history, Stored, AckedIsStored, Rows
<1>2. ASSUME NEW q \in Requests, Arrive(q) PROVE Stored' /\ AckedIsStored'
<2>1. Rows' = Rows
    BY <1>2, SameRows DEF Arrive, db
<2> QED
    BY <1>2, <2>1, HostedClients DEF Arrive, Step, db, history, Stored, AckedIsStored,
    WriteTypeOK, BoundTypeOK
<1>3. ASSUME NEW q \in Requests, TakeSlot(q) PROVE Stored' /\ AckedIsStored'
<2>1. Rows' = Rows
    BY <1>3, SameRows DEF TakeSlot, db
<2> QED
    BY <1>3, <2>1, HostedClients DEF TakeSlot, Step, db, history, Stored, AckedIsStored,
    WriteTypeOK, BoundTypeOK
<1>4. ASSUME NEW q \in Requests, Parse(q) PROVE Stored' /\ AckedIsStored'
<2>1. Rows' = Rows
    BY <1>4, SameRows DEF Parse, db
<2> QED
    BY <1>4, <2>1, HostedClients DEF Parse, Step, db, history, Stored, AckedIsStored,
    WriteTypeOK, BoundTypeOK
<1>5. ASSUME NEW q \in Requests, StoredAdd(q) PROVE Stored' /\ AckedIsStored'
<2>1. Rows' = Rows
    BY <1>5, SameRows DEF StoredAdd, db
<2> QED
    BY <1>5, <2>1, HostedClients DEF StoredAdd, Step, db, history, Stored, AckedIsStored,
    WriteTypeOK, BoundTypeOK
<1>6. ASSUME NEW q \in Requests, JoinOrStart(q) PROVE Stored' /\ AckedIsStored'
<2>1. Rows' = Rows
    BY <1>6, SameRows DEF JoinOrStart, db
<2> QED
    BY <1>6, <2>1, HostedClients DEF JoinOrStart, Step, db, history, Stored, AckedIsStored,
    WriteTypeOK, BoundTypeOK
<1>7. ASSUME NEW q \in Requests, Acknowledge(q) PROVE Stored' /\ AckedIsStored'
<2>1. Rows' = Rows
    BY <1>7, SameRows DEF Acknowledge, db
<2> QED
    BY <1>7, <2>1, HostedClients DEF Acknowledge, Step, db, history, Stored, AckedIsStored,
    WriteTypeOK, BoundTypeOK
<1>8. ASSUME NEW q \in Requests, Pending(q) PROVE Stored' /\ AckedIsStored'
<2>1. Rows' = Rows
    BY <1>8, SameRows DEF Pending, db
<2> QED
    BY <1>8, <2>1, HostedClients DEF Pending, Step, db, history, Stored, AckedIsStored,
    WriteTypeOK, BoundTypeOK
<1>9. ASSUME NEW q \in Requests, PendingEarly(q) PROVE Stored' /\ AckedIsStored'
<2>1. Rows' = Rows
    BY <1>9, SameRows DEF PendingEarly, db
<2> QED
    BY <1>9, <2>1, HostedClients DEF PendingEarly, Step, db, history, Stored, AckedIsStored,
    WriteTypeOK, BoundTypeOK
<1>10. ASSUME NEW a \in Adds, EnterGate(a) PROVE Stored' /\ AckedIsStored'
<2>1. Rows' = Rows /\ receipts' = receipts
    BY <1>10, SameRows DEF EnterGate, db
<2>2. Stored'
    BY <1>10, <2>1 DEF EnterGate, Finish, Fly, Stored, WriteTypeOK
<2>3. AckedIsStored'
    BY <1>10, <2>1 DEF EnterGate, Finish, Fly, history, AckedIsStored, WriteTypeOK
<2> QED
    BY <2>2, <2>3
<1>11. ASSUME NEW a \in Adds, TakeLock(a) PROVE Stored' /\ AckedIsStored'
<2>1. Rows' = Rows /\ receipts' = receipts
    BY <1>11, SameRows DEF TakeLock, db
<2>2. Stored'
    BY <1>11, <2>1 DEF TakeLock, Finish, Fly, Stored, WriteTypeOK
<2>3. AckedIsStored'
    BY <1>11, <2>1 DEF TakeLock, Finish, Fly, history, AckedIsStored, WriteTypeOK
<2> QED
    BY <2>2, <2>3
<1>12. ASSUME NEW a \in Adds, CheckReceipt(a) PROVE Stored' /\ AckedIsStored'
<2>1. Rows' = Rows
    BY <1>12, SameRows DEF CheckReceipt, db
<2>2. Stored'
    BY <1>12, <2>1 DEF CheckReceipt, Fly, db, Stored, WriteTypeOK
<2> QED
    BY <1>12, <2>1, <2>2 DEF CheckReceipt, history, AckedIsStored
<1>13. ASSUME NEW a \in Adds, Persist(a) PROVE Stored' /\ AckedIsStored'
<2>1. Prints(a) \in SUBSET Nat
    BY <1>0, PrintsTypes
<2>2. Rows' \in Contents /\ Rows'[a] # 0 /\ \A b \in Adds \ {a} : Rows'[b] = Rows[b]
    BY <1>13, <2>1, UpsertRows DEF Persist
<2>3. \A b \in Adds : Rows[b] # 0 => Rows'[b] # 0
    BY <2>2
<2>4. Stored'
    BY <1>13, <2>2, <2>3 DEF Persist, Fly, Stored, WriteTypeOK
<2>5. AckedIsStored'
    BY <1>13, <2>3, HostedClients DEF Persist, history, AckedIsStored
<2> QED
    BY <2>4, <2>5
<1>14. ASSUME NEW a \in Adds, Invalidate(a) PROVE Stored' /\ AckedIsStored'
<2>1. Rows' = Rows
    BY <1>14, SameRows DEF Invalidate, db
<2>2. Stored'
    BY <1>14, <2>1 DEF Invalidate, Fly, db, Stored, WriteTypeOK
<2> QED
    BY <1>14, <2>1, <2>2 DEF Invalidate, history, AckedIsStored
<1>15. ASSUME NEW a \in Adds, RecordReceipt(a) PROVE Stored' /\ AckedIsStored'
<2>1. Rows' = Rows
    BY <1>15, SameRows DEF RecordReceipt
<2>2. Stored'
    BY <1>15, <2>1 DEF RecordReceipt, Fly, Stored, WriteTypeOK
<2> QED
    BY <1>15, <2>1, <2>2 DEF RecordReceipt, history, AckedIsStored
<1>16. ASSUME NEW a \in Adds, Unlock(a) PROVE Stored' /\ AckedIsStored'
<2>1. Rows' = Rows
    BY <1>16, SameRows DEF Unlock, db
<2>2. Stored'
    BY <1>16, <2>1 DEF Unlock, Fly, db, Stored, WriteTypeOK
<2> QED
    BY <1>16, <2>1, <2>2 DEF Unlock, history, AckedIsStored
<1>17. ASSUME NEW a \in Adds, EndFlight(a) PROVE Stored' /\ AckedIsStored'
<2>1. Rows' = Rows /\ receipts' = receipts /\ deleted' = deleted
    BY <1>17, SameRows DEF EndFlight, Finish, db
<2>2. Stored'
    BY <1>17, <2>1 DEF EndFlight, Finish, Fly, Stored, WriteTypeOK
<2>3. result[a] => Rows[a] # 0
    BY DEF Stored
<2>4. AckedIsStored'
    BY <1>17, <2>1, <2>3 DEF EndFlight, Finish, AckedIsStored, WriteTypeOK
<2> QED
    BY <2>2, <2>4
<1>18. ASSUME NEW a \in Adds, GateTimeout(a) PROVE Stored' /\ AckedIsStored'
<2>1. Rows' = Rows /\ receipts' = receipts
    BY <1>18, SameRows DEF GateTimeout, db
<2>2. Stored'
    BY <1>18, <2>1 DEF GateTimeout, Finish, Fly, Stored, WriteTypeOK
<2>3. AckedIsStored'
    BY <1>18, <2>1 DEF GateTimeout, Finish, Fly, history, AckedIsStored, WriteTypeOK
<2> QED
    BY <2>2, <2>3
<1>19. ASSUME NEW a \in Adds, AddFails(a) PROVE Stored' /\ AckedIsStored'
<2>1. Rows' = Rows
    BY <1>19, SameRows DEF AddFails, db
<2>2. Stored'
    BY <1>19, <2>1 DEF AddFails, Fly, db, Stored, WriteTypeOK
<2> QED
    BY <1>19, <2>1, <2>2 DEF AddFails, history, AckedIsStored
<1>20. ASSUME NEW a \in Adds, ForeignAdd(a) PROVE Stored' /\ AckedIsStored'
<2>1. Prints(a) \in SUBSET Nat
    BY <1>0, PrintsTypes
<2>2. Rows' \in Contents /\ Rows'[a] # 0 /\ \A b \in Adds \ {a} : Rows'[b] = Rows[b]
    BY <1>20, <2>1, UpsertRows DEF ForeignAdd
<2>3. \A b \in Adds : Rows[b] # 0 => Rows'[b] # 0
    BY <2>2
<2>4. flight[a] # "persist" /\ receipts' \subseteq receipts \cup {a}
    BY <1>20, HostedClients DEF ForeignAdd, Locked, Running
<2>5. Stored'
    BY <1>20, <2>2, <2>3, <2>4 DEF ForeignAdd, adds, Stored, WriteTypeOK
<2>6. AckedIsStored'
    BY <1>20, <2>3, HostedClients DEF ForeignAdd, adds, AckedIsStored
<2> QED
    BY <2>5, <2>6
<1>21. ASSUME NEW d \in Deletes, QueueDelete(d) PROVE Stored' /\ AckedIsStored'
<2>1. Rows' = Rows
    BY <1>21, SameRows DEF QueueDelete, db
<2> QED
    BY <1>21, <2>1 DEF QueueDelete, db, adds, history, Stored, AckedIsStored
<1>22. ASSUME NEW d \in Deletes, LockDelete(d) PROVE Stored' /\ AckedIsStored'
<2>1. Rows' = Rows
    BY <1>22, SameRows DEF LockDelete, db
<2> QED
    BY <1>22, <2>1 DEF LockDelete, db, adds, history, Stored, AckedIsStored
<1>23. ASSUME NEW d \in Deletes, DeleteTenant(d) PROVE Stored' /\ AckedIsStored'
<2>1. dpc[d] = "erase" /\ First(d)
    BY <1>23 DEF DeleteTenant, Turn, Erasing
<2>2. \A a \in Adds : flight[a] \notin Running
    BY <2>1, HostedClients DEF Turn, First
<2>3. \A a \in Adds : ~result[a]
    BY <2>2 DEF Stored, Running
<2>4. Stored'
    BY <1>23, <2>2, <2>3 DEF DeleteTenant, adds, Stored, Running
<2>5. AckedIsStored'
    BY <1>23 DEF DeleteTenant, AckedIsStored
<2> QED
    BY <2>4, <2>5
<1>24. ASSUME NEW d \in Deletes, DropCaches(d) PROVE Stored' /\ AckedIsStored'
<2>1. Rows' = Rows
    BY <1>24, SameRows DEF DropCaches, db
<2> QED
    BY <1>24, <2>1 DEF DropCaches, db, adds, history, Stored, AckedIsStored
<1>25. ASSUME NEW d \in Deletes, UnlockDelete(d) PROVE Stored' /\ AckedIsStored'
<2>1. Rows' = Rows
    BY <1>25, SameRows DEF UnlockDelete, db
<2> QED
    BY <1>25, <2>1 DEF UnlockDelete, db, adds, history, Stored, AckedIsStored
<1>26. ASSUME NEW d \in Deletes, EndDelete(d) PROVE Stored' /\ AckedIsStored'
<2>1. Rows' = Rows
    BY <1>26, SameRows DEF EndDelete, db
<2> QED
    BY <1>26, <2>1 DEF EndDelete, db, adds, history, Stored, AckedIsStored
<1>27. ASSUME NEW d \in Deletes, DeleteTimeout(d) PROVE Stored' /\ AckedIsStored'
<2>1. Rows' = Rows
    BY <1>27, SameRows DEF DeleteTimeout, db
<2> QED
    BY <1>27, <2>1 DEF DeleteTimeout, db, adds, history, Stored, AckedIsStored
<1>28. ASSUME NEW d \in Deletes, DeleteFails(d) PROVE Stored' /\ AckedIsStored'
<2>1. Rows' = Rows
    BY <1>28, SameRows DEF DeleteFails, db
<2> QED
    BY <1>28, <2>1 DEF DeleteFails, db, adds, history, Stored, AckedIsStored
<1>29. ASSUME NEW p \in Searches, Search(p) PROVE Stored' /\ AckedIsStored'
    BY <1>29, SearchFrame, SameRows DEF db, adds, Stored, AckedIsStored
<1>30. ASSUME Evict PROVE Stored' /\ AckedIsStored'
<2>1. Rows' = Rows
    BY <1>30, SameRows DEF Evict, db
<2> QED
    BY <1>30, <2>1 DEF Evict, db, adds, history, Stored, AckedIsStored
<1>31. ASSUME BeginShutdown PROVE Stored' /\ AckedIsStored'
<2>1. Rows' = Rows
    BY <1>31, SameRows DEF BeginShutdown, db
<2> QED
    BY <1>31, <2>1 DEF BeginShutdown, db, adds, history, Stored, AckedIsStored
<1>32. ASSUME Restart PROVE Stored' /\ AckedIsStored'
<2>1. Rows' = Rows
    BY <1>32, SameRows DEF Restart, db
<2> QED
    BY <1>32, <2>1 DEF Restart, db, history, Stored, AckedIsStored
<1> QED
    BY <1>1, <1>2, <1>3, <1>4, <1>5, <1>6, <1>7, <1>8, <1>9, <1>10, <1>11, <1>12, <1>13,
    <1>14, <1>15, <1>16, <1>17, <1>18, <1>19, <1>20, <1>21, <1>22, <1>23, <1>24, <1>25,
    <1>26, <1>27, <1>28, <1>29, <1>30, <1>31, <1>32 DEF Next, Request, Flight, Delete

-----------------------------------------------------------------------------
(* The theorems                                                            *)

IndInv == TypeOK /\ Built /\ Conserved /\ Turn /\ Locked /\ Stored /\ AckedIsStored

\* Slots that are conserved are within their bounds.
LEMMA SlotsWithin == Conserved => slots \in 0..FlightSlots /\ SlotsConserved
BY Holders, HostedBounds DEF Conserved, SlotsConserved, Preparing, Flying

\* The invariant holds initially ...
LEMMA HostedInit == Init => IndInv
<1> SUFFICES ASSUME Init PROVE IndInv
    OBVIOUS
<1>1. Empty \in Contents /\ Fresh \in Entries
    BY DEF Empty, Contents, Fresh, Entries
<1>2. WriteTypeOK
  <2>1. log \in Seq(Contents) /\ log # <<>> /\ queue \in Seq(Adds \cup Deletes)
      BY <1>1 DEF Init
  <2>2. rpc \in [Requests -> RequestSteps] /\ dpc \in [Deletes -> DeleteSteps]
      BY DEF Init, RequestSteps, DeleteSteps
  <2>3. flight \in [Adds -> FlightSteps] /\ result \in [Adds -> BOOLEAN]
      BY DEF Init, FlightSteps
  <2> QED
      BY <2>1, <2>2, <2>3 DEF Init, WriteTypeOK
<1>3. CacheTypeOK
    BY <1>1 DEF Init, CacheTypeOK, SearchSteps
<1>4. BoundTypeOK
    BY HostedBounds DEF Init, BoundTypeOK
<1>5. Preparing = {} /\ Flying = {}
    BY DEF Init, Preparing, Flying
<1>6. Conserved
    BY <1>5, HostedBounds, FS_EmptySet DEF Init, Conserved
<1>7. Built /\ Turn /\ Locked /\ Stored /\ AckedIsStored
    BY DEF Init, Built, Turn, Locked, Stored, AckedIsStored, Running, Erasing
<1> QED
    BY <1>2, <1>3, <1>4, <1>6, <1>7, SlotsWithin DEF IndInv, TypeOK

\* ... and every step keeps it.
LEMMA HostedStep == IndInv /\ [Next]_vars => IndInv'
<1> SUFFICES ASSUME IndInv, [Next]_vars PROVE IndInv'
    OBVIOUS
<1> USE DEF IndInv
<1>1. WriteTypeOK' /\ CacheTypeOK' /\ BoundTypeOK'
    BY WriteTypes, CacheTypes, BoundTypes
<1>2. Conserved' /\ Built'
    BY SlotsStep, BuiltStep
<1>3. (slots \in 0..FlightSlots)'
    BY <1>2, SlotsWithin, PTL
<1>4. Turn' /\ Locked' /\ Stored' /\ AckedIsStored'
    BY TurnStep, LockedStep, StoredStep
<1> QED
    BY <1>1, <1>2, <1>3, <1>4 DEF TypeOK

\* The invariant of the service.
THEOREM HostedInvariant == Spec => []IndInv
BY HostedInit, HostedStep, PTL DEF Spec

\* Every variable keeps its type; in particular no more slots are given back
\* than the semaphore has (run_within_budget and the flight's finally).
THEOREM HostedTypes == Spec => []TypeOK
<1>1. IndInv => TypeOK
    BY DEF IndInv
<1> QED
    BY <1>1, HostedInvariant, PTL

\* No flight slot is lost or given back twice, whoever joins, times out, is
\* refused or restarts.
THEOREM SlotsNeverLeak == Spec => []SlotsConserved
<1>1. IndInv => SlotsConserved
    BY SlotsWithin DEF IndInv
<1> QED
    BY <1>1, HostedInvariant, PTL

\* An Add that is answered 200, from a receipt or by the flight it joined, is
\* stored unless the user was deleted since: the queue lets no delete commit
\* before the flight that released the lock has ended.
THEOREM AckedAddsAreStored == Spec => []AckedIsStored
<1>1. IndInv => AckedIsStored
    BY DEF IndInv
<1> QED
    BY <1>1, HostedInvariant, PTL

\* Rows are committed by an Add, here or elsewhere, or by a delete.
LEMMA CommitFrame ==
    ASSUME Next
    PROVE  \/ UNCHANGED <<log, fp>>
           \/ \E a \in Adds : Persist(a) \/ ForeignAdd(a)
           \/ \E d \in Deletes : DeleteTenant(d)
<1>1. ASSUME NEW q \in Requests, Request(q) \/ Pending(q) \/ PendingEarly(q) PROVE UNCHANGED <<log, fp>>
    BY <1>1, RequestFrame DEF db
<1>2. ASSUME NEW p \in Searches, Search(p) PROVE UNCHANGED <<log, fp>>
    BY <1>2, SearchFrame DEF db
<1>3. ASSUME NEW a \in Adds, Flight(a) \/ GateTimeout(a) \/ AddFails(a)
      PROVE  UNCHANGED <<log, fp>> \/ Persist(a)
    BY <1>3 DEF Flight, EnterGate, TakeLock, CheckReceipt, Invalidate, RecordReceipt,
    Unlock, EndFlight, GateTimeout, AddFails, db
<1>4. ASSUME NEW d \in Deletes, Delete(d) \/ DeleteTimeout(d) \/ DeleteFails(d)
      PROVE  UNCHANGED <<log, fp>> \/ DeleteTenant(d)
    BY <1>4 DEF Delete, QueueDelete, LockDelete, DropCaches, UnlockDelete, EndDelete,
    DeleteTimeout, DeleteFails, db
<1>5. ASSUME Evict \/ BeginShutdown \/ Restart PROVE UNCHANGED <<log, fp>>
    BY <1>5 DEF Evict, BeginShutdown, Restart, db
<1> QED
    BY <1>1, <1>2, <1>3, <1>4, <1>5 DEF Next

\* What has a receipt is stored, and stays as it is while it has one.
LEMMA FinalStep ==
    ASSUME IndInv, [Next]_vars
    PROVE  \A a \in receipts : Rows[a] # 0 /\ (Rows'[a] = Rows[a] \/ a \notin receipts')
<1> USE DEF IndInv
<1>0. WriteTypeOK
    BY DEF TypeOK
<1>1. \A a \in receipts : Rows[a] # 0
    BY DEF Stored
<1>2. CASE UNCHANGED log
    BY <1>1, <1>2, SameRows
<1>3. ASSUME NEW a \in Adds, Persist(a) PROVE \A b \in receipts : Rows'[b] = Rows[b]
  <2>1. Prints(a) \in SUBSET Nat
      BY <1>0, PrintsTypes
  <2>2. \A b \in Adds \ {a} : Rows'[b] = Rows[b]
      BY <1>0, <1>3, <2>1, UpsertRows DEF Persist
  <2>3. a \notin receipts
      BY <1>3 DEF Persist, Stored
  <2> QED
      BY <1>0, <2>2, <2>3 DEF WriteTypeOK
<1>4. ASSUME NEW a \in Adds, ForeignAdd(a) PROVE \A b \in receipts : Rows'[b] = Rows[b]
  <2>1. Prints(a) \in SUBSET Nat
      BY <1>0, PrintsTypes
  <2>2. \A b \in Adds \ {a} : Rows'[b] = Rows[b]
      BY <1>0, <1>4, <2>1, UpsertRows DEF ForeignAdd
  <2> QED
      BY <1>0, <1>4, <2>2 DEF ForeignAdd, WriteTypeOK
<1>5. ASSUME NEW d \in Deletes, DeleteTenant(d) PROVE receipts' = {}
    BY <1>5 DEF DeleteTenant
<1>6. CASE UNCHANGED vars
    BY <1>2, <1>6 DEF vars, db
<1> QED
    BY <1>1, <1>2, <1>3, <1>4, <1>5, <1>6, CommitFrame

\* An Add with a receipt is not stored a second time, by a duplicate that
\* looked for the receipt too early or by another process: the check under the
\* tenant lock (_add_once) settles it.
THEOREM ReceiptsAreFinal == Spec => ReceiptIsFinal
<1>1. IndInv /\ [Next]_vars
        => [\A a \in receipts : Rows[a] # 0 /\ (Rows'[a] = Rows[a] \/ a \notin receipts')]_vars
    BY FinalStep
<1> QED
    BY <1>1, HostedInvariant, PTL DEF Spec, ReceiptIsFinal

-----------------------------------------------------------------------------
(* What a Search ranks.  A commit is known by its place in the log, and    *)
(* the fingerprint the table has by the commit that gave it.               *)

\* The fingerprint, what the clients were told of and what the Searches start
\* from are commits that have happened; an empty table prints as 0, and one
\* that is not empty prints later than the deletes that are not answered yet.
Dated ==
    /\ fp \in 0..Len(log) /\ fp # 1 /\ (fp = 0 => Rows = Empty)
    /\ \A a \in Adds : Rows[a] \in 0..Len(log)
    /\ base \in 1..Len(log)
    /\ \A p \in Searches : floor[p] \in 1..Len(log)
    /\ \A d \in Deletes : erased[d] \in 1..Len(log) /\ (fp # 0 => erased[d] < fp)

\* The Adds somebody may be told of without another commit.
Telling == {a \in Adds : a \in receipts \/ flight[a] = "receipt"}

\* Nobody was or will be told of a commit after i, unless there is one more.
Told(i) == base <= i /\ \A a \in Telling : Due(a) <= i

\* A step that commits nothing moves the history only as far as an Add with a
\* receipt or a delete.
LEMMA HistoryFrame ==
    ASSUME IndInv, Next, UNCHANGED <<log, fp>>
    PROVE  /\ \/ base' = base
              \/ \E a \in receipts : base' = Later(base, Due(a))
              \/ \E d \in Deletes : base' = Later(base, erased[d])
           /\ hidden' = hidden
           /\ \A d \in Deletes : erased'[d] = erased[d] \/ erased'[d] = 1
           /\ \A p \in Searches : floor'[p] = floor[p] \/ floor'[p] = base \/ floor'[p] = 1
<1> DEFINE Moved == \/ base' = base
                    \/ \E a \in receipts : base' = Later(base, Due(a))
                    \/ \E d \in Deletes : base' = Later(base, erased[d])
<1>0. WriteTypeOK /\ BoundTypeOK
    BY DEF IndInv, TypeOK
<1>1. ASSUME NEW q \in Requests, Request(q) \/ Pending(q) \/ PendingEarly(q)
      PROVE  Moved /\ UNCHANGED <<erased, hidden, floor>>
    BY <1>1 DEF Request, Arrive, TakeSlot, Parse, StoredAdd, JoinOrStart, Acknowledge, Pending,
    PendingEarly, history
<1>2. ASSUME NEW a \in Adds, EndFlight(a) PROVE Moved /\ UNCHANGED <<erased, hidden, floor>>
    BY <1>0, <1>2 DEF EndFlight, Finish, IndInv, Stored
<1>3. ASSUME NEW a \in Adds, EnterGate(a) \/ TakeLock(a) \/ GateTimeout(a)
      PROVE  Moved /\ UNCHANGED <<erased, hidden, floor>>
    BY <1>3 DEF EnterGate, TakeLock, GateTimeout, Finish, history
<1>4. ASSUME NEW a \in Adds, CheckReceipt(a) \/ Persist(a) \/ Invalidate(a) \/ RecordReceipt(a)
             \/ Unlock(a) \/ AddFails(a)
      PROVE  Moved /\ UNCHANGED <<erased, hidden, floor>>
    BY <1>4 DEF CheckReceipt, Persist, Invalidate, RecordReceipt, Unlock, AddFails, history
<1>5. ASSUME NEW a \in Adds, ForeignAdd(a) PROVE FALSE
    BY <1>0, <1>5 DEF ForeignAdd, Commit, WriteTypeOK
<1>6. ASSUME NEW d \in Deletes, DeleteTenant(d) PROVE FALSE
    BY <1>0, <1>6 DEF DeleteTenant, Commit, WriteTypeOK
<1>7. ASSUME NEW d \in Deletes, EndDelete(d)
      PROVE  Moved /\ UNCHANGED <<hidden, floor>> /\ \A c \in Deletes : erased'[c] = erased[c] \/ erased'[c] = 1
    BY <1>0, <1>7 DEF EndDelete, BoundTypeOK
<1>8. ASSUME NEW d \in Deletes, QueueDelete(d) \/ LockDelete(d) \/ DropCaches(d)
             \/ UnlockDelete(d) \/ DeleteTimeout(d) \/ DeleteFails(d)
      PROVE  /\ UNCHANGED <<base, hidden, floor>>
             /\ \A c \in Deletes : erased'[c] = erased[c] \/ erased'[c] = 1
    BY <1>0, <1>8 DEF QueueDelete, LockDelete, DropCaches, UnlockDelete, DeleteTimeout, DeleteFails,
    history, BoundTypeOK
<1>9. ASSUME NEW p \in Searches, Search(p)
      PROVE  UNCHANGED <<base, erased, hidden>>
             /\ \A r \in Searches : floor'[r] = floor[r] \/ floor'[r] = base \/ floor'[r] = 1
  <2>1. UNCHANGED <<base, erased, hidden>>
      BY <1>9, SearchFrame
  <2>2. floor' = floor \/ floor' = [floor EXCEPT ![p] = base] \/ floor' = [floor EXCEPT ![p] = 1]
      BY <1>9 DEF Search, BeginSearch, ReadFingerprint, Hit, TakeBuild, Recheck, ReadVersions,
      ReadRows, ReadAll, FileSnapshot, Rank, history
  <2> QED
      BY <1>0, <2>1, <2>2 DEF BoundTypeOK
<1>10. ASSUME Evict \/ BeginShutdown \/ Restart
       PROVE  UNCHANGED <<base, erased, hidden, floor>>
    BY <1>10 DEF Evict, BeginShutdown, Restart, history
<1> QED
    BY <1>1, <1>2, <1>3, <1>4, <1>5, <1>6, <1>7, <1>8, <1>9, <1>10 DEF Next, Flight, Delete

\* Every step keeps the commits dated.
LEMMA DatedStep ==
    ASSUME IndInv, Dated, [Next]_vars
    PROVE  Dated'
<1>0. WriteTypeOK /\ BoundTypeOK /\ Len(log) \in Nat /\ Len(log) > 0 /\ Rows \in Contents
    BY RowsTypes DEF IndInv, TypeOK
<1>1. CASE UNCHANGED vars
    BY <1>1 DEF vars, db, history, Dated, Rows
<1>2. ASSUME Next, UNCHANGED <<log, fp>> PROVE Dated'
  <2>1. Rows' = Rows
      BY <1>2, SameRows
  <2>2. /\ \/ base' = base
           \/ \E a \in receipts : base' = Later(base, Due(a))
           \/ \E d \in Deletes : base' = Later(base, erased[d])
        /\ \A d \in Deletes : erased'[d] = erased[d] \/ erased'[d] = 1
        /\ \A p \in Searches : floor'[p] = floor[p] \/ floor'[p] = base \/ floor'[p] = 1
      BY <1>2, HistoryFrame
  <2>3. base' \in 1..Len(log)
      BY <1>0, <2>2 DEF Dated, Due, Later, WriteTypeOK
  <2>4. \A p \in Searches : floor'[p] \in 1..Len(log)
      BY <1>0, <2>2 DEF Dated
  <2>5. \A d \in Deletes : erased'[d] \in 1..Len(log) /\ (fp # 0 => erased'[d] < fp)
      BY <1>0, <2>2 DEF Dated
  <2> QED
      BY <1>2, <2>1, <2>3, <2>4, <2>5 DEF Dated
<1>3. ASSUME NEW a \in Adds, NEW s \in SUBSET Nat,
             Commit([Rows EXCEPT ![a] = Len(log) + 1], s),
             s = Prints(a),
             base' = base \/ base' = Len(log) + 1, UNCHANGED <<erased, floor>>
      PROVE  Dated'
  <2>1. [Rows EXCEPT ![a] = Len(log) + 1] \in Contents
      BY <1>0 DEF Contents
  <2>2. Len(log') = Len(log) + 1 /\ Rows' = [Rows EXCEPT ![a] = Len(log) + 1]
      BY <1>0, <1>3, <2>1, CommitRows
  <2>3. fp' = Len(log) + 1 \/ (fp' = fp /\ fp # 0)
    <3>1. fp' = Len(log) + 1 \/ (fp' = fp /\ Rows[a] # 0)
        BY <1>3 DEF Commit, Prints
    <3>2. fp = 0 => Rows[a] = 0
        BY DEF Dated, Empty
    <3> QED
        BY <3>1, <3>2
  <2>4. \A b \in Adds : Rows'[b] \in 0..Len(log')
      BY <1>0, <2>2 DEF Dated, Contents
  <2> QED
      BY <1>0, <1>3, <2>2, <2>3, <2>4 DEF Dated
<1>4. ASSUME NEW a \in Adds, Persist(a) PROVE Dated'
  <2>1. Prints(a) \in SUBSET Nat
      BY <1>0, PrintsTypes
  <2> QED
      BY <1>3, <1>4, <2>1 DEF Persist, history
<1>5. ASSUME NEW a \in Adds, ForeignAdd(a) PROVE Dated'
  <2>1. Prints(a) \in SUBSET Nat
      BY <1>0, PrintsTypes
  <2> QED
      BY <1>3, <1>5, <2>1 DEF ForeignAdd
<1>6. ASSUME NEW d \in Deletes, DeleteTenant(d) PROVE Dated'
  <2>1. Empty \in Contents /\ {0} \in SUBSET Nat
      BY DEF Empty, Contents
  <2>2. Len(log') = Len(log) + 1 /\ Rows' = Empty /\ fp' = 0
      BY <1>0, <1>6, <2>1, CommitRows DEF DeleteTenant, Commit
  <2>3. \A b \in Adds : Rows'[b] \in 0..Len(log')
      BY <1>0, <2>2 DEF Empty
  <2>4. \A c \in Deletes : erased'[c] \in 1..Len(log')
      BY <1>0, <1>6, <2>2 DEF DeleteTenant, Dated, BoundTypeOK
  <2> QED
      BY <1>0, <1>6, <2>2, <2>3, <2>4 DEF DeleteTenant, Dated
<1> QED
    BY <1>1, <1>2, <1>4, <1>5, <1>6, CommitFrame

\* An Add becomes known of after the caches were invalidated, or elsewhere.
LEMMA TellingFrame ==
    ASSUME IndInv, Next
    PROVE  \/ Telling' \subseteq Telling
           \/ \E a \in Adds : Invalidate(a) \/ ForeignAdd(a)
<1>0. WriteTypeOK
    BY DEF IndInv, TypeOK
<1>1. ASSUME NEW q \in Requests, Request(q) \/ Pending(q) \/ PendingEarly(q)
      PROVE  Telling' \subseteq Telling
  <2>1. receipts' = receipts
      BY <1>1, RequestFrame DEF db
  <2>2. flight' = flight \/ flight' = [flight EXCEPT ![AddOf[q]] = "enter"]
      BY <1>1 DEF Request, Arrive, TakeSlot, Parse, StoredAdd, JoinOrStart, Acknowledge, Pending,
      PendingEarly
  <2> QED
      BY <1>0, <2>1, <2>2 DEF Telling, WriteTypeOK
<1>2. ASSUME NEW a \in Adds, EnterGate(a) \/ TakeLock(a) \/ GateTimeout(a) \/ EndFlight(a)
             \/ CheckReceipt(a) \/ Unlock(a) \/ AddFails(a) \/ Persist(a)
      PROVE  Telling' \subseteq Telling
  <2>1. receipts' = receipts
      BY <1>2 DEF EnterGate, TakeLock, GateTimeout, EndFlight, CheckReceipt, Unlock, AddFails,
      Persist, db
  <2>2. \E s \in FlightSteps \ {"receipt"} : flight' = [flight EXCEPT ![a] = s]
      BY <1>2 DEF EnterGate, TakeLock, GateTimeout, EndFlight, CheckReceipt, Unlock, AddFails,
      Persist, Finish, Fly, FlightSteps
  <2> QED
      BY <1>0, <2>1, <2>2 DEF Telling, WriteTypeOK
<1>3. ASSUME NEW a \in Adds, RecordReceipt(a) PROVE Telling' \subseteq Telling
    BY <1>0, <1>3 DEF RecordReceipt, Fly, Telling, WriteTypeOK
<1>4. ASSUME NEW d \in Deletes, Delete(d) \/ DeleteTimeout(d) \/ DeleteFails(d)
      PROVE  Telling' \subseteq Telling
    BY <1>4 DEF Delete, QueueDelete, LockDelete, DeleteTenant, DropCaches, UnlockDelete,
    EndDelete, DeleteTimeout, DeleteFails, db, adds, Telling
<1>5. ASSUME NEW p \in Searches, Search(p) PROVE Telling' \subseteq Telling
    BY <1>5, SearchFrame DEF db, adds, Telling
<1>6. ASSUME Evict \/ BeginShutdown PROVE Telling' \subseteq Telling
    BY <1>6 DEF Evict, BeginShutdown, db, adds, Telling
<1>7. ASSUME Restart PROVE Telling' \subseteq Telling
    BY <1>7 DEF Restart, db, Telling
<1> QED
    BY <1>1, <1>2, <1>3, <1>4, <1>5, <1>6, <1>7 DEF Next, Flight

\* Until the caches are invalidated or the fingerprint moves, nobody is told
\* of a commit that a snapshot of this fingerprint lacks.
LEMMA ToldStep ==
    ASSUME IndInv, Dated, [Next]_vars, fp' = fp, fp # 0, NEW i \in Nat, fp <= i, Told(i),
           \A a \in Adds : ~Invalidate(a)
    PROVE  Told(i)'
<1>0. WriteTypeOK /\ BoundTypeOK /\ Len(log) \in Nat /\ Len(log) > 0 /\ Rows \in Contents
    BY RowsTypes DEF IndInv, TypeOK
<1>1. CASE UNCHANGED vars
    BY <1>1 DEF vars, db, adds, history, Told, Telling, Due, Rows
<1>2. ASSUME NEW a \in Adds, ForeignAdd(a) PROVE Told(i)'
  <2>1. [Rows EXCEPT ![a] = Len(log) + 1] \in Contents /\ Prints(a) \in SUBSET Nat
      BY <1>0, PrintsTypes DEF Contents
  <2>2. Rows' = [Rows EXCEPT ![a] = Len(log) + 1]
      BY <1>0, <1>2, <2>1, CommitRows DEF ForeignAdd
  <2>3. hidden' = hidden \cup {Len(log) + 1} /\ base' = base
      BY <1>2 DEF ForeignAdd
  <2>4. Due(a)' = 0
      BY <1>0, <2>2, <2>3 DEF Due, Contents
  <2>5. \A b \in Adds \ {a} : Rows'[b] = Rows[b] /\ Rows[b] # Len(log) + 1
      BY <1>0, <2>2 DEF Dated, Contents
  <2>6. \A b \in Adds \ {a} : Due(b)' = Due(b)
      BY <2>3, <2>5 DEF Due
  <2>7. Telling' \subseteq Telling \cup {a}
      BY <1>0, <1>2 DEF ForeignAdd, adds, Telling, WriteTypeOK
  <2>8. Telling \subseteq Adds
      BY DEF Telling
  <2> QED
      BY <2>3, <2>4, <2>6, <2>7, <2>8 DEF Told
<1>3. ASSUME NEW d \in Deletes, DeleteTenant(d) PROVE FALSE
    BY <1>3 DEF DeleteTenant, Commit
<1>4. ASSUME Next, UNCHANGED <<log, fp>>, \A a \in Adds : ~ForeignAdd(a) PROVE Told(i)'
  <2>1. Rows' = Rows /\ Telling' \subseteq Telling
      BY <1>4, SameRows, TellingFrame
  <2>2. /\ \/ base' = base
           \/ \E a \in receipts : base' = Later(base, Due(a))
           \/ \E d \in Deletes : base' = Later(base, erased[d])
        /\ hidden' = hidden
      BY <1>4, HistoryFrame
  <2>5. \A a \in Adds : Due(a)' = Due(a)
      BY <2>1, <2>2 DEF Due
  <2>3. \A a \in receipts : a \in Telling
      BY <1>0 DEF Telling, WriteTypeOK
  <2>4. base' <= i
      BY <1>0, <2>2, <2>3 DEF Told, Dated, Later
  <2> QED
      BY <2>1, <2>4, <2>5 DEF Told, Telling
<1>5. ASSUME NEW a \in Adds, Persist(a), Next, \A b \in Adds : ~ForeignAdd(b) PROVE Told(i)'
  <2>1. Prints(a) \in SUBSET Nat
      BY <1>0, PrintsTypes
  <2>2. \A b \in Adds \ {a} : Rows'[b] = Rows[b]
      BY <1>0, <1>5, <2>1, UpsertRows DEF Persist
  <2>3. a \notin Telling
      BY <1>5 DEF Persist, Telling, IndInv, Stored
  <2>4. Telling' \subseteq Telling
      BY <1>5, TellingFrame
  <2>5. \A b \in Adds \ {a} : Due(b)' = Due(b)
      BY <1>5, <2>2 DEF Persist, history, Due
  <2> QED
      BY <1>5, <2>3, <2>4, <2>5 DEF Persist, history, Told, Telling
<1> QED
    BY <1>1, <1>2, <1>3, <1>4, <1>5, CommitFrame

\* The snapshot of commit i, in entry k under fingerprint f and epoch e, is no
\* older than anybody needs who takes it for current: whoever holds the entry
\* or will be given it, while the epoch and the fingerprint are current; who
\* read that fingerprint while the epoch is; who read that epoch to build while
\* the fingerprint is.
Covers(k, f, e, i) ==
    /\ e = cache[k].epoch /\ f = fp =>
         /\ k = Len(cache) => Told(i)
         /\ \A p \in Searches : spc[p] # "idle" /\ entry[p] = k => floor[p] <= i
    /\ \A p \in Searches :
         spc[p] = "state" /\ entry[p] = k /\ read[p] = f /\ e = cache[k].epoch => floor[p] <= i
    /\ \A p \in Searches :
         spc[p] = "recheck" /\ entry[p] = k /\ epoch[p] = e /\ f = fp => floor[p] <= i

\* What a Search does to the entries.
LEMMA SearchCache ==
    ASSUME CacheTypeOK, NEW p \in Searches, Search(p)
    PROVE  /\ Len(cache') = Len(cache)
           /\ \A k \in 1..Len(cache) :
                /\ cache'[k].epoch = cache[k].epoch
                /\ k # entry[p] => cache'[k] = cache[k]
                /\ \/ cache'[k].state = cache[k].state
                   \/ /\ FileSnapshot(p) /\ k = entry[p]
                      /\ cache'[k].state = [rows |-> found[p], fp |-> read[p], epoch |-> epoch[p]]
<1>0. \A k \in 1..Len(cache) : cache[k] \in Entries
    BY DEF CacheTypeOK
<1>1. CASE cache' = cache
    BY <1>1
<1>2. CASE TakeBuild(p)
    BY <1>0, <1>2 DEF TakeBuild, CacheTypeOK, Entries
<1>3. CASE cache' = [cache EXCEPT ![entry[p]].building = Nil]
    BY <1>0, <1>3 DEF CacheTypeOK, Entries
<1>4. CASE FileSnapshot(p)
    BY <1>0, <1>4 DEF FileSnapshot, CacheTypeOK, Entries
<1> QED
    BY <1>1, <1>2, <1>3, <1>4 DEF Search, BeginSearch, ReadFingerprint, Hit, Recheck, ReadVersions,
    ReadRows, ReadAll, Rank

\* No step but the end of the process takes from a snapshot whom it covers.
LEMMA CoversStep ==
    ASSUME IndInv, Dated, [Next]_vars, ~Restart,
           NEW k \in 1..Len(cache), NEW f \in Nat, NEW e \in Nat, NEW i \in Nat,
           f # 0, f <= i, f <= Len(log), e <= cache[k].epoch, Covers(k, f, e, i)
    PROVE  Covers(k, f, e, i)'
<1>0. WriteTypeOK /\ CacheTypeOK /\ BoundTypeOK /\ Len(log) \in Nat /\ Len(cache) \in Nat
    BY RowsTypes DEF IndInv, TypeOK, CacheTypeOK
<1>1. CASE UNCHANGED vars
    BY <1>1 DEF vars, db, adds, caches, history, Covers, Told, Telling, Due, Rows
<1>2. ASSUME Next, UNCHANGED <<caches, floor>>, \A a \in Adds : ~Invalidate(a)
      PROVE  Covers(k, f, e, i)'
  <2>1. f = fp' => f = fp
    <3>1. fp' = fp \/ fp' = 0 \/ fp' = Len(log) + 1
        BY <1>2, CommitFrame DEF Persist, ForeignAdd, DeleteTenant, Commit, Prints
    <3> QED
        BY <1>0, <3>1
  <2>2. f = fp' /\ Told(i) => Told(i)'
      BY <1>2, <2>1, ToldStep
  <2> QED
      BY <1>2, <2>1, <2>2 DEF Covers, caches
<1>3. ASSUME NEW a \in Adds, Invalidate(a) PROVE Covers(k, f, e, i)'
  <2>0. \A j \in 1..Len(cache) : cache[j] \in Entries
      BY <1>0 DEF CacheTypeOK
  <2>1. Len(cache') = Len(cache) /\ cache'[k].epoch = IF k = Len(cache) THEN cache[k].epoch + 1 ELSE cache[k].epoch
      BY <1>0, <1>3, <2>0 DEF Invalidate, CacheTypeOK, Entries
  <2>2. k = Len(cache) => e # cache'[k].epoch
      BY <1>0, <2>0, <2>1 DEF Entries
  <2> QED
      BY <1>3, <2>1, <2>2 DEF Invalidate, db, history, Covers
<1>4. ASSUME DropEntry, UNCHANGED <<db, spc, entry, read, epoch, floor>> PROVE Covers(k, f, e, i)'
  <2>1. Len(cache') = Len(cache) + 1
      BY <1>0, <1>4 DEF DropEntry, CacheTypeOK
  <2>2. \A p \in Searches : spc[p] # "idle" /\ entry[p] = k => cache'[k] = cache[k]
      BY <1>0, <1>4 DEF DropEntry, CacheTypeOK
  <2> QED
      BY <1>0, <1>4, <2>1, <2>2 DEF db, Covers
<1>5. ASSUME NEW p \in Searches, Search(p) PROVE Covers(k, f, e, i)'
  <2>1. fp' = fp /\ (Told(i) => Told(i)')
      BY <1>5, SearchFrame DEF db, adds, Told, Telling, Due, Rows
  <2>2. Len(cache') = Len(cache) /\ cache'[k].epoch = cache[k].epoch
      BY <1>0, <1>5, SearchCache
  <2>3. CASE BeginSearch(p)
      BY <1>0, <2>1, <2>2, <2>3 DEF BeginSearch, Seek, Covers, Told, CacheTypeOK, BoundTypeOK
  <2>4. CASE ReadFingerprint(p)
      BY <1>0, <2>1, <2>2, <2>4 DEF ReadFingerprint, Seek, Covers, history, CacheTypeOK
  <2>5. CASE Hit(p)
      BY <1>0, <2>1, <2>2, <2>5 DEF Hit, Seek, Covers, history, CacheTypeOK
  <2>6. CASE TakeBuild(p)
      BY <1>0, <2>1, <2>2, <2>6 DEF TakeBuild, Seek, Covers, history, CacheTypeOK
  <2>7. CASE Recheck(p)
      BY <1>0, <2>1, <2>2, <2>7 DEF Recheck, Seek, Covers, history, CacheTypeOK
  <2>8. CASE ReadVersions(p)
      BY <1>0, <2>1, <2>2, <2>8 DEF ReadVersions, Seek, Covers, history, CacheTypeOK
  <2>9. CASE ReadRows(p)
      BY <1>0, <2>1, <2>2, <2>9 DEF ReadRows, Seek, Covers, history, CacheTypeOK
  <2>10. CASE ReadAll(p)
      BY <1>0, <2>1, <2>2, <2>10 DEF ReadAll, Seek, Covers, history, CacheTypeOK
  <2>11. CASE FileSnapshot(p)
      BY <1>0, <2>1, <2>2, <2>11 DEF FileSnapshot, Seek, Covers, history, CacheTypeOK
  <2>12. CASE Rank(p)
      BY <1>0, <2>1, <2>2, <2>12 DEF Rank, Seek, Covers, CacheTypeOK, BoundTypeOK
  <2> QED
      BY <1>5, <2>3, <2>4, <2>5, <2>6, <2>7, <2>8, <2>9, <2>10, <2>11, <2>12 DEF Search
<1>6. ASSUME NEW q \in Requests, Request(q) \/ Pending(q) \/ PendingEarly(q)
      PROVE  UNCHANGED <<caches, floor>>
    BY <1>6, RequestFrame
<1>7. ASSUME NEW a \in Adds, Flight(a) \/ GateTimeout(a) \/ AddFails(a) \/ ForeignAdd(a)
      PROVE  Invalidate(a) \/ UNCHANGED <<caches, floor>>
    BY <1>7 DEF Flight, EnterGate, TakeLock, CheckReceipt, Persist, RecordReceipt, Unlock, EndFlight,
    GateTimeout, AddFails, ForeignAdd, Finish, history
<1>8. ASSUME NEW d \in Deletes, Delete(d) \/ DeleteTimeout(d) \/ DeleteFails(d)
      PROVE  DropCaches(d) \/ UNCHANGED <<caches, floor>>
    BY <1>8 DEF Delete, QueueDelete, LockDelete, DeleteTenant, UnlockDelete, EndDelete,
    DeleteTimeout, DeleteFails, history
<1>9. ASSUME NEW d \in Deletes, DropCaches(d) PROVE Covers(k, f, e, i)'
    BY <1>4, <1>9 DEF DropCaches, history
<1>10. CASE Evict
    BY <1>4, <1>10 DEF Evict, history
<1>11. CASE BeginShutdown
    BY <1>2, <1>3, <1>11 DEF BeginShutdown, history, Next
<1>12. CASE \E a \in Adds : Invalidate(a)
    BY <1>3, <1>12
<1> QED
    BY <1>1, <1>2, <1>5, <1>6, <1>7, <1>8, <1>9, <1>10, <1>11, <1>12 DEF Next

\* R is what the table held at a commit that covers whoever may take it.
Taken(k, R, f, e) ==
    /\ f = 0 => R = Empty
    /\ f # 0 => \E i \in f .. Len(log) : log[i] = R /\ Covers(k, f, e, i)

\* R is in the entry, or about to be filed there.
Kept(k, R, f, e) ==
    \/ /\ cache[k].state # Nil
       /\ cache[k].state.rows = R /\ cache[k].state.fp = f /\ cache[k].state.epoch = e
    \/ \E p \in Searches :
          /\ entry[p] = k /\ read[p] = f /\ epoch[p] = e
          /\ \/ spc[p] = "fetch" /\ rows[p] = R
             \/ spc[p] = "file" /\ found[p] = R

\* Every snapshot was taken at one moment, and covers whoever may take it.
Snapped ==
    \A k \in 1..Len(cache), R \in Contents, f \in Nat, e \in Nat :
        Kept(k, R, f, e) => e <= cache[k].epoch /\ f <= Len(log) /\ Taken(k, R, f, e)

\* Who builds has the entry's build lock and an epoch from before, and the
\* snapshot it extends has only rows that it saw.
Building == {"recheck", "versions", "fetch", "all", "file"}
BuildsAlone ==
    \A p \in Searches :
        /\ spc[p] \in Building => cache[entry[p]].building = p /\ epoch[p] <= cache[entry[p]].epoch
        /\ spc[p] = "fetch" => \A a \in Adds : State(p).rows[a] \in {0, rows[p][a]}

\* R is what the Search has read, or an empty table, and what it will rank.
Ranks(p, R) ==
    \/ spc[p] = "fetch" /\ rows[p] = R
    \/ spc[p] \in {"file", "rank"} /\ found[p] = R
    \/ spc[p] = "state" /\ read[p] = 0 /\ R = Empty

\* R is what the table held since the Search began.
Current(p, R) == \E i \in floor[p] .. Len(log) : log[i] = R

RanksCurrent == \A p \in Searches, R \in Contents : Ranks(p, R) => Current(p, R)

FreshInv == Dated /\ Snapped /\ BuildsAlone /\ RanksCurrent

\* The log only grows.
LEMMA LogGrows ==
    ASSUME WriteTypeOK, [Next]_vars
    PROVE  Len(log') \in Nat /\ Len(log) <= Len(log') /\ \A i \in 1..Len(log) : log'[i] = log[i]
<1>1. CASE UNCHANGED log
    BY <1>1 DEF WriteTypeOK
<1>2. CASE \E c : log' = Append(log, c)
    BY <1>2 DEF WriteTypeOK
<1> QED
    BY <1>1, <1>2, CommitFrame DEF Persist, ForeignAdd, DeleteTenant, Commit, vars, db

\* The table as it is now is a snapshot that covers everybody.
LEMMA TakenNow ==
    ASSUME WriteTypeOK, Dated, NEW k, NEW e
    PROVE  Taken(k, Rows, fp, e)
<1>1. Len(log) \in Nat /\ fp \in 0..Len(log) /\ (fp = 0 => Rows = Empty) /\ log[Len(log)] = Rows
    BY DEF Dated, WriteTypeOK, Rows
<1>2. Covers(k, fp, e, Len(log))
    BY <1>1 DEF Dated, Covers, Told, Telling, Due
<1> QED
    BY <1>1, <1>2 DEF Taken

\* A snapshot that covers whom it should goes on covering them.
LEMMA TakenStep ==
    ASSUME IndInv, Dated, [Next]_vars, ~Restart,
           NEW k \in 1..Len(cache), NEW R, NEW f \in Nat, NEW e \in Nat,
           e <= cache[k].epoch, f <= Len(log), Taken(k, R, f, e)
    PROVE  Taken(k, R, f, e)' /\ f <= Len(log')
<1>0. /\ WriteTypeOK /\ Len(log) \in Nat /\ Len(log') \in Nat /\ Len(log) <= Len(log')
      /\ \A i \in 1..Len(log) : log'[i] = log[i]
    BY RowsTypes, LogGrows DEF IndInv, TypeOK
<1>1. CASE f = 0
    BY <1>0, <1>1 DEF Taken
<1>2. CASE f # 0
  <2>1. PICK i \in f .. Len(log) : log[i] = R /\ Covers(k, f, e, i)
      BY <1>2 DEF Taken
  <2>2. Covers(k, f, e, i)'
      BY <1>0, <1>2, <2>1, CoversStep
  <2>3. i \in f .. Len(log') /\ log'[i] = R
      BY <1>0, <1>2, <2>1
  <2> QED
      BY <1>0, <1>2, <2>2, <2>3 DEF Taken
<1> QED
    BY <1>1, <1>2

\* The rows that are fetched, with those of the snapshot they are added to, are
\* the rows whose versions were read.
LEMMA FetchedRows ==
    ASSUME CacheTypeOK, BuildsAlone, NEW p \in Searches, ReadRows(p)
    PROVE  \/ spc' = [spc EXCEPT ![p] = "all"] /\ found' = found
           \/ spc' = [spc EXCEPT ![p] = "file"] /\ found' = [found EXCEPT ![p] = rows[p]]
<1>1. \A a \in Adds : State(p).rows[a] \in {0, rows[p][a]}
    BY DEF ReadRows, BuildsAlone
<1>2. rows[p] \in Contents
    BY DEF CacheTypeOK
<1>3. ASSUME \A a \in Missing(p) : Rows[a] = rows[p][a]
      PROVE  [a \in Adds |-> IF a \in Missing(p) THEN Rows[a] ELSE State(p).rows[a]] = rows[p]
    BY <1>1, <1>2, <1>3 DEF Missing, Contents
<1> QED
    BY <1>3 DEF ReadRows, Seek

\* A snapshot that is there after a step was there before it, or is the table
\* as it is, read by a Search that builds.
LEMMA KeptFrame ==
    ASSUME IndInv, BuildsAlone, [Next]_vars,
           NEW k \in 1..Len(cache'), NEW R, NEW f, NEW e, Kept(k, R, f, e)'
    PROVE  /\ ~Restart
           /\ k \in 1..Len(cache) /\ cache[k].epoch <= cache'[k].epoch
           /\ \/ Kept(k, R, f, e)
              \/ R = Rows /\ f = fp /\ e <= cache[k].epoch /\ UNCHANGED <<log, fp>>
<1>0. WriteTypeOK /\ CacheTypeOK /\ Len(cache) \in Nat
    BY DEF IndInv, TypeOK, CacheTypeOK
<1>02. \A j \in 1..Len(cache) : cache[j] \in Entries
    BY <1>0 DEF CacheTypeOK
<1>03. \A j \in 1..Len(cache) : cache[j].epoch \in Nat
    BY <1>02 DEF Entries
<1>1. ~Restart
  <2> SUFFICES ASSUME Restart PROVE FALSE
      OBVIOUS
  <2>1. Len(cache') = 1 /\ cache'[1] = Fresh
      BY DEF Restart
  <2>2. \A p \in Searches : spc'[p] = "idle"
      BY DEF Restart
  <2> QED
      BY <2>1, <2>2 DEF Kept, Fresh
<1>2. CASE UNCHANGED caches
    BY <1>0, <1>03, <1>1, <1>2 DEF caches, Kept
<1>3. ASSUME NEW a \in Adds, Invalidate(a)
      PROVE  k \in 1..Len(cache) /\ cache[k].epoch <= cache'[k].epoch /\ Kept(k, R, f, e)
  <2>1. k \in 1..Len(cache)
      BY <1>0, <1>3 DEF Invalidate, CacheTypeOK
  <2>2. cache'[k].state = cache[k].state /\ cache[k].epoch <= cache'[k].epoch
      BY <1>0, <1>02, <1>03, <1>3, <2>1 DEF Invalidate, CacheTypeOK, Entries
  <2> QED
      BY <1>3, <2>1, <2>2 DEF Invalidate, Kept
<1>4. ASSUME DropEntry, UNCHANGED <<spc, entry, read, epoch, rows, found>>
      PROVE  k \in 1..Len(cache) /\ cache[k].epoch <= cache'[k].epoch /\ Kept(k, R, f, e)
  <2>1. Len(cache') = Len(cache) + 1 /\ cache'[Len(cache) + 1] = Fresh
      BY <1>0, <1>4 DEF DropEntry, CacheTypeOK
  <2>2. \A j \in 1..Len(cache) :
            cache'[j] = IF \E p \in Searches : spc[p] # "idle" /\ entry[p] = j THEN cache[j] ELSE Fresh
      BY <1>0, <1>4 DEF DropEntry, CacheTypeOK
  <2>3. \A p \in Searches : entry[p] \in 1..Len(cache)
      BY <1>0 DEF CacheTypeOK
  <2>4. k # Len(cache) + 1
      BY <1>0, <1>4, <2>1, <2>3 DEF Kept, Fresh
  <2>5. k \in 1..Len(cache)
      BY <1>0, <2>1, <2>4
  <2>6. cache'[k] = cache[k]
      BY <1>4, <2>2, <2>5 DEF Kept, Fresh
  <2> QED
      BY <1>03, <1>4, <2>5, <2>6 DEF Kept
<1>5. ASSUME NEW p \in Searches, Search(p)
      PROVE  /\ k \in 1..Len(cache) /\ cache[k].epoch <= cache'[k].epoch
             /\ \/ Kept(k, R, f, e)
                \/ R = Rows /\ f = fp /\ e <= cache[k].epoch /\ UNCHANGED <<log, fp>>
  <2>1. k \in 1..Len(cache) /\ cache[k].epoch <= cache'[k].epoch
    <3>1. Len(cache') = Len(cache) /\ \A j \in 1..Len(cache) : cache'[j].epoch = cache[j].epoch
        BY <1>0, <1>5, SearchCache
    <3> QED
        BY <1>03, <3>1
  <2>2. UNCHANGED <<log, fp>>
      BY <1>5, SearchFrame DEF db
  <2>3. CASE FileSnapshot(p)
    <3>1. cache'[k].state = cache[k].state \/ (k = entry[p] /\ spc[p] = "file"
            /\ cache'[k].state = [rows |-> found[p], fp |-> read[p], epoch |-> epoch[p]])
        BY <1>0, <1>5, <2>1, <2>3, SearchCache DEF FileSnapshot
    <3> QED
        BY <1>0, <2>1, <2>3, <3>1 DEF FileSnapshot, Seek, Kept, CacheTypeOK
  <2>4. ASSUME ~FileSnapshot(p) PROVE cache'[k].state = cache[k].state
      BY <1>0, <1>5, <2>1, <2>4, SearchCache
  <2>5. CASE BeginSearch(p)
      BY <1>0, <2>1, <2>3, <2>4, <2>5 DEF BeginSearch, Seek, Kept, CacheTypeOK
  <2>6. CASE ReadFingerprint(p)
      BY <1>0, <2>1, <2>3, <2>4, <2>6 DEF ReadFingerprint, Seek, Kept, CacheTypeOK
  <2>7. CASE Hit(p)
      BY <1>0, <2>1, <2>3, <2>4, <2>7 DEF Hit, Seek, Kept, CacheTypeOK
  <2>8. CASE TakeBuild(p)
      BY <1>0, <2>1, <2>3, <2>4, <2>8 DEF TakeBuild, Seek, Kept, CacheTypeOK
  <2>9. CASE Recheck(p)
      BY <1>0, <2>1, <2>3, <2>4, <2>9 DEF Recheck, Seek, Kept, CacheTypeOK
  <2>10. CASE ReadVersions(p)
      BY <1>0, <2>1, <2>2, <2>3, <2>4, <2>10 DEF ReadVersions, Seek, Kept, CacheTypeOK, BuildsAlone,
      Building
  <2>11. CASE ReadRows(p)
    <3>1. \/ spc' = [spc EXCEPT ![p] = "all"] /\ found' = found
          \/ spc' = [spc EXCEPT ![p] = "file"] /\ found' = [found EXCEPT ![p] = rows[p]]
        BY <1>0, <2>11, FetchedRows
    <3> QED
        BY <1>0, <2>1, <2>3, <2>4, <2>11, <3>1 DEF ReadRows, Seek, Kept, CacheTypeOK
  <2>12. CASE ReadAll(p)
      BY <1>0, <2>1, <2>2, <2>3, <2>4, <2>12 DEF ReadAll, Seek, Kept, CacheTypeOK, BuildsAlone,
      Building
  <2>13. CASE Rank(p)
      BY <1>0, <2>1, <2>3, <2>4, <2>13 DEF Rank, Seek, Kept, CacheTypeOK
  <2> QED
      BY <1>5, <2>3, <2>5, <2>6, <2>7, <2>8, <2>9, <2>10, <2>11, <2>12, <2>13 DEF Search
<1>6. CASE UNCHANGED vars
    BY <1>2, <1>6 DEF vars
<1>7. ASSUME NEW q \in Requests, Request(q) \/ Pending(q) \/ PendingEarly(q) PROVE UNCHANGED caches
    BY <1>7, RequestFrame
<1>8. ASSUME NEW d \in Deletes, DropCaches(d)
      PROVE  k \in 1..Len(cache) /\ cache[k].epoch <= cache'[k].epoch /\ Kept(k, R, f, e)
    BY <1>4, <1>8 DEF DropCaches
<1>9. ASSUME Evict PROVE k \in 1..Len(cache) /\ cache[k].epoch <= cache'[k].epoch /\ Kept(k, R, f, e)
    BY <1>4, <1>9 DEF Evict
<1>10. ASSUME BeginShutdown PROVE UNCHANGED caches
    BY <1>10 DEF BeginShutdown
<1> QED
    BY <1>1, <1>2, <1>3, <1>5, <1>6, <1>7, <1>8, <1>9, <1>10, FlightFrame, DeleteFrame DEF Next

\* Every step leaves every snapshot one of one moment, and covering.
LEMMA SnappedStep ==
    ASSUME IndInv, FreshInv, Dated', [Next]_vars
    PROVE  Snapped'
<1> SUFFICES ASSUME NEW k \in 1..Len(cache'), NEW R \in Contents, NEW f \in Nat, NEW e \in Nat,
                    Kept(k, R, f, e)'
             PROVE  e <= cache'[k].epoch /\ f <= Len(log') /\ Taken(k, R, f, e)'
    BY DEF Snapped
<1> USE DEF FreshInv
<1>1. WriteTypeOK /\ CacheTypeOK /\ WriteTypeOK' /\ CacheTypeOK'
    BY HostedStep DEF IndInv, TypeOK
<1>2. /\ ~Restart
      /\ k \in 1..Len(cache) /\ cache[k].epoch <= cache'[k].epoch
      /\ \/ Kept(k, R, f, e)
         \/ R = Rows /\ f = fp /\ e <= cache[k].epoch /\ UNCHANGED <<log, fp>>
    BY KeptFrame
<1>3. cache[k].epoch \in Nat /\ cache'[k].epoch \in Nat
  <2>1. cache[k] \in Entries /\ cache'[k] \in Entries
      BY <1>1, <1>2 DEF CacheTypeOK
  <2> QED
      BY <2>1 DEF Entries
<1>4. e <= cache[k].epoch /\ f <= Len(log) /\ Taken(k, R, f, e)
  <2>1. CASE Kept(k, R, f, e)
      BY <1>2, <2>1 DEF Snapped
  <2>2. CASE R = Rows /\ f = fp /\ e <= cache[k].epoch
      BY <1>1, <2>2, TakenNow DEF Dated, WriteTypeOK
  <2> QED
      BY <1>2, <2>1, <2>2
<1> QED
    BY <1>2, <1>3, <1>4, TakenStep

\* A Search holds the build lock from the moment it reads the epoch until it
\* has filed its snapshot.
LEMMA BuildsStep ==
    ASSUME IndInv, BuildsAlone, [Next]_vars
    PROVE  BuildsAlone'
<1>0. WriteTypeOK /\ CacheTypeOK /\ Len(cache) \in Nat
    BY DEF IndInv, TypeOK, CacheTypeOK
<1>1. \A j \in 1..Len(cache) : cache[j] \in Entries
    BY <1>0 DEF CacheTypeOK
<1>2. \A j \in 1..Len(cache) : cache[j].epoch \in Nat
    BY <1>1 DEF Entries
<1>3. ASSUME UNCHANGED caches PROVE BuildsAlone'
    BY <1>3 DEF caches, BuildsAlone, State
<1>4. ASSUME NEW a \in Adds, Invalidate(a) PROVE BuildsAlone'
  <2>1. \A j \in 1..Len(cache) : /\ cache'[j].state = cache[j].state /\ cache'[j].building = cache[j].building
                                 /\ cache'[j].epoch = cache[j].epoch \/ cache'[j].epoch = cache[j].epoch + 1
      BY <1>0, <1>1, <1>4 DEF Invalidate, CacheTypeOK, Entries
  <2> QED
      BY <1>0, <1>2, <1>4, <2>1 DEF Invalidate, BuildsAlone, State, CacheTypeOK
<1>5. ASSUME DropEntry, UNCHANGED <<spc, entry, read, epoch, rows, found>> PROVE BuildsAlone'
  <2>1. \A p \in Searches : spc[p] # "idle" => cache'[entry[p]] = cache[entry[p]]
      BY <1>0, <1>5 DEF DropEntry, CacheTypeOK
  <2> QED
      BY <1>5, <2>1 DEF BuildsAlone, Building, State
<1>6. ASSUME NEW p \in Searches, Search(p) PROVE BuildsAlone'
  <2>0. /\ Len(cache') = Len(cache)
        /\ \A k \in 1..Len(cache) : cache'[k].epoch = cache[k].epoch
                                    /\ (k # entry[p] => cache'[k] = cache[k])
      BY <1>0, <1>6, SearchCache
  <2>2. CASE FileSnapshot(p)
    <3>1. \A r \in Searches \ {p} : spc[r] \in Building => entry[r] # entry[p]
        BY <2>2 DEF FileSnapshot, BuildsAlone, Building
    <3> QED
        BY <1>0, <2>0, <2>2, <3>1 DEF FileSnapshot, Seek, BuildsAlone, Building, State, CacheTypeOK
  <2>4. CASE BeginSearch(p)
      BY <1>0, <2>4 DEF BeginSearch, Seek, BuildsAlone, Building, State, CacheTypeOK
  <2>5. CASE ReadFingerprint(p)
      BY <1>0, <2>5 DEF ReadFingerprint, Seek, BuildsAlone, Building, State, CacheTypeOK
  <2>6. CASE Hit(p)
      BY <1>0, <2>6 DEF Hit, Seek, BuildsAlone, Building, State, CacheTypeOK
  <2>7. CASE TakeBuild(p)
    <3>1. \A r \in Searches \ {p} : spc[r] \in Building => entry[r] # entry[p]
        BY <2>7, HostedClients DEF TakeBuild, BuildsAlone
    <3>2. cache'[entry[p]].building = p /\ cache'[entry[p]].epoch = epoch'[p]
        BY <1>0, <1>1, <2>7 DEF TakeBuild, CacheTypeOK, Entries
    <3>3. epoch'[p] <= cache'[entry[p]].epoch
        BY <1>0, <1>2, <2>0, <3>2 DEF CacheTypeOK
    <3> QED
        BY <1>0, <2>0, <2>7, <3>1, <3>2, <3>3 DEF TakeBuild, Seek, BuildsAlone, Building, State, CacheTypeOK
  <2>8. CASE Recheck(p)
    <3>1. \A r \in Searches \ {p} : spc[r] \in Building => entry[r] # entry[p]
        BY <2>8 DEF Recheck, BuildsAlone, Building
    <3> QED
        BY <1>0, <2>0, <2>8, <3>1 DEF Recheck, Seek, BuildsAlone, Building, State, CacheTypeOK
  <2>9. CASE ReadVersions(p)
      BY <1>0, <2>9 DEF ReadVersions, Seek, BuildsAlone, Building, State, CacheTypeOK
  <2>10. CASE ReadRows(p)
      BY <1>0, <2>10 DEF ReadRows, Seek, BuildsAlone, Building, State, CacheTypeOK
  <2>11. CASE ReadAll(p)
      BY <1>0, <2>11 DEF ReadAll, Seek, BuildsAlone, Building, State, CacheTypeOK
  <2>12. CASE Rank(p)
      BY <1>0, <2>12 DEF Rank, Seek, BuildsAlone, Building, State, CacheTypeOK
  <2> QED
      BY <1>6, <2>2, <2>4, <2>5, <2>6, <2>7, <2>8, <2>9, <2>10, <2>11, <2>12 DEF Search
<1>7. CASE UNCHANGED vars
    BY <1>3, <1>7 DEF vars
<1>8. ASSUME NEW q \in Requests, Request(q) \/ Pending(q) \/ PendingEarly(q) PROVE UNCHANGED caches
    BY <1>8, RequestFrame
<1>9. ASSUME NEW d \in Deletes, DropCaches(d) PROVE BuildsAlone'
    BY <1>5, <1>9 DEF DropCaches
<1>10. ASSUME Evict PROVE BuildsAlone'
    BY <1>5, <1>10 DEF Evict
<1>11. ASSUME BeginShutdown PROVE BuildsAlone'
    BY <1>3, <1>11 DEF BeginShutdown
<1>12. ASSUME Restart PROVE BuildsAlone'
    BY <1>12 DEF Restart, BuildsAlone, Building
<1> QED
    BY <1>3, <1>4, <1>6, <1>7, <1>8, <1>9, <1>10, <1>11, <1>12, FlightFrame, DeleteFrame DEF Next

\* What a Search takes from a snapshot, it may rank: the snapshot covers it.
LEMMA SnapshotServes ==
    ASSUME IndInv, FreshInv, NEW p \in Searches, State(p) # Nil,
           \/ spc[p] = "state" /\ State(p).epoch = cache[entry[p]].epoch /\ State(p).fp = read[p]
           \/ spc[p] = "recheck" /\ State(p).epoch = epoch[p] /\ State(p).fp = fp
    PROVE  Current(p, State(p).rows)
<1> DEFINE k == entry[p]
           R == State(p).rows
           f == State(p).fp
           e == State(p).epoch
<1>0. WriteTypeOK /\ CacheTypeOK /\ BoundTypeOK
    BY DEF IndInv, TypeOK
<1>1. k \in 1..Len(cache) /\ cache[k] \in Entries
    BY <1>0 DEF CacheTypeOK
<1>2. State(p) \in Snapshots
    BY <1>1 DEF State, Entries
<1>3. R \in Contents /\ f \in Nat /\ e \in Nat
    BY <1>2 DEF Snapshots
<1>4. Taken(k, R, f, e) /\ f <= Len(log)
    BY <1>1, <1>3 DEF FreshInv, Snapped, Kept, State
<1>5. CASE f = 0
  <2>1. R = Empty
      BY <1>4, <1>5 DEF Taken
  <2>2. CASE spc[p] = "state" /\ read[p] = 0
      BY <1>3, <2>1, <2>2 DEF FreshInv, RanksCurrent, Ranks
  <2>3. CASE fp = 0
    <3>1. Rows = Empty /\ floor[p] \in 1..Len(log) /\ Len(log) \in Nat
        BY <1>0, <2>3 DEF FreshInv, Dated, WriteTypeOK
    <3>2. Len(log) \in floor[p] .. Len(log) /\ log[Len(log)] = R
        BY <2>1, <3>1 DEF Rows
    <3> QED
        BY <3>2 DEF Current
  <2> QED
      BY <1>5, <2>2, <2>3
<1>6. CASE f # 0
  <2>1. PICK i \in f .. Len(log) : log[i] = R /\ Covers(k, f, e, i)
      BY <1>4, <1>6 DEF Taken
  <2>2. floor[p] <= i
      BY <2>1 DEF Covers
  <2>3. floor[p] \in 1..Len(log) /\ Len(log) \in Nat
      BY <1>0 DEF FreshInv, Dated, WriteTypeOK
  <2>4. i \in floor[p] .. Len(log)
      BY <1>3, <2>1, <2>2, <2>3
  <2> QED
      BY <2>1, <2>4 DEF Current
<1> QED
    BY <1>5, <1>6

\* The table as it is now may be ranked by anybody.
LEMMA RowsServe ==
    ASSUME WriteTypeOK, Dated, NEW p \in Searches
    PROVE  Current(p, Rows)
<1>1. floor[p] \in 1..Len(log) /\ Len(log) \in Nat
    BY DEF Dated, WriteTypeOK
<1>2. Len(log) \in floor[p] .. Len(log) /\ log[Len(log)] = Rows
    BY <1>1 DEF Rows
<1> QED
    BY <1>2 DEF Current

\* What may be ranked may be ranked later.
LEMMA CurrentStep ==
    ASSUME WriteTypeOK, Dated, [Next]_vars, NEW p \in Searches, NEW R, Current(p, R), floor'[p] = floor[p]
    PROVE  Current(p, R)'
<1>1. /\ floor[p] \in 1..Len(log) /\ Len(log) \in Nat /\ Len(log') \in Nat /\ Len(log) <= Len(log')
      /\ \A i \in 1..Len(log) : log'[i] = log[i]
    BY LogGrows DEF Dated, WriteTypeOK
<1>2. PICK i \in floor[p] .. Len(log) : log[i] = R
    BY DEF Current
<1>3. i \in floor'[p] .. Len(log') /\ log'[i] = R
    BY <1>1, <1>2
<1> QED
    BY <1>3 DEF Current

\* What a Search will rank after a step it would have ranked before, or takes
\* from a snapshot that serves it, or is the table as it is.
LEMMA RanksFrame ==
    ASSUME IndInv, FreshInv, [Next]_vars, NEW p \in Searches, NEW R \in Contents, Ranks(p, R)'
    PROVE  floor'[p] = floor[p] /\ Current(p, R)
<1>0. WriteTypeOK /\ CacheTypeOK /\ BoundTypeOK
    BY DEF IndInv, TypeOK
<1> USE DEF FreshInv
<1>1. ASSUME UNCHANGED <<spc, read, rows, found, floor>> PROVE floor'[p] = floor[p] /\ Current(p, R)
    BY <1>1 DEF Ranks, RanksCurrent
<1>2. ASSUME NEW r \in Searches \ {p}, Search(r) PROVE floor'[p] = floor[p] /\ Current(p, R)
  <2>1. /\ spc'[p] = spc[p] /\ read'[p] = read[p] /\ rows'[p] = rows[p] /\ found'[p] = found[p]
        /\ floor'[p] = floor[p]
      BY <1>0, <1>2 DEF Search, BeginSearch, ReadFingerprint, Hit, TakeBuild, Recheck, ReadVersions,
      ReadRows, ReadAll, FileSnapshot, Rank, Seek, history, CacheTypeOK, BoundTypeOK
  <2> QED
      BY <2>1 DEF Ranks, RanksCurrent
<1>3. ASSUME Search(p) PROVE floor'[p] = floor[p] /\ Current(p, R)
  <2>1. CASE BeginSearch(p) \/ TakeBuild(p) \/ Rank(p)
      BY <1>0, <2>1 DEF BeginSearch, TakeBuild, Rank, Seek, Ranks, CacheTypeOK
  <2>2. CASE ReadFingerprint(p)
    <3>1. floor' = floor /\ spc'[p] = "state" /\ read'[p] = fp
        BY <1>0, <2>2 DEF ReadFingerprint, Seek, history, CacheTypeOK
    <3>2. fp = 0 /\ R = Empty
        BY <3>1 DEF Ranks
    <3>3. R = Rows
        BY <3>2 DEF Dated
    <3> QED
        BY <1>0, <3>1, <3>3, RowsServe
  <2>3. CASE Hit(p)
    <3>1. floor' = floor /\ spc'[p] \in {"rank", "build"}
        BY <1>0, <2>3 DEF Hit, Seek, history, CacheTypeOK
    <3>2. spc'[p] = "rank" => State(p) # Nil /\ State(p).epoch = cache[entry[p]].epoch
                              /\ State(p).fp = read[p] /\ found'[p] = State(p).rows
        BY <1>0, <2>3 DEF Hit, Seek, CacheTypeOK
    <3>3. R = State(p).rows /\ spc'[p] = "rank"
        BY <3>1, <3>2 DEF Ranks
    <3> QED
        BY <2>3, <3>1, <3>2, <3>3, SnapshotServes DEF Hit
  <2>4. CASE Recheck(p)
    <3>1. floor' = floor /\ spc'[p] \in {"rank", "all", "versions"}
        BY <1>0, <2>4 DEF Recheck, Seek, history, CacheTypeOK
    <3>2. spc'[p] = "rank" => State(p) # Nil /\ State(p).epoch = epoch[p]
                              /\ State(p).fp = fp /\ found'[p] = State(p).rows
        BY <1>0, <2>4 DEF Recheck, Seek, CacheTypeOK
    <3>3. R = State(p).rows /\ spc'[p] = "rank"
        BY <3>1, <3>2 DEF Ranks
    <3> QED
        BY <2>4, <3>1, <3>2, <3>3, SnapshotServes DEF Recheck
  <2>5. CASE ReadVersions(p)
    <3>1. floor' = floor /\ spc'[p] \in {"fetch", "all"} /\ rows'[p] = Rows
        BY <1>0, <2>5 DEF ReadVersions, Seek, history, CacheTypeOK
    <3>2. R = Rows
        BY <3>1 DEF Ranks
    <3> QED
        BY <1>0, <3>1, <3>2, RowsServe
  <2>6. CASE ReadRows(p)
    <3>1. floor' = floor /\ spc[p] = "fetch"
        BY <2>6 DEF ReadRows, history
    <3>2. spc'[p] = "all" \/ (spc'[p] = "file" /\ found'[p] = rows[p])
        BY <1>0, <2>6, FetchedRows DEF CacheTypeOK
    <3>3. R = rows[p]
        BY <3>2 DEF Ranks
    <3> QED
        BY <3>1, <3>3 DEF Ranks, RanksCurrent
  <2>7. CASE ReadAll(p)
    <3>1. floor' = floor /\ spc'[p] = "file" /\ found'[p] = Rows
        BY <1>0, <2>7 DEF ReadAll, Seek, history, CacheTypeOK
    <3>2. R = Rows
        BY <3>1 DEF Ranks
    <3> QED
        BY <1>0, <3>1, <3>2, RowsServe
  <2>8. CASE FileSnapshot(p)
    <3>1. floor' = floor /\ spc[p] = "file" /\ spc'[p] = "rank" /\ found' = found
        BY <1>0, <2>8 DEF FileSnapshot, Seek, history, CacheTypeOK
    <3> QED
        BY <3>1 DEF Ranks, RanksCurrent
  <2> QED
      BY <1>3, <2>1, <2>2, <2>3, <2>4, <2>5, <2>6, <2>7, <2>8 DEF Search
<1>4. ASSUME NEW q \in Requests, Request(q) \/ Pending(q) \/ PendingEarly(q)
      PROVE  UNCHANGED <<spc, read, rows, found, floor>>
    BY <1>4, RequestFrame DEF caches
<1>5. ASSUME NEW a \in Adds, Flight(a) \/ GateTimeout(a) \/ AddFails(a) \/ ForeignAdd(a)
      PROVE  UNCHANGED <<spc, read, rows, found, floor>>
    BY <1>5 DEF Flight, EnterGate, TakeLock, CheckReceipt, Persist, Invalidate, RecordReceipt, Unlock,
    EndFlight, GateTimeout, AddFails, ForeignAdd, Finish, history, caches
<1>6. ASSUME NEW d \in Deletes, Delete(d) \/ DeleteTimeout(d) \/ DeleteFails(d)
      PROVE  UNCHANGED <<spc, read, rows, found, floor>>
    BY <1>6 DEF Delete, QueueDelete, LockDelete, DeleteTenant, DropCaches, UnlockDelete, EndDelete,
    DeleteTimeout, DeleteFails, history, caches
<1>7. ASSUME Evict \/ BeginShutdown PROVE UNCHANGED <<spc, read, rows, found, floor>>
    BY <1>7 DEF Evict, BeginShutdown, history, caches
<1>8. ASSUME Restart PROVE FALSE
    BY <1>8 DEF Restart, Ranks
<1>9. ASSUME UNCHANGED vars PROVE UNCHANGED <<spc, read, rows, found, floor>>
    BY <1>9 DEF vars, caches, history
<1> QED
    BY <1>1, <1>2, <1>3, <1>4, <1>5, <1>6, <1>7, <1>8, <1>9 DEF Next

\* The snapshots and the Searches are fresh initially ...
LEMMA FreshInit == Init => FreshInv
<1> SUFFICES ASSUME Init PROVE FreshInv
    OBVIOUS
<1>1. Rows = Empty /\ Len(log) = 1 /\ Len(cache) = 1 /\ cache[1] = Fresh
    BY DEF Init, Rows
<1>2. Dated
    BY <1>1 DEF Init, Dated, Empty
<1>3. \A p \in Searches : spc[p] = "idle"
    BY DEF Init
<1>4. Snapped
    BY <1>1, <1>3 DEF Snapped, Kept, Fresh
<1> QED
    BY <1>2, <1>3, <1>4 DEF FreshInv, BuildsAlone, Building, RanksCurrent, Ranks

\* ... and after every step.
LEMMA FreshStep == IndInv /\ FreshInv /\ [Next]_vars => FreshInv'
<1> SUFFICES ASSUME IndInv, FreshInv, [Next]_vars PROVE FreshInv'
    OBVIOUS
<1>1. Dated' /\ BuildsAlone'
    BY DatedStep, BuildsStep DEF FreshInv
<1>2. Snapped'
    BY <1>1, SnappedStep
<1>3. WriteTypeOK /\ Dated
    BY DEF IndInv, TypeOK, FreshInv
<1>4. ASSUME NEW p \in Searches, NEW R \in Contents, Ranks(p, R)' PROVE Current(p, R)'
  <2>1. floor'[p] = floor[p] /\ Current(p, R)
      BY <1>4, RanksFrame
  <2> QED
      BY <1>3, <2>1, CurrentStep
<1>5. RanksCurrent'
    BY <1>4 DEF RanksCurrent
<1> QED
    BY <1>1, <1>2, <1>5 DEF FreshInv

\* A Search ranks what the table held at one moment, no earlier than the last
\* Add or delete that was answered before it began: the epoch that an Add moves
\* before its receipt, and the fingerprint, keep an older snapshot from being
\* taken for current, also one that is filed after the Add (rank_bm25).
THEOREM SearchesAreFresh == Spec => []SearchIsFresh
<1>1. IndInv /\ FreshInv => SearchIsFresh
  <2> SUFFICES ASSUME IndInv, FreshInv, NEW p \in Searches, spc[p] = "rank"
               PROVE  \E i \in floor[p] .. Len(log) : log[i] = found[p]
      BY DEF SearchIsFresh
  <2>1. found[p] \in Contents
      BY DEF IndInv, TypeOK, CacheTypeOK
  <2> QED
      BY <2>1 DEF FreshInv, RanksCurrent, Ranks, Current
<1> QED
    BY <1>1, FreshInit, FreshStep, HostedInvariant, PTL DEF Spec
=============================================================================
