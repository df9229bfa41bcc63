----------------------- MODULE MaterializationOutbox -----------------------
(***************************************************************************)
(* Delivery of ledger events to a downstream fact store, through the       *)
(* durable outbox with leases: recall/fact_ledger.py                       *)
(* (PostgresMaterializationOutbox, SQLiteMaterializationOutbox) driven by  *)
(* recall/provenance_controller.py (ProvenanceController._delivered,       *)
(* MaterializationRecovery).                                               *)
(*                                                                         *)
(* A controller answers one application at a time and delivers its event   *)
(* before it answers; a recoverer claims batches of whatever is left.      *)
(* Each outbox call is one transaction and one action.  Leases run out by  *)
(* the clock (Expire), whether or not the holder is still working.         *)
(***************************************************************************)
EXTENDS Naturals, FiniteSets

CONSTANTS
    Events,         \* ledger events, by event_id
    Controllers,    \* callers of apply_fact
    Recoverers,     \* jobs that run MaterializationRecovery
    Limit,          \* run_once's limit: the largest batch claimed
    AckLoss,        \* the reply to a committed mark_applied may be lost
    MaxFaults,      \* bound: errors, crashes and skipped rows in one behaviour
    MaxOverruns,    \* bound: leases that run out under a working holder
    Nil             \* no event

Workers == Controllers \cup Recoverers

ASSUME OutboxNil == Nil \notin Events
ASSUME OutboxEvents == IsFiniteSet(Events)
ASSUME OutboxRoles == Controllers \cap Recoverers = {}
ASSUME OutboxBounds == Limit \in Nat \ {0} /\ MaxFaults \in Nat /\ MaxOverruns \in Nat
ASSUME OutboxReplies == AckLoss \in BOOLEAN

VARIABLES
    adapter,    \* PostgresMaterializationOutbox or SQLiteMaterializationOutbox
    ledger,     \* the events appended to recall_fact_ledger_events
    status,     \* recall_fact_materialization_outbox.status; absent: no row
    attempts,   \* .attempts
    lease,      \* .lease_token, as the number of the claim that minted it; 0 NULL
    live,       \* .lease_until is in the future
    delivered,  \* the events the downstream store holds
    told,       \* the events some caller was told are APPLIED or DUPLICATE
    pc, cur,    \* where a worker is, and the event in hand
    held,       \* the token of each event a worker has claimed and not settled
    todo,       \* the ledger events a reconcile has still to enqueue
    faults, overruns

row == <<status, attempts, lease, live>>
job == <<pc, cur, held, todo>>
vars == <<adapter, ledger, row, delivered, told, job, faults, overruns>>

Adapters == {"postgres", "sqlite"}
AtomicEnqueue == adapter = "postgres"  \* apply_assertion_with_outbox is available
ClearsToken == adapter = "sqlite"      \* marking a row sets lease_token to NULL

Statuses == {"absent", "pending", "processing", "failed", "applied"}
Steps == {"idle", "enqueue", "claim", "status", "reconcile", "deliver", "ack", "nack"}
Free == [e \in Events |-> 0]

TypeOK ==
    /\ adapter \in Adapters
    /\ ledger \subseteq Events /\ delivered \subseteq Events /\ told \subseteq Events
    /\ status \in [Events -> Statuses]
    /\ attempts \in [Events -> Nat] /\ lease \in [Events -> Nat]
    /\ live \in [Events -> BOOLEAN]
    /\ pc \in [Workers -> Steps]
    /\ cur \in [Workers -> Events \cup {Nil}]
    /\ held \in [Workers -> [Events -> Nat]]
    /\ todo \in [Workers -> SUBSET Events]
    /\ faults \in 0..MaxFaults /\ overruns \in 0..MaxOverruns

Init ==
    /\ adapter \in Adapters
    /\ ledger = {} /\ delivered = {} /\ told = {}
    /\ status = [e \in Events |-> "absent"]
    /\ attempts = Free /\ lease = Free
    /\ live = [e \in Events |-> FALSE]
    /\ pc = [w \in Workers |-> "idle"]
    /\ cur = [w \in Workers |-> Nil]
    /\ held = [w \in Workers |-> Free]
    /\ todo = [w \in Workers |-> {}]
    /\ faults = 0 /\ overruns = 0

---------------------------------------------------------------------------
(* Helpers *)

\* one more error, crash or skipped row
Fault == faults < MaxFaults /\ faults' = faults + 1

\* the call returns or its process ends: nothing it held is remembered
Leave(w) ==
    /\ pc' = [pc EXCEPT ![w] = "idle"]
    /\ cur' = [cur EXCEPT ![w] = Nil]
    /\ held' = [held EXCEPT ![w] = Free]
    /\ todo' = [todo EXCEPT ![w] = {}]

At(w, step) == pc[w] = step
Go(w, step) == pc' = [pc EXCEPT ![w] = step]

\* INSERT ... ON CONFLICT (event_id) DO NOTHING: a known event keeps its row
Enqueued(e) ==
    /\ status' = [status EXCEPT ![e] = IF @ = "absent" THEN "pending" ELSE @]
    /\ UNCHANGED <<attempts, lease, live>>

\* mutant: the lease is ignored
ClaimableProcessing(e) == status[e] \in {"pending", "failed", "processing"}

\* mutant: a row in processing is left to its holder for ever
ClaimableWaiting(e) == status[e] \in {"pending", "failed"}

Claimable(e) ==
    \/ status[e] \in {"pending", "failed"}
    \/ status[e] = "processing" /\ ~live[e]

\* SKIP LOCKED: an enqueue of e, or a mark_failed, that another worker has open
\* may lock its row.  (A claim that is skipped over takes the row itself, and one
\* being marked applied is not claimable after it.)
Locked(w, e) ==
    /\ adapter = "postgres"
    /\ \E v \in Workers \ {w} :
          \/ pc[v] \in {"enqueue", "nack"} /\ cur[v] = e
          \/ pc[v] = "reconcile" /\ e \in todo[v]

\* mutant: a claim of a row that was claimed before keeps its token
LeaseKept(w, S) ==
    LET token(e) == IF attempts[e] = 0 THEN 1 ELSE attempts[e] IN
    /\ status' = [e \in Events |-> IF e \in S THEN "processing" ELSE status[e]]
    /\ attempts' = [e \in Events |-> IF e \in S THEN token(e) ELSE attempts[e]]
    /\ lease' = [e \in Events |-> IF e \in S THEN token(e) ELSE lease[e]]
    /\ live' = [e \in Events |-> e \in S \/ live[e]]
    /\ held' = [held EXCEPT ![w] = [e \in Events |-> IF e \in S THEN token(e) ELSE 0]]

\* claim: every row taken gets a fresh token and a lease from now
Lease(w, S) ==
    /\ status' = [e \in Events |-> IF e \in S THEN "processing" ELSE status[e]]
    /\ attempts' = [e \in Events |-> IF e \in S THEN attempts[e] + 1 ELSE attempts[e]]
    /\ lease' = [e \in Events |-> IF e \in S THEN attempts[e] + 1 ELSE lease[e]]
    /\ live' = [e \in Events |-> e \in S \/ live[e]]
    /\ held' = [held EXCEPT ![w] = [e \in Events |-> IF e \in S THEN attempts[e] + 1 ELSE 0]]

\* mutant: a mark without a token (BUG-003 of the source)
HoldsAny(w) == cur[w] \in Events

\* the WHERE clause of both marks: the row still carries this claim's token
HoldsLease(w) == lease[cur[w]] = held[w][cur[w]]

Mark(e, outcome) ==
    /\ status' = [status EXCEPT ![e] = outcome]
    /\ live' = [live EXCEPT ![e] = FALSE]
    /\ lease' = [lease EXCEPT ![e] = IF ClearsToken THEN 0 ELSE @]
    /\ UNCHANGED attempts

\* what a worker has claimed and not settled
Batch(w) == {e \in Events : held[w][e] # 0}

\* run_once goes on to the rest of its batch
NextInBatch(w) ==
    /\ held' = [held EXCEPT ![w] = [@ EXCEPT ![cur[w]] = 0]]
    /\ cur' = [cur EXCEPT ![w] = Nil]
    /\ Go(w, IF Batch(w) = {cur[w]} THEN "idle" ELSE "deliver")
    /\ UNCHANGED todo

---------------------------------------------------------------------------
(* Appends *)

\* apply_fact: the append, with its outbox row when the adapters share a
\* transaction; a request sent again finds its event and goes on to deliver it
Apply(w, e) ==
    /\ At(w, "idle")
    /\ ledger' = ledger \cup {e}
    /\ IF AtomicEnqueue /\ e \notin ledger THEN Enqueued(e) ELSE UNCHANGED row
    /\ cur' = [cur EXCEPT ![w] = e]
    /\ Go(w, "enqueue")
    /\ UNCHANGED <<adapter, held, todo, delivered, told, faults, overruns>>

\* apply_stated: an append that no outbox row accompanies
ApplyStated(e) ==
    /\ e \notin ledger
    /\ ledger' = ledger \cup {e}
    /\ UNCHANGED <<adapter, row, job, delivered, told, faults, overruns>>

---------------------------------------------------------------------------
(* ProvenanceController._delivered, up to the claim *)

EnqueueOwn(w) ==
    /\ At(w, "enqueue")
    /\ Enqueued(cur[w])
    /\ Go(w, "claim")
    /\ UNCHANGED <<adapter, ledger, delivered, told, cur, held, todo, faults, overruns>>

ClaimOwn(w) ==
    /\ At(w, "claim")
    /\ Claimable(cur[w])
    /\ Lease(w, {cur[w]})
    /\ Go(w, "deliver")
    /\ UNCHANGED <<adapter, ledger, delivered, told, cur, todo, faults, overruns>>

ClaimNothing(w) ==
    /\ At(w, "claim")
    /\ \/ ~Claimable(cur[w]) /\ UNCHANGED faults
       \/ Locked(w, cur[w]) /\ Fault
    /\ Go(w, "status")
    /\ UNCHANGED <<adapter, ledger, row, delivered, told, cur, held, todo, overruns>>

\* mutant: answers success whenever there was nothing to claim
ReadStatusAny(w) ==
    /\ At(w, "status")
    /\ told' = told \cup {cur[w]}
    /\ Leave(w)
    /\ UNCHANGED <<adapter, ledger, row, delivered, faults, overruns>>

\* not claimed: success only when the row says another worker delivered it
ReadStatus(w) ==
    /\ At(w, "status")
    /\ told' = IF status[cur[w]] = "applied" THEN told \cup {cur[w]} ELSE told
    /\ Leave(w)
    /\ UNCHANGED <<adapter, ledger, row, delivered, faults, overruns>>

\* an outbox call raises before a lease is held: answered as unavailable
Unavailable(w) ==
    /\ pc[w] \in {"enqueue", "claim", "status"}
    /\ Fault
    /\ Leave(w)
    /\ UNCHANGED <<adapter, ledger, row, delivered, told, overruns>>

---------------------------------------------------------------------------
(* MaterializationRecovery *)

\* reconcile(ledger.events)
Reconcile(w) ==
    /\ At(w, "idle")
    /\ todo' = [todo EXCEPT ![w] = ledger]
    /\ Go(w, "reconcile")
    /\ UNCHANGED <<adapter, ledger, row, delivered, told, cur, held, faults, overruns>>

\* run_once() alone
RunOnce(w) ==
    /\ At(w, "idle")
    /\ Go(w, "reconcile")
    /\ UNCHANGED <<adapter, ledger, row, delivered, told, cur, held, todo, faults, overruns>>

EnqueueNext(w) ==
    /\ At(w, "reconcile")
    /\ \E e \in todo[w] :
          /\ Enqueued(e)
          /\ todo' = [todo EXCEPT ![w] = @ \ {e}]
    /\ UNCHANGED <<adapter, ledger, delivered, told, pc, cur, held, faults, overruns>>

\* run_once's claim: Limit rows, or all when fewer are claimable.  Which rows
\* is decided by created_at; any choice is allowed here.
ClaimBatch(w) ==
    /\ At(w, "reconcile")
    /\ todo[w] = {}
    /\ \E skipped \in SUBSET {e \in Events : Locked(w, e)} :
          LET ready == {e \in Events \ skipped : Claimable(e)}
          IN  /\ \E S \in SUBSET ready :
                    /\ Cardinality(S) <= Limit
                    /\ S = ready \/ Cardinality(S) = Limit
                    /\ Lease(w, S)
                    /\ Go(w, IF S = {} THEN "idle" ELSE "deliver")
              /\ IF skipped = {} THEN UNCHANGED faults ELSE Fault
    /\ UNCHANGED <<adapter, ledger, delivered, told, cur, todo, overruns>>

---------------------------------------------------------------------------
(* The materializer and the marks *)

\* materialize: an idempotent write of one event in hand, in a transaction of its
\* own (the current-fact tables, or a store the deployment configures)
Deliver(w) ==
    /\ At(w, "deliver")
    /\ \E e \in Batch(w) :
          /\ delivered' = delivered \cup {e}
          /\ cur' = [cur EXCEPT ![w] = e]
    /\ Go(w, "ack")
    /\ UNCHANGED <<adapter, ledger, row, told, held, todo, faults, overruns>>

\* mutant: the error is swallowed, and the event acknowledged
DeliverFailsQuietly(w) ==
    /\ At(w, "deliver")
    /\ Fault
    /\ \E e \in Batch(w) :
          /\ delivered' \in {delivered, delivered \cup {e}}
          /\ cur' = [cur EXCEPT ![w] = e]
    /\ Go(w, "ack")
    /\ UNCHANGED <<adapter, ledger, row, told, held, todo, overruns>>

\* it raises, before or after the write took effect
DeliverFails(w) ==
    /\ At(w, "deliver")
    /\ Fault
    /\ \E e \in Batch(w) :
          /\ delivered' \in {delivered, delivered \cup {e}}
          /\ cur' = [cur EXCEPT ![w] = e]
    /\ Go(w, "nack")
    /\ UNCHANGED <<adapter, ledger, row, told, held, todo, overruns>>

MarkApplied(w) ==
    /\ At(w, "ack")
    /\ HoldsLease(w)
    /\ Mark(cur[w], "applied")
    /\ \/ w \in Controllers /\ told' = told \cup {cur[w]} /\ Leave(w)
       \/ w \in Recoverers /\ NextInBatch(w) /\ UNCHANGED told
    /\ UNCHANGED <<adapter, ledger, delivered, faults, overruns>>

\* a controller turns to mark_failed; run_once is abandoned with its batch
AckRaised(w) ==
    \/ /\ w \in Controllers
       /\ Go(w, "nack")
       /\ UNCHANGED <<cur, held, todo>>
    \/ w \in Recoverers /\ Leave(w)

\* mark_applied raises: the lease is lost, or the database cannot be reached
AckRefused(w) ==
    /\ At(w, "ack")
    /\ (~HoldsLease(w) /\ UNCHANGED faults) \/ Fault
    /\ AckRaised(w)
    /\ UNCHANGED <<adapter, ledger, row, delivered, told, overruns>>

\* mark_applied commits and its reply is lost
AckLost(w) ==
    /\ AckLoss
    /\ At(w, "ack")
    /\ HoldsLease(w)
    /\ Fault
    /\ Mark(cur[w], "applied")
    /\ AckRaised(w)
    /\ UNCHANGED <<adapter, ledger, delivered, told, overruns>>

MarkFailed(w) ==
    /\ At(w, "nack")
    /\ HoldsLease(w)
    /\ Mark(cur[w], "failed")
    /\ \/ w \in Controllers /\ Leave(w)
       \/ w \in Recoverers /\ NextInBatch(w)
    /\ UNCHANGED <<adapter, ledger, delivered, told, faults, overruns>>

\* mark_failed raises: a controller ignores it, run_once is abandoned
NackRefused(w) ==
    /\ At(w, "nack")
    /\ (~HoldsLease(w) /\ UNCHANGED faults) \/ Fault
    /\ Leave(w)
    /\ UNCHANGED <<adapter, ledger, row, delivered, told, overruns>>

---------------------------------------------------------------------------
(* Processes and time *)

Crash(w) ==
    /\ ~At(w, "idle")
    /\ Fault
    /\ Leave(w)
    /\ UNCHANGED <<adapter, ledger, row, delivered, told, overruns>>

Working(e) == \E w \in Workers : held[w][e] # 0 /\ held[w][e] = lease[e]

\* lease_until passes.  It is bounded only while its holder is at work.
Expire(e) ==
    /\ status[e] = "processing" /\ live[e]
    /\ live' = [live EXCEPT ![e] = FALSE]
    /\ IF Working(e) THEN overruns < MaxOverruns /\ overruns' = overruns + 1
                     ELSE UNCHANGED overruns
    /\ UNCHANGED <<adapter, ledger, status, attempts, lease, delivered, told, job, faults>>

\* the steps of a call that has started
Continue(w) ==
    \/ EnqueueOwn(w) \/ ClaimOwn(w) \/ ClaimNothing(w) \/ ReadStatus(w)
    \/ EnqueueNext(w) \/ ClaimBatch(w)
    \/ Deliver(w) \/ MarkApplied(w) \/ AckRefused(w) \/ MarkFailed(w) \/ NackRefused(w)

Disturb(w) == Unavailable(w) \/ DeliverFails(w) \/ AckLost(w) \/ Crash(w)

Next ==
    \/ \E w \in Controllers, e \in Events : Apply(w, e)
    \/ \E e \in Events : ApplyStated(e) \/ Expire(e)
    \/ \E w \in Recoverers : Reconcile(w) \/ RunOnce(w)
    \/ \E w \in Workers : Continue(w) \/ Disturb(w)

Spec == Init /\ [][Next]_vars

\* A started call goes on, the clock passes every lease_until, and the
\* recovery job keeps calling reconcile.
FairSpec ==
    /\ Spec
    /\ \A w \in Workers : WF_vars(Continue(w))
    /\ \A e \in Events : WF_vars(Expire(e))
    /\ \A w \in Recoverers : SF_vars(Reconcile(w))

---------------------------------------------------------------------------
(* Properties *)

\* A caller is told APPLIED or DUPLICATE only for an event the downstream
\* store holds, whichever worker wrote it and whatever was lost or retried on
\* the way (_delivered).
ToldMeansDelivered == told \subseteq delivered

\* While the adapter clears the token, or no reply is lost, an applied row is
\* applied for good: a worker that outran its lease and then failed cannot put
\* back on the queue what its successor delivered (mark_failed).
AppliedStands ==
    [][(ClearsToken \/ ~AckLoss) =>
          \A e \in Events : status[e] = "applied" => status'[e] = "applied"]_vars

\* Until its lease_until passes, no claim takes an event from a worker that
\* is delivering it (claim).
LeaseRespected ==
    [][\A w \in Workers, e \in Events :
          (held[w][e] # 0 /\ held[w][e] = lease[e] /\ live[e])
              => attempts'[e] = attempts[e]]_vars

\* Every event of the ledger ends up delivered and applied for good, also
\* after crashes, lost replies, lost leases and abandoned batches (reconcile).
EventuallyApplied ==
    \A e \in Events :
        e \in ledger ~> [](e \in delivered /\ status[e] = "applied")

\* what the outbox rows and the workers come to for a reader of the ledger
Contract == INSTANCE LedgerDelivery
    WITH recorded <- ledger, written <- delivered,
         settled <- {e \in Events : status[e] = "applied"}, answered <- told

\* The outbox implements LedgerDelivery: no event reaches the downstream store
\* before the ledger has it, no row is marked applied before the store has its
\* event, and no caller is answered but by an applied row, whichever controller
\* or recovery job enqueued, claimed, delivered, marked or lost it
\* (_delivered, run_once, reconcile).
DeliversLedger == Contract!Spec

---------------------------------------------------------------------------
(* The inductive invariant of AppliedStands: a token is current for at most *)
(* one worker, and for none once its row is applied.                        *)

TokensIssued ==
    \A e \in Events : /\ lease[e] <= attempts[e]
                      /\ \A w \in Workers : held[w][e] <= attempts[e]
TokensDistinct ==
    \A e \in Events : \A v, w \in Workers :
        v # w /\ held[v][e] # 0 => held[v][e] # held[w][e]
InHand ==
    \A w \in Workers :
        /\ pc[w] \in {"ack", "nack"} => cur[w] \in Batch(w)
        /\ pc[w] \in {"enqueue", "claim", "status"} => cur[w] \in Events
SettledIsReleased ==
    (ClearsToken \/ ~AckLoss) =>
        \A e \in Events, w \in Workers :
            status[e] = "applied" /\ held[w][e] # 0 => held[w][e] # lease[e]
TokenInv == TokensIssued /\ TokensDistinct /\ InHand /\ SettledIsReleased

=============================================================================
