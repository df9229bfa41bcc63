--------------------------- MODULE OutboxProofs ---------------------------
(***************************************************************************)
(* Proofs about MaterializationOutbox: what a caller is told is true, and  *)
(* what is applied stays applied, for any number of events, controllers    *)
(* and recoverers and any number of faults.                                *)
(***************************************************************************)
EXTENDS MaterializationOutbox, TLAPS

USE DEF Workers

---------------------------------------------------------------------------
(* Type correctness.  A mark is well typed only because the event in hand  *)
(* is one the worker has claimed, so the two are proved together.          *)

HandInv == TypeOK /\ InHand

\* A call that ends keeps the invariant: it is idle and holds nothing.
LEMMA LeaveKeeps ==
    ASSUME HandInv, NEW w \in Workers, Leave(w)
    PROVE  /\ InHand'
           /\ pc' \in [Workers -> Steps] /\ cur' \in [Workers -> Events \cup {Nil}]
           /\ held' \in [Workers -> [Events -> Nat]] /\ todo' \in [Workers -> SUBSET Events]
BY DEF HandInv, TypeOK, InHand, Batch, Leave, Steps, Free

\* Settling one event of a batch keeps the invariant.
LEMMA NextInBatchKeeps ==
    ASSUME HandInv, NEW w \in Workers, cur[w] \in Events, NextInBatch(w)
    PROVE  /\ InHand'
           /\ pc' \in [Workers -> Steps] /\ cur' \in [Workers -> Events \cup {Nil}]
           /\ held' \in [Workers -> [Events -> Nat]] /\ todo' \in [Workers -> SUBSET Events]
BY DEF HandInv, TypeOK, InHand, Batch, NextInBatch, Steps, Go

\* Every step keeps the types and the event in hand.
LEMMA HandStep == HandInv /\ [Next]_vars => HandInv'
<1> SUFFICES ASSUME HandInv, [Next]_vars PROVE HandInv'
    OBVIOUS
<1>1. CASE UNCHANGED vars
    BY <1>1 DEF vars, row, job, HandInv, TypeOK, InHand, Batch
<1> USE OutboxBounds DEF Statuses, Steps, Go, At
<1>2. ASSUME NEW w \in Controllers, NEW e \in Events, Apply(w, e) PROVE HandInv'
    BY <1>2 DEF Apply, Enqueued, row, HandInv, TypeOK, InHand, Batch
<1>3. ASSUME NEW e \in Events, ApplyStated(e) PROVE HandInv'
    BY <1>3 DEF ApplyStated, row, job, HandInv, TypeOK, InHand, Batch
<1>4. ASSUME NEW e \in Events, Expire(e) PROVE HandInv'
    BY <1>4 DEF Expire, job, HandInv, TypeOK, InHand, Batch
<1>5. ASSUME NEW w \in Recoverers, Reconcile(w) \/ RunOnce(w) PROVE HandInv'
    BY <1>5 DEF Reconcile, RunOnce, row, HandInv, TypeOK, InHand, Batch
<1>6. ASSUME NEW w \in Workers, Continue(w) PROVE HandInv'
  <2>1. CASE EnqueueOwn(w)
      BY <2>1 DEF EnqueueOwn, Enqueued, HandInv, TypeOK, InHand, Batch
  <2>2. CASE ClaimOwn(w)
      BY <2>2 DEF ClaimOwn, Lease, HandInv, TypeOK, InHand, Batch
  <2>3. CASE ClaimNothing(w)
      BY <2>3 DEF ClaimNothing, Fault, row, HandInv, TypeOK, InHand, Batch
  <2>4. CASE ReadStatus(w)
    <3>1. cur[w] \in Events /\ Leave(w)
        BY <2>4 DEF ReadStatus, HandInv, InHand
    <3> QED
        BY <2>4, <3>1, LeaveKeeps DEF ReadStatus, row, HandInv, TypeOK
  <2>5. CASE EnqueueNext(w)
      BY <2>5 DEF EnqueueNext, Enqueued, HandInv, TypeOK, InHand, Batch
  <2>6. CASE ClaimBatch(w)
      BY <2>6 DEF ClaimBatch, Fault, Lease, HandInv, TypeOK, InHand, Batch
  <2>7. CASE Deliver(w)
      BY <2>7 DEF Deliver, row, HandInv, TypeOK, InHand, Batch
  <2>8. CASE MarkApplied(w)
    <3>1. cur[w] \in Events /\ (Leave(w) \/ NextInBatch(w))
        BY <2>8 DEF MarkApplied, HandInv, InHand, Batch
    <3>2. told' \subseteq Events
        BY <2>8, <3>1 DEF MarkApplied, HandInv, TypeOK
    <3> QED
        BY <2>8, <3>1, <3>2, LeaveKeeps, NextInBatchKeeps DEF MarkApplied, Mark, HandInv, TypeOK
  <2>9. CASE AckRefused(w)
    <3>1. CASE Leave(w)
        BY <2>9, <3>1, LeaveKeeps DEF AckRefused, Fault, row, HandInv, TypeOK
    <3>2. CASE Go(w, "nack") /\ UNCHANGED <<cur, held, todo>>
        BY <2>9, <3>2 DEF AckRefused, Fault, row, HandInv, TypeOK, InHand, Batch
    <3> QED
        BY <2>9, <3>1, <3>2 DEF AckRefused, AckRaised
  <2>10. CASE MarkFailed(w)
    <3>1. cur[w] \in Events /\ (Leave(w) \/ NextInBatch(w))
        BY <2>10 DEF MarkFailed, HandInv, InHand, Batch
    <3> QED
        BY <2>10, <3>1, LeaveKeeps, NextInBatchKeeps DEF MarkFailed, Mark, HandInv, TypeOK
  <2>11. CASE NackRefused(w)
      BY <2>11, LeaveKeeps DEF NackRefused, Fault, row, HandInv, TypeOK
  <2> QED
      BY <1>6, <2>1, <2>2, <2>3, <2>4, <2>5, <2>6, <2>7, <2>8, <2>9, <2>10, <2>11
      DEF Continue
<1>7. ASSUME NEW w \in Workers, Disturb(w) PROVE HandInv'
  <2>1. CASE Unavailable(w)
      BY <2>1, LeaveKeeps DEF Unavailable, Fault, row, HandInv, TypeOK
  <2>2. CASE DeliverFails(w)
      BY <2>2 DEF DeliverFails, Fault, row, HandInv, TypeOK, InHand, Batch
  <2>3. CASE AckLost(w)
    <3>1. CASE Leave(w)
      <4>1. /\ InHand'
            /\ pc' \in [Workers -> Steps] /\ cur' \in [Workers -> Events \cup {Nil}]
            /\ held' \in [Workers -> [Events -> Nat]] /\ todo' \in [Workers -> SUBSET Events]
          BY <3>1, LeaveKeeps
      <4>2. cur[w] \in Events
          BY <2>3 DEF AckLost, HandInv, InHand, Batch
      <4> QED
          BY <2>3, <4>1, <4>2 DEF AckLost, Mark, Fault, HandInv, TypeOK
    <3>2. CASE Go(w, "nack") /\ UNCHANGED <<cur, held, todo>>
        BY <2>3, <3>2 DEF AckLost, Mark, Fault, HandInv, TypeOK, InHand, Batch
    <3> QED
        BY <2>3, <3>1, <3>2 DEF AckLost, AckRaised
  <2>4. CASE Crash(w)
      BY <2>4, LeaveKeeps DEF Crash, Fault, row, HandInv, TypeOK
  <2> QED
      BY <1>7, <2>1, <2>2, <2>3, <2>4 DEF Disturb
<1> QED
    BY <1>1, <1>2, <1>3, <1>4, <1>5, <1>6, <1>7 DEF Next

\* The initial state is well typed and holds nothing.
LEMMA HandInit == Init => HandInv
BY OutboxBounds DEF Init, HandInv, TypeOK, InHand, Batch, Statuses, Steps, Free

\* Types of the outbox, and that a worker that marks an event has claimed it.
THEOREM OutboxTypeCorrect == Spec => [](TypeOK /\ InHand)
<1>1. HandInv <=> TypeOK /\ InHand
    BY DEF HandInv
<1> QED
    BY HandInit, HandStep, <1>1, PTL DEF Spec

---------------------------------------------------------------------------
(* What a caller is told.  The invariant follows an event from the write   *)
(* (pc = "ack") to the row (applied) to the answer (told).                 *)

HonestInv ==
    /\ told \subseteq delivered
    /\ \A e \in Events : status[e] = "applied" => e \in delivered
    /\ \A w \in Workers : pc[w] = "ack" => cur[w] \in delivered

\* Every step keeps the answers honest.
LEMMA HonestStep == HandInv /\ HonestInv /\ [Next]_vars => HonestInv'
<1> SUFFICES ASSUME HandInv, HonestInv, [Next]_vars PROVE HonestInv'
    OBVIOUS
<1> USE DEF HonestInv, HandInv, TypeOK, Go, At
<1>1. CASE UNCHANGED vars
    BY <1>1 DEF vars, row, job
<1>2. ASSUME NEW w \in Controllers, NEW e \in Events, Apply(w, e) PROVE HonestInv'
    BY <1>2 DEF Apply, Enqueued, row
<1>3. ASSUME NEW e \in Events, ApplyStated(e) PROVE HonestInv'
    BY <1>3 DEF ApplyStated, row, job
<1>4. ASSUME NEW e \in Events, Expire(e) PROVE HonestInv'
    BY <1>4 DEF Expire, job
<1>5. ASSUME NEW w \in Recoverers, Reconcile(w) \/ RunOnce(w) PROVE HonestInv'
    BY <1>5 DEF Reconcile, RunOnce, row
<1>6. ASSUME NEW w \in Workers, Continue(w) PROVE HonestInv'
  <2>1. CASE EnqueueOwn(w)
      BY <2>1 DEF EnqueueOwn, Enqueued
  <2>2. CASE ClaimOwn(w)
      BY <2>2 DEF ClaimOwn, Lease
  <2>3. CASE ClaimNothing(w)
      BY <2>3 DEF ClaimNothing, row
  <2>4. CASE ReadStatus(w)
      BY <2>4 DEF ReadStatus, InHand, Leave, row
  <2>5. CASE EnqueueNext(w)
      BY <2>5 DEF EnqueueNext, Enqueued
  <2>6. CASE ClaimBatch(w)
      BY <2>6 DEF ClaimBatch, Lease
  <2>7. CASE Deliver(w)
      BY <2>7 DEF Deliver, row
  <2>8. CASE MarkApplied(w)
      BY <2>8 DEF MarkApplied, Mark, Leave, NextInBatch
  <2>9. CASE AckRefused(w)
      BY <2>9 DEF AckRefused, AckRaised, Leave, row
  <2>10. CASE MarkFailed(w)
      BY <2>10 DEF MarkFailed, Mark, Leave, NextInBatch
  <2>11. CASE NackRefused(w)
      BY <2>11 DEF NackRefused, Leave, row
  <2> QED
      BY <1>6, <2>1, <2>2, <2>3, <2>4, <2>5, <2>6, <2>7, <2>8, <2>9, <2>10, <2>11
      DEF Continue
<1>7. ASSUME NEW w \in Workers, Disturb(w) PROVE HonestInv'
  <2>1. CASE Unavailable(w) \/ Crash(w)
      BY <2>1 DEF Unavailable, Crash, Leave, row
  <2>2. CASE DeliverFails(w)
      BY <2>2 DEF DeliverFails, row
  <2>3. CASE AckLost(w)
      BY <2>3 DEF AckLost, AckRaised, Mark, Leave
  <2> QED
      BY <1>7, <2>1, <2>2, <2>3 DEF Disturb
<1> QED
    BY <1>1, <1>2, <1>3, <1>4, <1>5, <1>6, <1>7 DEF Next

\* A caller is told APPLIED or DUPLICATE only for an event the downstream
\* store holds, for any number of workers, faults and lost leases.
THEOREM AnswersAreTrue == Spec => []ToldMeansDelivered
<1>1. Init => HonestInv
    BY DEF Init, HonestInv
<1>2. HonestInv => ToldMeansDelivered
    BY DEF HonestInv, ToldMeansDelivered
<1> QED
    BY HandInit, HandStep, HonestStep, <1>1, <1>2, PTL DEF Spec

---------------------------------------------------------------------------
(* Leases.  Tokens are compared through a few facts about the moves a step *)
(* can make, so that each action is one case of one of them.               *)

Tokens == TokensIssued /\ TokensDistinct

\* A step that claims nothing, releases or keeps what is held, and keeps or
\* clears the rows' tokens, keeps tokens issued and distinct.
LEMMA NoClaimKeepsTokens ==
    ASSUME HandInv, HandInv', Tokens,
           attempts' = attempts,
           \A e \in Events : lease'[e] \in {lease[e], 0},
           \A w \in Workers, e \in Events : held'[w][e] \in {held[w][e], 0}
    PROVE  Tokens'
<1>1. TokensIssued'
  <2> SUFFICES ASSUME NEW e \in Events
               PROVE  lease'[e] <= attempts[e] /\ \A w \in Workers : held'[w][e] <= attempts[e]
      BY DEF TokensIssued
  <2>1. attempts[e] \in Nat /\ lease[e] <= attempts[e] /\ \A w \in Workers : held[w][e] <= attempts[e]
      BY DEF HandInv, TypeOK, Tokens, TokensIssued
  <2> QED
      BY <2>1
<1>2. TokensDistinct'
  <2> SUFFICES ASSUME NEW e \in Events, NEW v \in Workers, NEW w \in Workers,
                      v # w, held'[v][e] # 0
               PROVE  held'[v][e] # held'[w][e]
      BY DEF TokensDistinct
  <2> QED
      BY DEF Tokens, TokensDistinct
<1> QED
    BY <1>1, <1>2 DEF Tokens

\* A claim mints tokens above every one issued.
LEMMA ClaimKeepsTokens ==
    ASSUME HandInv, HandInv', Tokens, NEW w \in Workers, NEW S \in SUBSET Events, Lease(w, S)
    PROVE  Tokens'
BY DEF HandInv, TypeOK, Tokens, TokensIssued, TokensDistinct, Lease

\* A step that puts no row in the applied state, claims nothing and clears
\* tokens only where it takes a row out of it keeps the release of settled events.
LEMMA QuietKeepsReleased ==
    ASSUME SettledIsReleased, adapter' = adapter,
           \A e \in Events : status'[e] = "applied" => status[e] = "applied" /\ lease'[e] = lease[e],
           \A w \in Workers, e \in Events : held'[w][e] \in {held[w][e], 0}
    PROVE  SettledIsReleased'
BY DEF SettledIsReleased, ClearsToken

\* What a step may do to rows and tokens when it neither claims nor marks.
Quiet ==
    /\ adapter' = adapter
    /\ attempts' = attempts
    /\ \A e \in Events : lease'[e] = lease[e]
    /\ \A e \in Events : (status'[e] = "applied") <=> (status[e] = "applied")
    /\ \A w \in Workers, e \in Events : held'[w][e] \in {held[w][e], 0}

\* A quiet step keeps the whole token invariant.
LEMMA QuietStep == ASSUME HandInv, HandInv', TokenInv, Quiet PROVE TokenInv'
<1>1. Tokens'
    BY NoClaimKeepsTokens DEF TokenInv, Tokens, Quiet
<1>2. SettledIsReleased'
    BY QuietKeepsReleased DEF TokenInv, Quiet
<1> QED
    BY <1>1, <1>2 DEF TokenInv, Tokens, HandInv

\* A claim keeps the token invariant: no applied row is claimable.
LEMMA ClaimStep ==
    ASSUME HandInv, HandInv', TokenInv, NEW w \in Workers, NEW S \in SUBSET Events,
           Lease(w, S), adapter' = adapter, \A e \in S : Claimable(e)
    PROVE  TokenInv' /\ \A e \in Events : status[e] = "applied" => status'[e] = "applied"
<1>1. Tokens'
    BY ClaimKeepsTokens DEF TokenInv, Tokens
<1>2. \A e \in S : status[e] # "applied"
    BY DEF Claimable
<1>3. SettledIsReleased'
    BY <1>2 DEF Lease, SettledIsReleased, ClearsToken, TokenInv, HandInv, TypeOK
<1>4. \A e \in Events : status[e] = "applied" => status'[e] = "applied"
    BY <1>2 DEF Lease
<1> QED
    BY <1>1, <1>3, <1>4 DEF TokenInv, Tokens, HandInv

\* What a call keeps in hand when it ends, goes on or turns to mark_failed.
LEMMA Releases ==
    ASSUME HandInv, NEW w \in Workers, cur[w] \in Events,
           Leave(w) \/ NextInBatch(w) \/ AckRaised(w)
    PROVE  \A v \in Workers, e \in Events : held'[v][e] \in {held[v][e], 0}
BY DEF Leave, NextInBatch, AckRaised, HandInv, TypeOK, Free

\* A mark made with the row's own token keeps the token invariant, provided
\* an applied event is released or its token cleared.
LEMMA MarkStep ==
    ASSUME HandInv, HandInv', TokenInv, NEW w \in Workers, cur[w] \in Batch(w), HoldsLease(w),
           NEW outcome \in {"applied", "failed"}, Mark(cur[w], outcome),
           adapter' = adapter,
           Leave(w) \/ NextInBatch(w) \/ AckRaised(w),
           outcome = "applied" => ClearsToken \/ AckLoss \/ held'[w][cur[w]] = 0
    PROVE  TokenInv'
<1>1. cur[w] \in Events /\ held[w][cur[w]] # 0 /\ lease[cur[w]] = held[w][cur[w]]
    BY DEF Batch, HoldsLease
<1>2. \A v \in Workers, e \in Events : held'[v][e] \in {held[v][e], 0}
    BY <1>1, Releases
<1>3. \A e \in Events : lease'[e] \in {lease[e], 0}
    BY DEF Mark, HandInv, TypeOK
<1>4. Tokens'
    BY <1>2, <1>3, NoClaimKeepsTokens DEF Mark, TokenInv, Tokens
<1>5. SettledIsReleased'
  <2> SUFFICES ASSUME ClearsToken \/ ~AckLoss, NEW e \in Events, NEW v \in Workers,
                      status'[e] = "applied", held'[v][e] # 0
               PROVE  held'[v][e] # lease'[e]
      BY DEF SettledIsReleased, ClearsToken
  <2>1. held'[v][e] = held[v][e] /\ held[v][e] # 0
      BY <1>2
  <2>2. CASE e # cur[w]
    <3>1. status[e] = "applied" /\ lease'[e] = lease[e]
        BY <2>2, <1>1 DEF Mark, HandInv, TypeOK
    <3> QED
        BY <2>1, <3>1 DEF TokenInv, SettledIsReleased
  <2>3. CASE e = cur[w] /\ ClearsToken
    <3>1. lease'[e] = 0
        BY <2>3, <1>1 DEF Mark, HandInv, TypeOK
    <3> QED
        BY <2>1, <3>1
  <2>4. CASE e = cur[w] /\ ~ClearsToken
    <3>1. outcome = "applied" /\ lease'[e] = held[w][e]
        BY <2>4, <1>1 DEF Mark, HandInv, TypeOK
    <3>2. v # w
        BY <2>4, <3>1
    <3>3. held[v][e] # held[w][e]
        BY <2>1, <3>2 DEF TokenInv, TokensDistinct
    <3> QED
        BY <2>1, <3>1, <3>3
  <2> QED
      BY <2>2, <2>3, <2>4
<1> QED
    BY <1>4, <1>5 DEF TokenInv, Tokens, HandInv

\* What a step does to applied rows while they are protected.
Stands ==
    (ClearsToken \/ ~AckLoss) =>
        \A e \in Events : status[e] = "applied" => status'[e] = "applied"

\* Every step keeps the token invariant and lets applied rows stand.
LEMMA TokenStep == HandInv /\ HandInv' /\ TokenInv /\ [Next]_vars => TokenInv' /\ Stands
<1> SUFFICES ASSUME HandInv, HandInv', TokenInv, [Next]_vars PROVE TokenInv' /\ Stands
    OBVIOUS
<1>0. Quiet => TokenInv' /\ Stands
    BY QuietStep DEF Quiet, Stands
<1> USE DEF HandInv, TypeOK, Go, At
<1>1. CASE UNCHANGED vars
    BY <1>0, <1>1 DEF Quiet, vars, row, job
<1>2. ASSUME NEW w \in Controllers, NEW e \in Events, Apply(w, e) PROVE Quiet
    BY <1>2 DEF Quiet, Apply, Enqueued, row
<1>3. ASSUME NEW e \in Events, ApplyStated(e) \/ Expire(e) PROVE Quiet
    BY <1>3 DEF Quiet, ApplyStated, Expire, row, job
<1>4. ASSUME NEW w \in Recoverers, Reconcile(w) \/ RunOnce(w) PROVE Quiet
    BY <1>4 DEF Quiet, Reconcile, RunOnce, row
<1>5. ASSUME NEW w \in Workers, EnqueueOwn(w) \/ EnqueueNext(w) PROVE Quiet
    BY <1>5 DEF Quiet, EnqueueOwn, EnqueueNext, Enqueued, InHand
<1>6. ASSUME NEW w \in Workers, ClaimNothing(w) \/ Deliver(w) \/ DeliverFails(w) PROVE Quiet
    BY <1>6 DEF Quiet, ClaimNothing, Deliver, DeliverFails, row
<1>7. ASSUME NEW w \in Workers, ReadStatus(w) \/ NackRefused(w) \/ Unavailable(w) \/ Crash(w)
      PROVE  Quiet
    BY <1>7 DEF Quiet, ReadStatus, NackRefused, Unavailable, Crash, Leave, Free, row
<1>8. ASSUME NEW w \in Workers, AckRefused(w) PROVE Quiet
    BY <1>8 DEF Quiet, AckRefused, AckRaised, Leave, Free, row
<1>9. ASSUME NEW w \in Workers, ClaimOwn(w) PROVE TokenInv' /\ Stands
  <2>1. cur[w] \in Events /\ {cur[w]} \in SUBSET Events
      BY <1>9 DEF ClaimOwn, InHand
  <2> QED
      BY <1>9, <2>1, ClaimStep DEF ClaimOwn, Stands
<1>10. ASSUME NEW w \in Workers, ClaimBatch(w) PROVE TokenInv' /\ Stands
  <2>1. PICK S \in SUBSET Events : Lease(w, S) /\ \A e \in S : Claimable(e)
      BY <1>10 DEF ClaimBatch
  <2>2. adapter' = adapter
      BY <1>10 DEF ClaimBatch
  <2> QED
      BY <2>1, <2>2, ClaimStep DEF Stands
<1>11. ASSUME NEW w \in Workers, MarkApplied(w) PROVE TokenInv' /\ Stands
  <2>1. cur[w] \in Batch(w) /\ cur[w] \in Events
      BY <1>11 DEF MarkApplied, InHand, Batch
  <2>2. held'[w][cur[w]] = 0 /\ (Leave(w) \/ NextInBatch(w) \/ AckRaised(w))
      BY <1>11, <2>1 DEF MarkApplied, Leave, NextInBatch, Free
  <2>3. TokenInv'
      BY <1>11, <2>1, <2>2, MarkStep DEF MarkApplied
  <2> QED
      BY <1>11, <2>1, <2>3 DEF MarkApplied, Mark, Stands
<1>12. ASSUME NEW w \in Workers, AckLost(w) PROVE TokenInv' /\ Stands
  <2>1. cur[w] \in Batch(w) /\ cur[w] \in Events
      BY <1>12 DEF AckLost, InHand, Batch
  <2>2. TokenInv'
      BY <1>12, <2>1, MarkStep DEF AckLost
  <2> QED
      BY <1>12, <2>1, <2>2 DEF AckLost, Mark, Stands
<1>13. ASSUME NEW w \in Workers, MarkFailed(w) PROVE TokenInv' /\ Stands
  <2>1. cur[w] \in Batch(w) /\ cur[w] \in Events /\ held[w][cur[w]] # 0 /\ HoldsLease(w)
      BY <1>13 DEF MarkFailed, InHand, Batch
  <2>2. Leave(w) \/ NextInBatch(w) \/ AckRaised(w)
      BY <1>13 DEF MarkFailed
  <2>3. TokenInv'
      BY <1>13, <2>1, <2>2, MarkStep DEF MarkFailed
  <2>4. ClearsToken \/ ~AckLoss => status[cur[w]] # "applied"
      BY <2>1 DEF TokenInv, SettledIsReleased, HoldsLease
  <2> QED
      BY <1>13, <2>1, <2>3, <2>4 DEF MarkFailed, Mark, Stands
<1> QED
    BY <1>0, <1>1, <1>2, <1>3, <1>4, <1>5, <1>6, <1>7, <1>8, <1>9, <1>10, <1>11, <1>12, <1>13
    DEF Next, Continue, Disturb

\* A lease token is current for one worker at most and for none once its row
\* is applied.
THEOREM TokensAlwaysFence == Spec => []TokenInv
<1>1. Init => TokenInv
    BY DEF Init, TokenInv, TokensIssued, TokensDistinct, InHand, SettledIsReleased, Free, Batch
<1> QED
    BY <1>1, HandInit, HandStep, TokenStep, PTL DEF Spec

\* An applied row is applied for good when marks clear the token, or no reply
\* is lost.
THEOREM AppliedAlwaysStands == Spec => AppliedStands
<1>1. Init => TokenInv
    BY DEF Init, TokenInv, TokensIssued, TokensDistinct, InHand, SettledIsReleased, Free, Batch
<1>2. HandInv /\ HandInv' /\ TokenInv /\ [Next]_vars
      => [(ClearsToken \/ ~AckLoss) =>
            \A e \in Events : status[e] = "applied" => status'[e] = "applied"]_vars
    BY TokenStep DEF Stands
<1> QED
    BY <1>1, <1>2, HandInit, HandStep, TokenStep, PTL DEF Spec, AppliedStands

---------------------------------------------------------------------------
(* Leases are respected: only a row in processing has an unexpired lease. *)

LiveInv == \A e \in Events : live[e] => status[e] = "processing"

Dispossesses ==
    \E e \in Events : live[e] /\ attempts'[e] # attempts[e]

\* Every step keeps unexpired leases on rows in processing, and claims none.
LEMMA LiveStep == HandInv /\ LiveInv /\ [Next]_vars => LiveInv' /\ ~Dispossesses
<1> SUFFICES ASSUME HandInv, LiveInv, [Next]_vars PROVE LiveInv' /\ ~Dispossesses
    OBVIOUS
<1> USE DEF HandInv, TypeOK, LiveInv, Dispossesses
<1>1. CASE UNCHANGED row
    BY <1>1 DEF row
<1>2. ASSUME NEW e \in Events, Enqueued(e) PROVE LiveInv' /\ ~Dispossesses
    BY <1>2 DEF Enqueued
<1>3. ASSUME NEW w \in Workers, NEW S \in SUBSET Events, Lease(w, S), \A e \in S : Claimable(e)
      PROVE  LiveInv' /\ ~Dispossesses
    BY <1>3 DEF Lease, Claimable
<1>4. ASSUME NEW e \in Events, NEW outcome \in {"applied", "failed"}, Mark(e, outcome)
      PROVE  LiveInv' /\ ~Dispossesses
    BY <1>4 DEF Mark
<1>5. ASSUME NEW e \in Events, Expire(e) PROVE LiveInv' /\ ~Dispossesses
    BY <1>5 DEF Expire
<1>6. ASSUME NEW w \in Workers, Continue(w) \/ Disturb(w) PROVE LiveInv' /\ ~Dispossesses
  <2>1. CASE EnqueueOwn(w)
      BY <2>1, <1>2 DEF EnqueueOwn, At, InHand
  <2>2. CASE EnqueueNext(w)
      BY <2>2, <1>2 DEF EnqueueNext
  <2>3. CASE ClaimOwn(w)
    <3>1. {cur[w]} \in SUBSET Events /\ Lease(w, {cur[w]}) /\ \A e \in {cur[w]} : Claimable(e)
        BY <2>3 DEF ClaimOwn, At, InHand
    <3> QED
        BY <3>1, <1>3
  <2>4. CASE ClaimBatch(w)
      BY <2>4, <1>3 DEF ClaimBatch
  <2>5. CASE MarkApplied(w) \/ AckLost(w)
      BY <2>5, <1>4 DEF MarkApplied, AckLost, At, InHand, Batch
  <2>6. CASE MarkFailed(w)
      BY <2>6, <1>4 DEF MarkFailed, At, InHand, Batch
  <2>7. CASE UNCHANGED row
      BY <2>7, <1>1
  <2> QED
      BY <1>6, <2>1, <2>2, <2>3, <2>4, <2>5, <2>6, <2>7
      DEF Continue, Disturb, ClaimNothing, ReadStatus, Deliver, AckRefused, NackRefused,
          Unavailable, DeliverFails, Crash
<1>7. ASSUME NEW w \in Controllers, NEW e \in Events, Apply(w, e)
      PROVE  LiveInv' /\ ~Dispossesses
    BY <1>7, <1>1, <1>2 DEF Apply
<1> QED
    BY <1>1, <1>5, <1>6, <1>7 DEF Next, ApplyStated, Reconcile, RunOnce, vars

\* No claim takes an event whose lease has not run out.
THEOREM LeasesAlwaysRespected == Spec => LeaseRespected
<1>1. Init => LiveInv
    BY DEF Init, LiveInv
<1>2. HandInv /\ LiveInv /\ [Next]_vars
      => [\A w \in Workers, e \in Events :
            (held[w][e] # 0 /\ held[w][e] = lease[e] /\ live[e])
                => attempts'[e] = attempts[e]]_vars
    BY LiveStep DEF Dispossesses
<1> QED
    BY <1>1, <1>2, HandInit, HandStep, LiveStep, PTL DEF Spec, LeaseRespected

---------------------------------------------------------------------------
(* The contract.  Only ledger events are ever enqueued, so only they can   *)
(* be claimed and written; HonestInv says the rest.                        *)

LedgerInv ==
    /\ \A e \in Events : status[e] # "absent" => e \in ledger
    /\ \A w \in Workers : /\ Batch(w) \subseteq ledger
                          /\ todo[w] \subseteq ledger
                          /\ pc[w] \in {"enqueue", "claim", "status"} => cur[w] \in ledger

\* Every step enqueues, claims and carries ledger events only.
LEMMA LedgerStep == HandInv /\ LedgerInv /\ [Next]_vars => LedgerInv'
<1> SUFFICES ASSUME HandInv, LedgerInv, [Next]_vars PROVE LedgerInv'
    OBVIOUS
<1> USE DEF LedgerInv, HandInv, TypeOK, Go, At, Batch
<1>1. CASE UNCHANGED vars
    BY <1>1 DEF vars, row, job
<1>2. ASSUME NEW w \in Controllers, NEW e \in Events, Apply(w, e) PROVE LedgerInv'
    BY <1>2 DEF Apply, Enqueued, row
<1>3. ASSUME NEW e \in Events, ApplyStated(e) PROVE LedgerInv'
    BY <1>3 DEF ApplyStated, row, job
<1>4. ASSUME NEW e \in Events, Expire(e) PROVE LedgerInv'
    BY <1>4 DEF Expire, job
<1>5. ASSUME NEW w \in Recoverers, Reconcile(w) \/ RunOnce(w) PROVE LedgerInv'
    BY <1>5 DEF Reconcile, RunOnce, row
<1>6. ASSUME NEW w \in Workers, Continue(w) PROVE LedgerInv'
  <2>1. CASE EnqueueOwn(w)
      BY <2>1 DEF EnqueueOwn, Enqueued
  <2>2. CASE ClaimOwn(w)
      BY <2>2 DEF ClaimOwn, Lease
  <2>3. CASE ClaimNothing(w)
      BY <2>3 DEF ClaimNothing, row
  <2>4. CASE ReadStatus(w)
      BY <2>4 DEF ReadStatus, Leave, Free, row
  <2>5. CASE EnqueueNext(w)
      BY <2>5 DEF EnqueueNext, Enqueued
  <2>6. CASE ClaimBatch(w)
    <3>1. PICK S \in SUBSET Events :
              /\ Lease(w, S) /\ \A e \in S : Claimable(e)
              /\ pc' = [pc EXCEPT ![w] = IF S = {} THEN "idle" ELSE "deliver"]
        BY <2>6 DEF ClaimBatch
    <3>2. \A e \in S : e \in ledger
        BY <3>1 DEF Claimable
    <3> QED
        BY <2>6, <3>1, <3>2 DEF ClaimBatch, Lease
  <2>7. CASE Deliver(w)
      BY <2>7 DEF Deliver, row
  <2>8. CASE MarkApplied(w) \/ MarkFailed(w)
    <3>1. /\ cur[w] \in Events /\ cur[w] \in ledger /\ ledger' = ledger
          /\ Leave(w) \/ NextInBatch(w)
          /\ \A e \in Events : status'[e] # "absent" => e \in ledger
        BY <2>8 DEF MarkApplied, MarkFailed, Mark, InHand
    <3> QED
        BY <3>1 DEF Leave, NextInBatch, Free
  <2>9. CASE AckRefused(w)
      BY <2>9 DEF AckRefused, AckRaised, Leave, Free, row
  <2>10. CASE NackRefused(w)
      BY <2>10 DEF NackRefused, Leave, Free, row
  <2> QED
      BY <1>6, <2>1, <2>2, <2>3, <2>4, <2>5, <2>6, <2>7, <2>8, <2>9, <2>10 DEF Continue
<1>7. ASSUME NEW w \in Workers, Disturb(w) PROVE LedgerInv'
  <2>1. CASE Unavailable(w) \/ Crash(w)
      BY <2>1 DEF Unavailable, Crash, Leave, Free, row
  <2>2. CASE DeliverFails(w)
      BY <2>2 DEF DeliverFails, row
  <2>3. CASE AckLost(w)
    <3>1. /\ cur[w] \in Events /\ cur[w] \in ledger /\ ledger' = ledger /\ AckRaised(w)
          /\ \A e \in Events : status'[e] # "absent" => e \in ledger
        BY <2>3 DEF AckLost, Mark, InHand
    <3> QED
        BY <3>1 DEF AckRaised, Leave, Free
  <2> QED
      BY <1>7, <2>1, <2>2, <2>3 DEF Disturb
<1> QED
    BY <1>1, <1>2, <1>3, <1>4, <1>5, <1>6, <1>7 DEF Next

\* The outbox implements LedgerDelivery with either adapter, for any number of
\* callers, recovery jobs, batches, lost leases, crashes and lost replies: an
\* event is written downstream only after it is in the ledger, marked applied
\* only after it is written, and answered only by an applied row.
THEOREM OutboxDeliversLedger == Spec => DeliversLedger
<1> DEFINE Step == [Contract!Next]_(Contract!deliveryVars)
<1>1. Init => Contract!Init
    BY DEF Init, Contract!Init
<1>2. HandInv /\ HonestInv /\ LedgerInv /\ [Next]_vars => Step
  <2> SUFFICES ASSUME HandInv, HonestInv, LedgerInv, [Next]_vars PROVE Step
      OBVIOUS
  <2> USE DEF HandInv, TypeOK, Go, At, Contract!Next, Contract!deliveryVars
  <2> DEFINE Same == ledger' = ledger /\ delivered' = delivered /\ told' = told
             Rows == \A e \in Events : (status'[e] = "applied") <=> (status[e] = "applied")
  <2>0. Same /\ Rows => Step
      OBVIOUS
  <2>1. CASE UNCHANGED vars
      BY <2>1 DEF vars, row
  <2>2. ASSUME NEW e \in Events, ledger' = ledger \cup {e}, Rows,
               delivered' = delivered, told' = told
        PROVE Step
      BY <2>2 DEF Contract!Record
  <2>3. ASSUME NEW w \in Controllers, NEW e \in Events, Apply(w, e) PROVE Step
      BY <2>2, <2>3 DEF Apply, Enqueued, row
  <2>4. ASSUME NEW e \in Events, ApplyStated(e) PROVE Step
      BY <2>2, <2>4 DEF ApplyStated, row
  <2>5. ASSUME NEW e \in Events, Expire(e) PROVE Same /\ Rows
      BY <2>5 DEF Expire
  <2>6. ASSUME NEW w \in Recoverers, Reconcile(w) \/ RunOnce(w) PROVE Same /\ Rows
      BY <2>6 DEF Reconcile, RunOnce, row
  <2>7. ASSUME NEW w \in Workers, EnqueueOwn(w) \/ EnqueueNext(w) PROVE Same /\ Rows
      BY <2>7 DEF EnqueueOwn, EnqueueNext, Enqueued, InHand
  <2>8. ASSUME NEW w \in Workers, ClaimOwn(w) PROVE Same /\ Rows
      BY <2>8 DEF ClaimOwn, Lease, Claimable
  <2>9. ASSUME NEW w \in Workers, ClaimBatch(w) PROVE Same /\ Rows
    <3>1. PICK S \in SUBSET Events : Lease(w, S) /\ \A e \in S : Claimable(e)
        BY <2>9 DEF ClaimBatch
    <3> QED
        BY <2>9, <3>1 DEF ClaimBatch, Lease, Claimable
  <2>10. ASSUME NEW w \in Workers,
                \/ ClaimNothing(w) \/ AckRefused(w) \/ NackRefused(w)
                \/ Unavailable(w) \/ Crash(w)
         PROVE Same /\ Rows
      BY <2>10 DEF ClaimNothing, AckRefused, NackRefused, Unavailable, Crash, row
  <2>11. ASSUME NEW w \in Workers, ReadStatus(w) PROVE Step
    <3>1. PICK e \in Events : e = cur[w]
        BY <2>11 DEF ReadStatus, InHand
    <3>2. CASE status[e] = "applied"
      <4>1. Contract!Answer(e)
          BY <2>11, <3>1, <3>2 DEF ReadStatus, row, Contract!Answer
      <4> QED
          BY <4>1
    <3>3. CASE status[e] # "applied"
        BY <2>0, <2>11, <3>1, <3>3 DEF ReadStatus, row
    <3> QED
        BY <3>2, <3>3
  <2>12. ASSUME NEW w \in Workers, Deliver(w) \/ DeliverFails(w) PROVE Step
    <3>1. PICK e \in Batch(w) : delivered' \in {delivered, delivered \cup {e}}
        BY <2>12 DEF Deliver, DeliverFails
    <3>2. status' = status /\ ledger' = ledger /\ told' = told /\ e \in Events /\ e \in ledger
        BY <2>12, <3>1 DEF Deliver, DeliverFails, row, LedgerInv, Batch
    <3>3. CASE delivered' = delivered \cup {e}
      <4>1. Contract!Write(e)
          BY <3>2, <3>3 DEF Contract!Write
      <4> QED
          BY <3>2, <4>1
    <3> QED
        BY <2>0, <3>1, <3>2, <3>3
  <2>13. ASSUME NEW w \in Workers, MarkApplied(w) \/ AckLost(w) PROVE Step
    <3>1. PICK e \in Events : e = cur[w]
        BY <2>13 DEF MarkApplied, AckLost, InHand, Batch
    <3>2. /\ e \in delivered
          /\ status' = [status EXCEPT ![e] = "applied"]
          /\ ledger' = ledger /\ delivered' = delivered
          /\ told' \in {told, told \cup {e}}
        BY <2>13, <3>1 DEF MarkApplied, AckLost, Mark, HonestInv
    <3>3. Contract!Settle(e)
        BY <3>2 DEF Contract!Settle
    <3> QED
        BY <3>3
  <2>14. ASSUME NEW w \in Workers, MarkFailed(w) PROVE Step
    <3>1. PICK e \in Events : e = cur[w]
        BY <2>14 DEF MarkFailed, InHand, Batch
    <3>2. status' = [status EXCEPT ![e] = "failed"] /\ Same
        BY <2>14, <3>1 DEF MarkFailed, Mark
    <3>3. Contract!Reopen(e)
        BY <3>2 DEF Contract!Reopen
    <3> QED
        BY <3>3
  <2> QED
      BY <2>0, <2>1, <2>3, <2>4, <2>5, <2>6, <2>7, <2>8, <2>9, <2>10, <2>11, <2>12, <2>13, <2>14
      DEF Next, Continue, Disturb
<1>3. Init => HonestInv /\ LedgerInv
    BY DEF Init, HonestInv, LedgerInv, Batch, Free
<1> QED
    BY <1>1, <1>2, <1>3, HandInit, HandStep, HonestStep, LedgerStep, PTL
    DEF Spec, DeliversLedger, Contract!Spec
=============================================================================
