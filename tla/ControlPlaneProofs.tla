------------------------- MODULE ControlPlaneProofs -------------------------
(***************************************************************************)
(* Proofs about ControlPlane: a replay restores nothing that was forgotten *)
(* and a cutover carries every dual write, for any number of generations,  *)
(* sources, processes, batches and crashes.                                *)
(***************************************************************************)
EXTENDS ControlPlane, TLAPS

-----------------------------------------------------------------------------
(* Type correctness.  A route is well typed only because the commands that *)
(* write one have generations in hand.                                     *)

Placed ==
    \A p \in Procs :
        /\ pc[p] \in {"routing", "checking", "verified", "swap"} => store[p] \in Gens
        /\ pc[p] \in {"checking", "verified", "swap"} => shadow[p] \in Gens

JobInv == JobTypeOK /\ Placed
TypeInv == TypeOK /\ Placed

\* A process that ends leaves its locks and its locals well typed.
LEMMA StopTypes ==
    ASSUME LockTypeOK, JobInv, NEW p \in Procs, Stop(p)
    PROVE  LockTypeOK' /\ JobInv'
<1> USE DEF JobInv, JobTypeOK, Placed
<1>1. LockTypeOK'
    BY DEF Stop, LockTypeOK
<1>2. pc' \in [Procs -> Steps]
    BY DEF Stop, Go, Steps
<1>3. /\ store' \in [Procs -> Gens \cup {Nil}] /\ shadow' \in [Procs -> Gens \cup {Nil}]
      /\ work' \in [Procs -> SUBSET Sources] /\ found' \in [Procs -> SUBSET Sources]
      /\ opened' \in [Procs -> SUBSET (Gens \cup {Nil})]
    BY DEF Stop
<1>4. /\ mine' \in [Procs -> 0..MaxBatches] /\ event' \in [Procs -> 0..MaxBatches]
      /\ mark' \in [Procs -> 0..MaxBatches]
    BY PlaneBounds DEF Stop
<1>5. hand' \in [Procs -> [Batches -> SUBSET Sources]]
    BY DEF Stop
<1>6. Placed'
    BY DEF Stop, Go
<1> QED
    BY <1>1, <1>2, <1>3, <1>4, <1>5, <1>6

\* A write or a delete keeps the type of the tables.
LEMMA PutTypes ==
    ASSUME PlaneTypeOK, NEW gs, NEW S, NEW n \in 0..MaxBatches, Put(gs, S, n)
    PROVE  rows' \in [Gens -> [Sources -> 0..MaxBatches]]
BY DEF Put, PlaneTypeOK

\* So does taking a generation off what an event owes.
LEMMA ReachTypes ==
    ASSUME OutboxTypeOK, NEW i, NEW g, Reach(i, g)
    PROVE  owed' \in [Batches -> SUBSET (Gens \cup {Nil})]
BY DEF Reach, OutboxTypeOK

\* A replay's hand stays a payload for each event as it is used up.
LEMMA UseTypes ==
    ASSUME NEW h \in [Procs -> [Batches -> SUBSET Sources]], NEW r \in Procs,
           NEW i \in Batches
    PROVE  [h EXCEPT ![r][i] = {}] \in [Procs -> [Batches -> SUBSET Sources]]
OBVIOUS

\* What a request is told of the route is a route.
LEMMA ReadTypes ==
    ASSUME PlaneTypeOK, NEW v \in RouteReads PROVE v \in Views
BY DEF RouteReads, View, PlaneTypeOK, Routes, Views, States

\* The initial state is well typed.
LEMMA TypeInit == Init => TypeInv
BY PlaneFirst, PlaneBounds
   DEF Init, View, TypeInv, TypeOK, PlaneTypeOK, OutboxTypeOK, LockTypeOK, JobTypeOK, BoundTypeOK,
       Placed, Procs, Batches, States, Routes, Views, Steps

\* Every step keeps the types.
LEMMA TypeStep == TypeInv /\ [Next]_vars => TypeInv'
<1> SUFFICES ASSUME TypeInv, [Next]_vars PROVE TypeInv'
    OBVIOUS
<1>0. PlaneTypeOK /\ OutboxTypeOK /\ LockTypeOK /\ JobInv /\ BoundTypeOK
    BY DEF TypeInv, TypeOK, JobInv
<1>1. CASE UNCHANGED vars
    BY <1>0, <1>1 DEF vars, plane, outbox, locks, jobs, bounds, history, TypeInv, TypeOK,
        PlaneTypeOK, OutboxTypeOK, LockTypeOK, JobInv, JobTypeOK, Placed, BoundTypeOK
<1>2. ASSUME NEW x \in Indexers, GetForIndex(x) PROVE TypeInv'
  <2>1. PlaneTypeOK'
      BY <1>0, <1>2, ReadTypes DEF GetForIndex, GetStore, PlaneTypeOK, plane
  <2>2. JobInv'
      BY <1>0, <1>2, ReadTypes DEF GetForIndex, GetStore, Views, JobInv, JobTypeOK, Placed, Go,
          Steps, Procs
  <2>3. OutboxTypeOK' /\ LockTypeOK' /\ BoundTypeOK'
      BY <1>0, <1>2 DEF GetForIndex, GetStore, OutboxTypeOK, outbox, history, LockTypeOK, locks,
          BoundTypeOK, bounds
  <2> QED BY <2>1, <2>2, <2>3 DEF TypeInv, TypeOK, JobInv
<1>3. ASSUME NEW x \in Indexers, NEW g \in Tables, OpenTable(x, g) PROVE TypeInv'
  <2>1. JobInv'
      BY <1>0, <1>3, PlaneFirst DEF OpenTable, JobInv, JobTypeOK, Placed, Go, Steps, Procs
  <2>2. PlaneTypeOK' /\ OutboxTypeOK' /\ LockTypeOK' /\ BoundTypeOK'
      BY <1>0, <1>3 DEF OpenTable, PlaneTypeOK, plane, OutboxTypeOK, outbox, history,
          LockTypeOK, locks, BoundTypeOK, bounds
  <2> QED BY <2>1, <2>2 DEF TypeInv, TypeOK, JobInv
<1>4. ASSUME NEW x \in Indexers, LockTable(x) PROVE TypeInv'
  <2>1. LockTypeOK' /\ JobInv'
    <3>1. CASE Stop(x)
        BY <1>0, <1>4, <3>1, StopTypes DEF Procs
    <3>2. CASE ~Stop(x)
      <4>1. LockTypeOK'
          BY <1>0, <1>4, <3>2, PlaneFirst DEF LockTable, LockTypeOK, Procs
      <4>2. JobInv'
          BY <1>0, <1>4, <3>2 DEF LockTable, jobs, JobInv, JobTypeOK, Placed, Go, Steps, Procs
      <4> QED BY <4>1, <4>2
    <3> QED BY <3>1, <3>2
  <2>2. PlaneTypeOK' /\ OutboxTypeOK' /\ BoundTypeOK'
      BY <1>0, <1>4 DEF LockTable, PlaneTypeOK, plane, OutboxTypeOK, outbox, history,
          BoundTypeOK, bounds
  <2> QED BY <2>1, <2>2 DEF TypeInv, TypeOK, JobInv
<1>5. ASSUME NEW x \in Indexers, PruneVanished(x) PROVE TypeInv'
  <2>1. PlaneTypeOK'
      BY <1>0, <1>5, PutTypes, PlaneBounds, 0 \in 0..MaxBatches DEF PruneVanished, PlaneTypeOK,
          plane
  <2>2. JobInv'
      BY <1>0, <1>5 DEF PruneVanished, JobInv, JobTypeOK, Placed, Go, Steps, Procs
  <2>3. OutboxTypeOK' /\ LockTypeOK' /\ BoundTypeOK'
      BY <1>0, <1>5 DEF PruneVanished, OutboxTypeOK, outbox, history, LockTypeOK, locks,
          BoundTypeOK, bounds
  <2> QED BY <2>1, <2>2, <2>3 DEF TypeInv, TypeOK, JobInv
<1>6. ASSUME NEW x \in Indexers, ReadBatch(x) PROVE TypeInv'
  <2>1. BoundTypeOK'
      BY <1>0, <1>6, PlaneBounds DEF ReadBatch, BoundTypeOK
  <2>2. JobInv'
      BY <1>0, <1>6, PlaneInputs, PlaneBounds DEF ReadBatch, BoundTypeOK, JobInv, JobTypeOK,
          Placed, Go, Steps, Procs
  <2>3. PlaneTypeOK' /\ OutboxTypeOK' /\ LockTypeOK'
      BY <1>0, <1>6 DEF ReadBatch, PlaneTypeOK, plane, OutboxTypeOK, outbox, history,
          LockTypeOK, locks
  <2> QED BY <2>1, <2>2, <2>3 DEF TypeInv, TypeOK, JobInv
<1>7. ASSUME NEW x \in Indexers, FinishIndex(x) PROVE TypeInv'
  <2>1. LockTypeOK' /\ JobInv'
      BY <1>0, <1>7, StopTypes DEF FinishIndex, Procs
  <2>2. PlaneTypeOK' /\ OutboxTypeOK' /\ BoundTypeOK'
      BY <1>0, <1>7 DEF FinishIndex, PlaneTypeOK, plane, OutboxTypeOK, outbox, history,
          BoundTypeOK, bounds
  <2> QED BY <2>1, <2>2 DEF TypeInv, TypeOK, JobInv
<1>8. ASSUME NEW x \in Indexers, AppendEvent(x) PROVE TypeInv'
  <2>1. OutboxTypeOK'
      BY <1>0, <1>8, PlaneBounds DEF AppendEvent, OutboxTypeOK, JobInv, JobTypeOK, Procs,
          Batches
  <2>2. JobInv'
      BY <1>0, <1>8, PlaneBounds DEF AppendEvent, OutboxTypeOK, JobInv, JobTypeOK, Placed, Go,
          Steps, Procs
  <2>3. PlaneTypeOK' /\ LockTypeOK' /\ BoundTypeOK'
      BY <1>0, <1>8 DEF AppendEvent, PlaneTypeOK, plane, LockTypeOK, locks, BoundTypeOK, bounds
  <2> QED BY <2>1, <2>2, <2>3 DEF TypeInv, TypeOK, JobInv
<1>9. ASSUME NEW x \in Indexers, WriteActive(x) PROVE TypeInv'
  <2>1. PlaneTypeOK'
      BY <1>0, <1>9, PutTypes DEF WriteActive, PlaneTypeOK, plane, JobInv, JobTypeOK, Procs
  <2>2. OutboxTypeOK'
      BY <1>0, <1>9, ReachTypes DEF WriteActive, OutboxTypeOK, outbox
  <2>3. JobInv'
      BY <1>0, <1>9 DEF WriteActive, jobs, JobInv, JobTypeOK, Placed, Go, Steps, Procs
  <2>4. LockTypeOK' /\ BoundTypeOK'
      BY <1>0, <1>9 DEF WriteActive, LockTypeOK, locks, BoundTypeOK, bounds
  <2> QED BY <2>1, <2>2, <2>3, <2>4 DEF TypeInv, TypeOK, JobInv
<1>10. ASSUME NEW x \in Indexers, WriteShadow(x) PROVE TypeInv'
  <2>1. PlaneTypeOK'
      BY <1>0, <1>10, PutTypes DEF WriteShadow, PlaneTypeOK, plane, JobInv, JobTypeOK, Procs
  <2>2. OutboxTypeOK'
      BY <1>0, <1>10, ReachTypes DEF WriteShadow, OutboxTypeOK, outbox
  <2>3. JobInv'
      BY <1>0, <1>10 DEF WriteShadow, jobs, JobInv, JobTypeOK, Placed, Go, Steps, Procs
  <2>4. LockTypeOK' /\ BoundTypeOK'
      BY <1>0, <1>10 DEF WriteShadow, LockTypeOK, locks, BoundTypeOK, bounds
  <2> QED BY <2>1, <2>2, <2>3, <2>4 DEF TypeInv, TypeOK, JobInv
<1>11. ASSUME NEW x \in Indexers, CompleteEvent(x) PROVE TypeInv'
  <2>1. OutboxTypeOK'
      BY <1>0, <1>11 DEF CompleteEvent, MarkComplete, OutboxTypeOK, history
  <2>2. LockTypeOK' /\ JobInv'
    <3>1. CASE Stop(x)
        BY <1>0, <1>11, <3>1, StopTypes DEF Procs
    <3>2. CASE ~Stop(x)
      <4>1. LockTypeOK'
          BY <1>0, <1>11, <3>2 DEF CompleteEvent, LockTypeOK, locks
      <4>2. JobInv'
          BY <1>0, <1>11, <3>2, PlaneBounds DEF CompleteEvent, JobInv, JobTypeOK, Placed, Go,
              Steps, Procs
      <4> QED BY <4>1, <4>2
    <3> QED BY <3>1, <3>2
  <2>3. PlaneTypeOK' /\ BoundTypeOK'
      BY <1>0, <1>11 DEF CompleteEvent, PlaneTypeOK, plane, BoundTypeOK, bounds
  <2> QED BY <2>1, <2>2, <2>3 DEF TypeInv, TypeOK, JobInv
<1>12. ASSUME NEW f \in Forgetters, GetForForget(f) PROVE TypeInv'
  <2>1. PlaneTypeOK'
      BY <1>0, <1>12, ReadTypes DEF GetForForget, GetStore, PlaneTypeOK, plane
  <2>2. BoundTypeOK'
      BY <1>0, <1>12, PlaneBounds DEF GetForForget, GetStore, BoundTypeOK
  <2>3. JobInv'
      BY <1>0, <1>12, ReadTypes, PlaneInputs DEF GetForForget, GetStore, Views, JobInv,
          JobTypeOK, Placed, Go, Steps, Procs
  <2>4. OutboxTypeOK' /\ LockTypeOK'
      BY <1>0, <1>12 DEF GetForForget, GetStore, OutboxTypeOK, outbox, history, LockTypeOK,
          locks
  <2> QED BY <2>1, <2>2, <2>3, <2>4 DEF TypeInv, TypeOK, JobInv
<1>13. ASSUME NEW f \in Forgetters, LockOutbox(f) PROVE TypeInv'
  <2>1. LockTypeOK' /\ JobInv'
    <3>1. CASE Stop(f)
        BY <1>0, <1>13, <3>1, StopTypes DEF Procs
    <3>2. CASE ~Stop(f)
      <4>1. LockTypeOK'
          BY <1>0, <1>13, <3>2 DEF LockOutbox, LockTypeOK, Procs
      <4>2. JobInv'
          BY <1>0, <1>13, <3>2 DEF LockOutbox, JobInv, JobTypeOK, Placed, Go, Steps, Procs
      <4> QED BY <4>1, <4>2
    <3> QED BY <3>1, <3>2
  <2>2. PlaneTypeOK' /\ OutboxTypeOK' /\ BoundTypeOK'
      BY <1>0, <1>13 DEF LockOutbox, PlaneTypeOK, plane, OutboxTypeOK, outbox, history,
          BoundTypeOK, bounds
  <2> QED BY <2>1, <2>2 DEF TypeInv, TypeOK, JobInv
<1>14. ASSUME NEW f \in Forgetters, DeleteAcross(f) PROVE TypeInv'
  <2>1. PlaneTypeOK'
      BY <1>0, <1>14, PutTypes, PlaneBounds, 0 \in 0..MaxBatches DEF DeleteAcross, PlaneTypeOK,
          plane
  <2>2. JobInv'
      BY <1>0, <1>14 DEF DeleteAcross, JobInv, JobTypeOK, Placed, Go, Steps, Procs
  <2>3. OutboxTypeOK' /\ LockTypeOK' /\ BoundTypeOK'
      BY <1>0, <1>14 DEF DeleteAcross, OutboxTypeOK, outbox, history, LockTypeOK, locks,
          BoundTypeOK, bounds
  <2> QED BY <2>1, <2>2, <2>3 DEF TypeInv, TypeOK, JobInv
<1>15. ASSUME NEW f \in Forgetters, ScrubPending(f) PROVE TypeInv'
  <2>1. OutboxTypeOK'
      BY <1>0, <1>15 DEF ScrubPending, OutboxTypeOK
  <2>2. LockTypeOK' /\ JobInv'
      BY <1>0, <1>15, StopTypes DEF ScrubPending, Procs
  <2>3. PlaneTypeOK' /\ BoundTypeOK'
      BY <1>0, <1>15 DEF ScrubPending, PlaneTypeOK, plane, BoundTypeOK, bounds
  <2> QED BY <2>1, <2>2, <2>3 DEF TypeInv, TypeOK, JobInv
<1>16. ASSUME NEW f \in Forgetters, ScrubFails(f) PROVE TypeInv'
  <2>1. BoundTypeOK'
      BY <1>0, <1>16, PlaneBounds DEF ScrubFails, BoundTypeOK
  <2>2. LockTypeOK' /\ JobInv'
      BY <1>0, <1>16, StopTypes DEF ScrubFails, Procs
  <2>3. PlaneTypeOK' /\ OutboxTypeOK'
      BY <1>0, <1>16 DEF ScrubFails, PlaneTypeOK, plane, OutboxTypeOK, outbox, history
  <2> QED BY <2>1, <2>2, <2>3 DEF TypeInv, TypeOK, JobInv
<1>17. ASSUME NEW p \in Indexers \cup Forgetters, GetRefused(p) PROVE TypeInv'
  <2>1. PlaneTypeOK'
      BY <1>0, <1>17, ReadTypes DEF GetRefused, PlaneTypeOK, plane
  <2>2. OutboxTypeOK' /\ LockTypeOK' /\ JobInv' /\ BoundTypeOK'
      BY <1>0, <1>17 DEF GetRefused, OutboxTypeOK, outbox, history, LockTypeOK, locks,
          JobTypeOK, Placed, jobs, BoundTypeOK, bounds, JobInv
  <2> QED BY <2>1, <2>2 DEF TypeInv, TypeOK, JobInv
<1>18. ASSUME NEW p \in Indexers \cup Forgetters, GetShadow(p) PROVE TypeInv'
  <2>1. PlaneTypeOK'
      BY <1>0, <1>18, ReadTypes DEF GetShadow, PlaneTypeOK, plane
  <2>2. LockTypeOK' /\ JobInv'
    <3>1. CASE Stop(p)
        BY <1>0, <1>18, <3>1, StopTypes DEF Procs
    <3>2. CASE ~Stop(p)
      <4>1. LockTypeOK'
          BY <1>0, <1>18, <3>2 DEF GetShadow, LockTypeOK, locks
      <4>2. JobInv'
          BY <1>0, <1>18, <3>2, ReadTypes DEF GetShadow, Views, PlaneTypeOK, JobInv, JobTypeOK,
              Placed, Go, Steps, Procs
      <4> QED BY <4>1, <4>2
    <3> QED BY <3>1, <3>2
  <2>3. OutboxTypeOK' /\ BoundTypeOK'
      BY <1>0, <1>18 DEF GetShadow, OutboxTypeOK, outbox, history, BoundTypeOK, bounds
  <2> QED BY <2>1, <2>2, <2>3 DEF TypeInv, TypeOK, JobInv
<1>19. ASSUME NEW r \in Replayers, OpenStores(r) PROVE TypeInv'
  <2>1. JobInv'
      BY <1>0, <1>19 DEF OpenStores, Named, Pending, OutboxTypeOK, JobInv, JobTypeOK, Placed,
          Go, Steps, Procs
  <2>2. PlaneTypeOK' /\ OutboxTypeOK' /\ LockTypeOK' /\ BoundTypeOK'
      BY <1>0, <1>19 DEF OpenStores, PlaneTypeOK, plane, OutboxTypeOK, outbox, history,
          LockTypeOK, locks, BoundTypeOK, bounds
  <2> QED BY <2>1, <2>2 DEF TypeInv, TypeOK, JobInv
<1>20. ASSUME NEW r \in Replayers, ReadPending(r) PROVE TypeInv'
  <2>1. LockTypeOK' /\ JobInv'
    <3>1. CASE Stop(r)
        BY <1>0, <1>20, <3>1, StopTypes DEF Procs
    <3>2. CASE ~Stop(r)
      <4>1. LockTypeOK'
          BY <1>0, <1>20, <3>2 DEF ReadPending, LockTypeOK, Procs
      <4>2. JobInv'
        <5>1. r \in Procs /\ hand \in [Procs -> [Batches -> SUBSET Sources]]
            BY <1>0 DEF Procs, JobInv, JobTypeOK
        <5>2. hand' = [hand EXCEPT ![r] =
                 [i \in Batches |-> IF i \in Pending THEN payload[i] ELSE {}]]
            BY <1>20, <3>2 DEF ReadPending
        <5>3. hand' \in [Procs -> [Batches -> SUBSET Sources]]
            BY <1>0, <1>20, <5>1, <5>2 DEF OutboxTypeOK
        <5> QED
            BY <1>0, <1>20, <3>2, <5>3 DEF ReadPending, JobInv, JobTypeOK, Placed, Go, Steps,
                Procs
      <4> QED BY <4>1, <4>2
    <3> QED BY <3>1, <3>2
  <2>2. PlaneTypeOK' /\ OutboxTypeOK' /\ BoundTypeOK'
      BY <1>0, <1>20 DEF ReadPending, PlaneTypeOK, plane, OutboxTypeOK, outbox, history,
          BoundTypeOK, bounds
  <2> QED BY <2>1, <2>2 DEF TypeInv, TypeOK, JobInv
<1>21. ASSUME NEW r \in Replayers, NEW i \in Batches, ReplayActive(r, i) PROVE TypeInv'
  <2>1. PlaneTypeOK'
      BY <1>0, <1>21, PutTypes DEF ReplayActive, PlaneTypeOK, plane, OutboxTypeOK
  <2>2. OutboxTypeOK'
      BY <1>0, <1>21, ReachTypes DEF ReplayActive, OutboxTypeOK, outbox
  <2>3. LockTypeOK' /\ JobInv'
    <3>1. CASE Stop(r)
        BY <1>0, <1>21, <3>1, StopTypes DEF Procs
    <3>2. CASE ~Stop(r)
      <4>1. LockTypeOK'
          BY <1>0, <1>21, <3>2 DEF ReplayActive, LockTypeOK, locks
      <4>2. JobInv'
          BY <1>0, <1>21, <3>2 DEF ReplayActive, jobs, JobInv, JobTypeOK, Placed, Go, Steps,
              Procs
      <4> QED BY <4>1, <4>2
    <3> QED BY <3>1, <3>2
  <2>4. BoundTypeOK'
      BY <1>0, <1>21 DEF ReplayActive, BoundTypeOK, bounds
  <2> QED BY <2>1, <2>2, <2>3, <2>4 DEF TypeInv, TypeOK, JobInv
<1>22. ASSUME NEW r \in Replayers, NEW i \in Batches, ReplayShadow(r, i) PROVE TypeInv'
  <2>1. PlaneTypeOK'
      BY <1>0, <1>22, PutTypes DEF ReplayShadow, PlaneTypeOK, plane, OutboxTypeOK
  <2>2. OutboxTypeOK'
      BY <1>0, <1>22, ReachTypes DEF ReplayShadow, OutboxTypeOK, outbox
  <2>3. JobInv'
      BY <1>0, <1>22 DEF ReplayShadow, jobs, JobInv, JobTypeOK, Placed, Go, Steps, Procs
  <2>4. LockTypeOK' /\ BoundTypeOK'
      BY <1>0, <1>22 DEF ReplayShadow, LockTypeOK, locks, BoundTypeOK, bounds
  <2> QED BY <2>1, <2>2, <2>3, <2>4 DEF TypeInv, TypeOK, JobInv
<1>23. ASSUME NEW r \in Replayers, NEW i \in Batches, ReplayComplete(r, i) PROVE TypeInv'
  <2>1. OutboxTypeOK'
      BY <1>0, <1>23 DEF ReplayComplete, MarkComplete, OutboxTypeOK, history
  <2>2. LockTypeOK' /\ JobInv'
    <3>1. CASE Stop(r)
        BY <1>0, <1>23, <3>1, StopTypes DEF Procs
    <3>2. CASE ~Stop(r)
      <4>1. LockTypeOK'
          BY <1>0, <1>23, <3>2 DEF ReplayComplete, LockTypeOK, locks
      <4>2. JobInv'
        <5>1. r \in Procs /\ hand \in [Procs -> [Batches -> SUBSET Sources]]
            BY <1>0 DEF Procs, JobInv, JobTypeOK
        <5>2. hand' = [hand EXCEPT ![r][i] = {}]
            BY <1>23, <3>2 DEF ReplayComplete
        <5>3. hand' \in [Procs -> [Batches -> SUBSET Sources]]
            BY <1>0, <1>23, <5>1, <5>2, UseTypes
        <5> QED
            BY <1>0, <1>23, <3>2, <5>3 DEF ReplayComplete, JobInv, JobTypeOK, Placed, Go, Steps,
                Procs
      <4> QED BY <4>1, <4>2
    <3> QED BY <3>1, <3>2
  <2>3. PlaneTypeOK' /\ BoundTypeOK'
      BY <1>0, <1>23 DEF ReplayComplete, PlaneTypeOK, plane, BoundTypeOK, bounds
  <2> QED BY <2>1, <2>2, <2>3 DEF TypeInv, TypeOK, JobInv
<1>24. ASSUME NEW r \in Replayers, ReplayDone(r) PROVE TypeInv'
  <2>1. LockTypeOK' /\ JobInv'
      BY <1>0, <1>24, StopTypes DEF ReplayDone, Procs
  <2>2. PlaneTypeOK' /\ OutboxTypeOK' /\ BoundTypeOK'
      BY <1>0, <1>24 DEF ReplayDone, PlaneTypeOK, plane, OutboxTypeOK, outbox, history,
          BoundTypeOK, bounds
  <2> QED BY <2>1, <2>2 DEF TypeInv, TypeOK, JobInv
<1>25. ASSUME NEW o \in Operators, NEW g \in Gens, CreateGeneration(o, g) PROVE TypeInv'
  <2>1. PlaneTypeOK'
      BY <1>0, <1>25 DEF CreateGeneration, PlaneTypeOK, States
  <2>2. BoundTypeOK'
      BY <1>0, <1>25, PlaneBounds DEF CreateGeneration, Command, BoundTypeOK
  <2>3. JobInv'
      BY <1>0, <1>25 DEF CreateGeneration, JobInv, JobTypeOK, Placed, Go, Steps, Procs
  <2>4. OutboxTypeOK' /\ LockTypeOK'
      BY <1>0, <1>25 DEF CreateGeneration, OutboxTypeOK, outbox, history, LockTypeOK, locks
  <2> QED BY <2>1, <2>2, <2>3, <2>4 DEF TypeInv, TypeOK, JobInv
<1>26. ASSUME NEW o \in Operators, TableCreated(o) PROVE TypeInv'
  <2>1. LockTypeOK' /\ JobInv'
      BY <1>0, <1>26, StopTypes DEF TableCreated, Procs
  <2>2. PlaneTypeOK' /\ OutboxTypeOK' /\ BoundTypeOK'
      BY <1>0, <1>26 DEF TableCreated, PlaneTypeOK, plane, OutboxTypeOK, outbox, history,
          BoundTypeOK, bounds
  <2> QED BY <2>1, <2>2 DEF TypeInv, TypeOK, JobInv
<1>27. ASSUME NEW o \in Operators, CreateFails(o) PROVE TypeInv'
  <2>1. PlaneTypeOK'
      BY <1>0, <1>27 DEF CreateFails, PlaneTypeOK, States
  <2>2. BoundTypeOK'
      BY <1>0, <1>27, PlaneBounds DEF CreateFails, BoundTypeOK
  <2>3. LockTypeOK' /\ JobInv'
      BY <1>0, <1>27, StopTypes DEF CreateFails, Procs
  <2>4. OutboxTypeOK'
      BY <1>0, <1>27 DEF CreateFails, OutboxTypeOK, outbox, history
  <2> QED BY <2>1, <2>2, <2>3, <2>4 DEF TypeInv, TypeOK, JobInv
<1>28. ASSUME NEW o \in Operators, NEW a \in Gens, NEW s \in Gens \cup {Nil}, ReadStates(o, a,
       s) PROVE TypeInv'
  <2>1. BoundTypeOK'
      BY <1>0, <1>28, PlaneBounds DEF ReadStates, Command, BoundTypeOK
  <2>2. JobInv'
      BY <1>0, <1>28 DEF ReadStates, JobInv, JobTypeOK, Placed, Go, Steps, Procs
  <2>3. PlaneTypeOK' /\ OutboxTypeOK' /\ LockTypeOK'
      BY <1>0, <1>28 DEF ReadStates, PlaneTypeOK, plane, OutboxTypeOK, outbox, history,
          LockTypeOK, locks
  <2> QED BY <2>1, <2>2, <2>3 DEF TypeInv, TypeOK, JobInv
<1>29. ASSUME NEW o \in Operators, SetRoute(o) PROVE TypeInv'
  <2>1. PlaneTypeOK'
      BY <1>0, <1>29 DEF SetRoute, PlaneTypeOK, Routes, JobInv, JobTypeOK, Placed, Procs
  <2>2. LockTypeOK' /\ JobInv'
      BY <1>0, <1>29, StopTypes DEF SetRoute, Procs
  <2>3. OutboxTypeOK' /\ BoundTypeOK'
      BY <1>0, <1>29 DEF SetRoute, OutboxTypeOK, outbox, history, BoundTypeOK, bounds
  <2> QED BY <2>1, <2>2, <2>3 DEF TypeInv, TypeOK, JobInv
<1>30. ASSUME NEW o \in Operators, CutoverBegin(o) PROVE TypeInv'
  <2>1. BoundTypeOK'
      BY <1>0, <1>30, PlaneBounds DEF CutoverBegin, Command, BoundTypeOK
  <2>2. JobInv'
      BY <1>0, <1>30 DEF CutoverBegin, PlaneTypeOK, Routes, JobInv, JobTypeOK, Placed, Go,
          Steps, Procs
  <2>3. PlaneTypeOK' /\ OutboxTypeOK' /\ LockTypeOK'
      BY <1>0, <1>30 DEF CutoverBegin, PlaneTypeOK, plane, OutboxTypeOK, outbox, history,
          LockTypeOK, locks
  <2> QED BY <2>1, <2>2, <2>3 DEF TypeInv, TypeOK, JobInv
<1>31. ASSUME NEW o \in Operators, CutoverVerify(o) PROVE TypeInv'
  <2>1. LockTypeOK' /\ JobInv'
    <3>1. CASE Stop(o)
        BY <1>0, <1>31, <3>1, StopTypes DEF Procs
    <3>2. CASE ~Stop(o)
      <4>1. LockTypeOK'
          BY <1>0, <1>31, <3>2 DEF CutoverVerify, LockTypeOK, locks
      <4>2. JobInv'
          BY <1>0, <1>31, <3>2 DEF CutoverVerify, jobs, JobInv, JobTypeOK, Placed, Go, Steps,
              Procs
      <4> QED BY <4>1, <4>2
    <3> QED BY <3>1, <3>2
  <2>2. PlaneTypeOK' /\ OutboxTypeOK' /\ BoundTypeOK'
      BY <1>0, <1>31 DEF CutoverVerify, PlaneTypeOK, plane, OutboxTypeOK, outbox, history,
          BoundTypeOK, bounds
  <2> QED BY <2>1, <2>2 DEF TypeInv, TypeOK, JobInv
<1>32. ASSUME NEW o \in Operators, CutoverLag(o) PROVE TypeInv'
  <2>1. LockTypeOK' /\ JobInv'
    <3>1. CASE Stop(o)
        BY <1>0, <1>32, <3>1, StopTypes DEF Procs
    <3>2. CASE ~Stop(o)
      <4>1. LockTypeOK'
          BY <1>0, <1>32, <3>2 DEF CutoverLag, LockTypeOK, locks
      <4>2. JobInv'
          BY <1>0, <1>32, <3>2 DEF CutoverLag, OutboxTypeOK, JobInv, JobTypeOK, Placed, Go,
              Steps, Procs
      <4> QED BY <4>1, <4>2
    <3> QED BY <3>1, <3>2
  <2>2. PlaneTypeOK' /\ OutboxTypeOK' /\ BoundTypeOK'
      BY <1>0, <1>32 DEF CutoverLag, PlaneTypeOK, plane, OutboxTypeOK, outbox, history,
          BoundTypeOK, bounds
  <2> QED BY <2>1, <2>2 DEF TypeInv, TypeOK, JobInv
<1>33. ASSUME NEW o \in Operators, CutoverSwap(o) PROVE TypeInv'
  <2>1. PlaneTypeOK'
      BY <1>0, <1>33 DEF CutoverSwap, PlaneTypeOK, Routes, JobInv, Placed, Procs
  <2>2. LockTypeOK' /\ JobInv'
      BY <1>0, <1>33, StopTypes DEF CutoverSwap, Procs
  <2>3. OutboxTypeOK' /\ BoundTypeOK'
      BY <1>0, <1>33 DEF CutoverSwap, OutboxTypeOK, outbox, history, BoundTypeOK, bounds
  <2> QED BY <2>1, <2>2, <2>3 DEF TypeInv, TypeOK, JobInv
<1>34. ASSUME NEW g \in Gens, MarkReady(g) PROVE TypeInv'
  <2>1. PlaneTypeOK'
      BY <1>0, <1>34 DEF MarkReady, PlaneTypeOK, States
  <2>2. BoundTypeOK'
      BY <1>0, <1>34, PlaneBounds DEF MarkReady, Command, BoundTypeOK
  <2>3. OutboxTypeOK' /\ LockTypeOK' /\ JobInv'
      BY <1>0, <1>34 DEF MarkReady, OutboxTypeOK, outbox, history, LockTypeOK, locks, JobTypeOK,
          Placed, jobs, JobInv
  <2> QED BY <2>1, <2>2, <2>3 DEF TypeInv, TypeOK, JobInv
<1>35. ASSUME NEW g \in Gens, Retire(g) PROVE TypeInv'
  <2>1. PlaneTypeOK'
      BY <1>0, <1>35 DEF Retire, PlaneTypeOK, States
  <2>2. BoundTypeOK'
      BY <1>0, <1>35 DEF Retire, BoundTypeOK, bounds
  <2>3. OutboxTypeOK' /\ LockTypeOK' /\ JobInv'
      BY <1>0, <1>35 DEF Retire, OutboxTypeOK, outbox, history, LockTypeOK, locks, JobTypeOK,
          Placed, jobs, JobInv
  <2> QED BY <2>1, <2>2, <2>3 DEF TypeInv, TypeOK, JobInv
<1>36. ASSUME NEW p \in Procs, Crash(p) PROVE TypeInv'
  <2>1. BoundTypeOK'
      BY <1>0, <1>36, PlaneBounds DEF Crash, BoundTypeOK
  <2>2. LockTypeOK' /\ JobInv'
      BY <1>0, <1>36, StopTypes DEF Crash, Procs
  <2>3. PlaneTypeOK' /\ OutboxTypeOK'
      BY <1>0, <1>36 DEF Crash, PlaneTypeOK, plane, OutboxTypeOK, outbox, history
  <2> QED BY <2>1, <2>2, <2>3 DEF TypeInv, TypeOK, JobInv
<1> QED BY <1>1, <1>2, <1>3, <1>4, <1>5, <1>6, <1>7, <1>8, <1>9, <1>10, <1>11, <1>12, <1>13,
    <1>14, <1>15, <1>16, <1>17, <1>18, <1>19, <1>20, <1>21, <1>22, <1>23, <1>24, <1>25, <1>26,
    <1>27, <1>28, <1>29, <1>30, <1>31, <1>32, <1>33, <1>34, <1>35, <1>36 DEF Next, Index,
    Forget, Replay, Operate

\* Types of the registry, the outbox and every process.
THEOREM PlaneTypeCorrect == Spec => []TypeOK
<1>1. TypeInv => TypeOK
    BY DEF TypeInv
<1> QED
    BY TypeInit, TypeStep, <1>1, PTL DEF Spec

-----------------------------------------------------------------------------
(* Replay and erasure.  What was forgotten is in no payload: a forget scrubs *)
(* under the outbox lock, and whoever has payloads in hand holds that lock. *)

ScrubInv ==
    /\ \A s \in Sources : forgotAt[s] <= appended
    /\ \A i \in Batches : \A s \in payload[i] : i > forgotAt[s]
    /\ \A p \in Procs, i \in Batches : hand[p][i] # {} => outboxLock = p
    /\ \A p \in Procs, i \in Batches : \A s \in hand[p][i] : i > forgotAt[s]
    /\ \A f \in Forgetters : pc[f] \in {"delete", "scrub"} => outboxLock = f

\* A process that ends has nothing in hand.
LEMMA StopScrub ==
    ASSUME TypeInv, ScrubInv, NEW p \in Procs, Stop(p),
           UNCHANGED <<appended, payload, forgotAt>>
    PROVE  ScrubInv'
BY DEF Stop, Go, ScrubInv, TypeInv, TypeOK, JobTypeOK, Procs

\* Every step keeps the erasures.
LEMMA ScrubStep == TypeInv /\ ScrubInv /\ [Next]_vars => ScrubInv'
<1> SUFFICES ASSUME TypeInv, ScrubInv, [Next]_vars PROVE ScrubInv'
    OBVIOUS
<1>0. /\ pc \in [Procs -> Steps] /\ appended \in 0..MaxBatches
      /\ forgotAt \in [Sources -> 0..MaxBatches] /\ payload \in [Batches -> SUBSET Sources]
      /\ work \in [Procs -> SUBSET Sources] /\ hand \in [Procs -> [Batches -> SUBSET Sources]]
    BY DEF TypeInv, TypeOK, PlaneTypeOK, OutboxTypeOK, LockTypeOK, JobTypeOK
<1>1. CASE UNCHANGED vars
    BY <1>1 DEF vars, ScrubInv, Go, Procs, plane, outbox, locks, jobs, history
<1>2. ASSUME NEW x \in Indexers, GetForIndex(x) PROVE ScrubInv'
    BY <1>0, <1>2 DEF GetForIndex, GetStore, outbox, locks, jobs, history, ScrubInv, Go, Procs
<1>3. ASSUME NEW x \in Indexers, NEW g \in Tables, OpenTable(x, g) PROVE ScrubInv'
    BY <1>0, <1>3 DEF OpenTable, outbox, locks, jobs, history, ScrubInv, Go, Procs
<1>4. ASSUME NEW x \in Indexers, LockTable(x) PROVE ScrubInv'
  <2>1. CASE Stop(x)
      BY <1>4, <2>1, StopScrub DEF LockTable, Procs, outbox, history
  <2>2. CASE ~Stop(x)
      BY <1>0, <1>4, <2>2 DEF LockTable, outbox, locks, jobs, history, ScrubInv, Go, Procs
  <2> QED BY <2>1, <2>2
<1>5. ASSUME NEW x \in Indexers, PruneVanished(x) PROVE ScrubInv'
    BY <1>0, <1>5 DEF PruneVanished, outbox, locks, jobs, history, ScrubInv, Go, Procs
<1>6. ASSUME NEW x \in Indexers, ReadBatch(x) PROVE ScrubInv'
    BY <1>0, <1>6 DEF ReadBatch, outbox, locks, jobs, history, ScrubInv, Go, Procs
<1>7. ASSUME NEW x \in Indexers, FinishIndex(x) PROVE ScrubInv'
    BY <1>7, StopScrub DEF FinishIndex, Procs, outbox, history
<1>8. ASSUME NEW x \in Indexers, AppendEvent(x) PROVE ScrubInv'
  <2>1. /\ appended' = appended + 1 /\ appended' \in Batches /\ forgotAt' = forgotAt
        /\ payload' = [payload EXCEPT ![appended + 1] = work[x]]
        /\ hand' = hand /\ outboxLock' = outboxLock
        /\ \A f \in Forgetters : pc'[f] = pc[f]
      BY <1>0, <1>8, PlaneBounds, PlaneRoles DEF AppendEvent, Go, Procs, Batches, locks
  <2>2. \A i \in Batches : \A s \in payload'[i] : i > forgotAt[s]
    <3> SUFFICES ASSUME NEW i \in Batches, NEW s \in payload'[i] PROVE i > forgotAt[s]
        OBVIOUS
    <3>1. CASE i = appended + 1
      <4>1. s \in Sources /\ forgotAt[s] <= appended
          BY <1>0, <2>1, <3>1 DEF ScrubInv, Procs
      <4> QED
          BY <1>0, <3>1, <4>1
    <3>2. CASE i # appended + 1
        BY <1>0, <2>1, <3>2 DEF ScrubInv
    <3> QED
        BY <3>1, <3>2
  <2>3. \A s \in Sources : forgotAt'[s] <= appended'
      BY <1>0, <2>1 DEF ScrubInv
  <2> QED
      BY <2>1, <2>2, <2>3 DEF ScrubInv
<1>9. ASSUME NEW x \in Indexers, WriteActive(x) PROVE ScrubInv'
    BY <1>0, <1>9 DEF WriteActive, outbox, locks, jobs, history, ScrubInv, Go, Procs
<1>10. ASSUME NEW x \in Indexers, WriteShadow(x) PROVE ScrubInv'
    BY <1>0, <1>10 DEF WriteShadow, outbox, locks, jobs, history, ScrubInv, Go, Procs
<1>11. ASSUME NEW x \in Indexers, CompleteEvent(x) PROVE ScrubInv'
  <2>1. CASE Stop(x) /\ UNCHANGED <<status, payload>>
      BY <1>11, <2>1, StopScrub DEF CompleteEvent, Procs, outbox, history
  <2>2. CASE ~(Stop(x) /\ UNCHANGED <<status, payload>>)
      BY <1>0, <1>11, <2>2 DEF CompleteEvent, MarkComplete, locks, history, ScrubInv, Go, Procs
  <2> QED BY <2>1, <2>2
<1>12. ASSUME NEW f \in Forgetters, GetForForget(f) PROVE ScrubInv'
    BY <1>0, <1>12 DEF GetForForget, GetStore, outbox, locks, jobs, history, ScrubInv, Go,
        Procs
<1>13. ASSUME NEW f \in Forgetters, LockOutbox(f) PROVE ScrubInv'
  <2>1. CASE Stop(f)
      BY <1>13, <2>1, StopScrub DEF LockOutbox, Procs, outbox, history
  <2>2. CASE ~Stop(f)
      BY <1>0, <1>13, <2>2, PlaneRoles DEF LockOutbox, outbox, locks, jobs, history, ScrubInv,
          Go, Procs
  <2> QED BY <2>1, <2>2
<1>14. ASSUME NEW f \in Forgetters, DeleteAcross(f) PROVE ScrubInv'
    BY <1>0, <1>14, PlaneRoles DEF DeleteAcross, outbox, locks, jobs, history, ScrubInv, Go,
        Procs
<1>15. ASSUME NEW f \in Forgetters, ScrubPending(f) PROVE ScrubInv'
    BY <1>0, <1>15, PlaneRoles DEF ScrubPending, Stop, ScrubInv, Go, Procs
<1>16. ASSUME NEW f \in Forgetters, ScrubFails(f) PROVE ScrubInv'
    BY <1>16, StopScrub DEF ScrubFails, Procs, outbox, history
<1>17. ASSUME NEW p \in Indexers \cup Forgetters, GetRefused(p) PROVE ScrubInv'
    BY <1>0, <1>17 DEF GetRefused, outbox, locks, jobs, history, ScrubInv, Go, Procs
<1>18. ASSUME NEW p \in Indexers \cup Forgetters, GetShadow(p) PROVE ScrubInv'
  <2>1. CASE Stop(p)
      BY <1>18, <2>1, StopScrub DEF GetShadow, Procs, outbox, history
  <2>2. CASE ~Stop(p)
      BY <1>0, <1>18, <2>2 DEF GetShadow, outbox, locks, jobs, history, ScrubInv, Go, Procs
  <2> QED BY <2>1, <2>2
<1>19. ASSUME NEW r \in Replayers, OpenStores(r) PROVE ScrubInv'
    BY <1>0, <1>19 DEF OpenStores, outbox, locks, jobs, history, ScrubInv, Go, Procs
<1>20. ASSUME NEW r \in Replayers, ReadPending(r) PROVE ScrubInv'
  <2>1. CASE Stop(r)
      BY <1>20, <2>1, StopScrub DEF ReadPending, Procs, outbox, history
  <2>2. CASE ~Stop(r)
      BY <1>0, <1>20, <2>2, PlaneRoles DEF ReadPending, outbox, history, Pending, ScrubInv, Go,
          Procs
  <2> QED BY <2>1, <2>2
<1>21. ASSUME NEW r \in Replayers, NEW i \in Batches, ReplayActive(r, i) PROVE ScrubInv'
  <2>1. CASE Stop(r)
      BY <1>21, <2>1, StopScrub DEF ReplayActive, Procs, outbox, history
  <2>2. CASE ~Stop(r)
      BY <1>0, <1>21, <2>2 DEF ReplayActive, outbox, locks, jobs, history, ScrubInv, Go, Procs
  <2> QED BY <2>1, <2>2
<1>22. ASSUME NEW r \in Replayers, NEW i \in Batches, ReplayShadow(r, i) PROVE ScrubInv'
    BY <1>0, <1>22 DEF ReplayShadow, outbox, locks, jobs, history, ScrubInv, Go, Procs
<1>23. ASSUME NEW r \in Replayers, NEW i \in Batches, ReplayComplete(r, i) PROVE ScrubInv'
  <2>1. CASE Stop(r) /\ UNCHANGED <<status, payload>>
      BY <1>23, <2>1, StopScrub DEF ReplayComplete, Procs, outbox, history
  <2>2. CASE ~(Stop(r) /\ UNCHANGED <<status, payload>>)
      BY <1>0, <1>23, <2>2, PlaneRoles DEF ReplayComplete, MarkComplete, locks, history,
          ScrubInv, Go, Procs
  <2> QED BY <2>1, <2>2
<1>24. ASSUME NEW r \in Replayers, ReplayDone(r) PROVE ScrubInv'
    BY <1>24, StopScrub DEF ReplayDone, Procs, outbox, history
<1>25. ASSUME NEW o \in Operators, NEW g \in Gens, CreateGeneration(o, g) PROVE ScrubInv'
    BY <1>0, <1>25 DEF CreateGeneration, outbox, locks, jobs, history, ScrubInv, Go, Procs
<1>26. ASSUME NEW o \in Operators, TableCreated(o) PROVE ScrubInv'
    BY <1>26, StopScrub DEF TableCreated, Procs, outbox, history
<1>27. ASSUME NEW o \in Operators, CreateFails(o) PROVE ScrubInv'
    BY <1>27, StopScrub DEF CreateFails, Procs, outbox, history
<1>28. ASSUME NEW o \in Operators, NEW a \in Gens, NEW s \in Gens \cup {Nil}, ReadStates(o, a, s)
       PROVE ScrubInv'
    BY <1>0, <1>28 DEF ReadStates, outbox, locks, jobs, history, ScrubInv, Go, Procs
<1>29. ASSUME NEW o \in Operators, SetRoute(o) PROVE ScrubInv'
    BY <1>29, StopScrub DEF SetRoute, Procs, outbox, history
<1>30. ASSUME NEW o \in Operators, CutoverBegin(o) PROVE ScrubInv'
    BY <1>0, <1>30 DEF CutoverBegin, outbox, locks, jobs, history, ScrubInv, Go, Procs
<1>31. ASSUME NEW o \in Operators, CutoverVerify(o) PROVE ScrubInv'
  <2>1. CASE Stop(o)
      BY <1>31, <2>1, StopScrub DEF CutoverVerify, Procs, outbox, history
  <2>2. CASE ~Stop(o)
      BY <1>0, <1>31, <2>2 DEF CutoverVerify, outbox, locks, jobs, history, ScrubInv, Go, Procs
  <2> QED BY <2>1, <2>2
<1>32. ASSUME NEW o \in Operators, CutoverLag(o) PROVE ScrubInv'
  <2>1. CASE Stop(o)
      BY <1>32, <2>1, StopScrub DEF CutoverLag, Procs, outbox, history
  <2>2. CASE ~Stop(o)
      BY <1>0, <1>32, <2>2 DEF CutoverLag, outbox, locks, jobs, history, ScrubInv, Go, Procs
  <2> QED BY <2>1, <2>2
<1>33. ASSUME NEW o \in Operators, CutoverSwap(o) PROVE ScrubInv'
    BY <1>33, StopScrub DEF CutoverSwap, Procs, outbox, history
<1>34. ASSUME NEW g \in Gens, MarkReady(g) PROVE ScrubInv'
    BY <1>0, <1>34 DEF MarkReady, outbox, locks, jobs, history, ScrubInv, Go, Procs
<1>35. ASSUME NEW g \in Gens, Retire(g) PROVE ScrubInv'
    BY <1>0, <1>35 DEF Retire, outbox, locks, jobs, history, ScrubInv, Go, Procs
<1>36. ASSUME NEW p \in Procs, Crash(p) PROVE ScrubInv'
    BY <1>36, StopScrub DEF Crash, Procs, outbox, history
<1> QED BY <1>1, <1>2, <1>3, <1>4, <1>5, <1>6, <1>7, <1>8, <1>9, <1>10, <1>11, <1>12, <1>13,
    <1>14, <1>15, <1>16, <1>17, <1>18, <1>19, <1>20, <1>21, <1>22, <1>23, <1>24, <1>25, <1>26,
    <1>27, <1>28, <1>29, <1>30, <1>31, <1>32, <1>33, <1>34, <1>35, <1>36 DEF Next, Index,
    Forget, Replay, Operate

\* Nothing was forgotten at the start.
LEMMA ScrubInit == Init => ScrubInv
BY DEF Init, ScrubInv, Procs

\* No replay writes back what a forget has scrubbed since the event was
\* recorded, whatever was in flight when the forget ran.
THEOREM ReplaySafe == Spec => ReplayNeverRestores
<1>1. TypeInv /\ ScrubInv /\ [Next]_vars
      => [\A r \in Replayers :
            (pc[r] = "next" /\ pc'[r] = "mirror") \/ (pc[r] = "mirror" /\ pc'[r] = "complete")
            => \A i \in Batches : IsNext(r, i) => \A s \in hand[r][i] : i > forgotAt[s]]_vars
    BY DEF ScrubInv, Procs
<1> QED
    BY <1>1, TypeInit, TypeStep, ScrubInit, ScrubStep, PTL DEF Spec, ReplayNeverRestores

-----------------------------------------------------------------------------
(* Cutover.  A complete event owes nothing, because whoever completes it has *)
(* written both generations first; between a cutover's last look at the      *)
(* outbox and its swap, a complete event stays complete.                     *)

Logged ==
    \A i \in Batches :
        /\ status[i] = "none" <=> i > appended
        /\ status[i] = "complete" => owed[i] = {}
        /\ owed[i] \subseteq Named(i)

Writer(x) ==
    /\ event[x] <= appended
    /\ event[x] # 0 => pc[x] \in {"write", "mirror", "complete"}
    /\ pc[x] = "append" => shadow[x] # Nil
    /\ pc[x] = "write" => (event[x] # 0 <=> shadow[x] # Nil)
    /\ pc[x] \in {"mirror", "complete"} => event[x] # 0
    /\ event[x] # 0 =>
        /\ owed[event[x]] \subseteq {store[x], shadow[x]}
        /\ pc[x] = "mirror" => owed[event[x]] \subseteq {shadow[x]}
        /\ pc[x] = "complete" => owed[event[x]] = {}

Drain(r) ==
    \A i \in Batches : hand[r][i] # {} =>
        /\ i <= appended
        /\ IsNext(r, i) =>
            /\ pc[r] = "mirror" => owed[i] \subseteq {pair[i].shadow}
            /\ pc[r] = "complete" => owed[i] = {}

Writers == \A x \in Indexers : Writer(x)
Drains == \A r \in Replayers : Drain(r)

Marked ==
    \A o \in Operators : pc[o] = "swap" =>
        mark[o] <= appended /\ \A i \in Batches : i <= mark[o] => status[i] = "complete"

OwedInv == Logged /\ Writers /\ Drains /\ Marked

\* What others do to the outbox leaves an indexer where it is.
LEMMA OtherWriter ==
    ASSUME NEW y \in Indexers, Writer(y), event[y] \in 0..MaxBatches,
           appended \in Nat, appended' \in Nat, appended' >= appended, MaxBatches \in Nat,
           pc'[y] = pc[y], event'[y] = event[y], store'[y] = store[y], shadow'[y] = shadow[y],
           \A i \in Batches : i <= appended => owed'[i] \subseteq owed[i]
    PROVE  Writer(y)'
<1>1. event[y] # 0 => event[y] \in Batches /\ event[y] <= appended
    BY DEF Writer, Batches
<1> QED
    BY <1>1 DEF Writer

\* The same of a replay.
LEMMA OtherDrain ==
    ASSUME NEW r \in Replayers, Drain(r), appended \in Nat, appended' \in Nat,
           appended' >= appended, Batches \subseteq Nat,
           pc'[r] = pc[r], hand'[r] = hand[r],
           \A i \in Batches : i <= appended => owed'[i] \subseteq owed[i] /\ pair'[i] = pair[i]
    PROVE  Drain(r)'
<1>1. \A i \in Batches : IsNext(r, i)' <=> IsNext(r, i)
    BY DEF IsNext, InHand
<1> SUFFICES ASSUME NEW i \in Batches, hand'[r][i] # {}
             PROVE  /\ i <= appended'
                    /\ IsNext(r, i)' =>
                        /\ pc'[r] = "mirror" => owed'[i] \subseteq {pair'[i].shadow}
                        /\ pc'[r] = "complete" => owed'[i] = {}
    BY DEF Drain
<1>2. /\ i <= appended
      /\ IsNext(r, i) =>
          /\ pc[r] = "mirror" => owed[i] \subseteq {pair[i].shadow}
          /\ pc[r] = "complete" => owed[i] = {}
    BY DEF Drain
<1>3. i <= appended' /\ owed'[i] \subseteq owed[i] /\ pair'[i] = pair[i]
    BY <1>2
<1>4. ASSUME IsNext(r, i)', pc'[r] = "mirror" PROVE owed'[i] \subseteq {pair'[i].shadow}
    BY <1>1, <1>2, <1>3, <1>4
<1>5. ASSUME IsNext(r, i)', pc'[r] = "complete" PROVE owed'[i] = {}
    BY <1>1, <1>2, <1>3, <1>5
<1> QED
    BY <1>3, <1>4, <1>5

\* A write only takes away from what is owed.
LEMMA ReachShrinks ==
    ASSUME OutboxTypeOK, NEW i, NEW g, Reach(i, g), NEW j \in Batches
    PROVE  /\ owed'[j] \subseteq owed[j]
           /\ j = i /\ i # 0 => owed'[j] = owed[j] \ {g}
BY DEF Reach, OutboxTypeOK

\* A process that ends owes nothing.
LEMMA StopOwed ==
    ASSUME TypeInv, OwedInv, NEW p \in Procs, Stop(p),
           UNCHANGED <<appended, status, pair, owed>>
    PROVE  OwedInv'
<1>0. /\ pc \in [Procs -> Steps] /\ event \in [Procs -> 0..MaxBatches]
      /\ store \in [Procs -> Gens \cup {Nil}] /\ shadow \in [Procs -> Gens \cup {Nil}]
      /\ mark \in [Procs -> 0..MaxBatches] /\ hand \in [Procs -> [Batches -> SUBSET Sources]]
      /\ appended \in 0..MaxBatches
    BY DEF TypeInv, TypeOK, JobTypeOK, OutboxTypeOK
<1> USE DEF OwedInv
<1>1. Logged'
    BY DEF Logged, Named
<1>2. Writers'
    BY <1>0 DEF Stop, Go, Writers, Writer, Procs
<1>3. Drains'
    BY <1>0 DEF Stop, Go, Drains, Drain, IsNext, InHand, Procs
<1>4. Marked'
    BY <1>0 DEF Stop, Go, Marked, Procs
<1> QED
    BY <1>1, <1>2, <1>3, <1>4

\* Every step keeps the account.
LEMMA OwedStep == TypeInv /\ OwedInv /\ [Next]_vars => OwedInv'
<1> SUFFICES ASSUME TypeInv, OwedInv, [Next]_vars PROVE OwedInv'
    OBVIOUS
<1>0. /\ pc \in [Procs -> Steps] /\ event \in [Procs -> 0..MaxBatches]
      /\ store \in [Procs -> Gens \cup {Nil}] /\ shadow \in [Procs -> Gens \cup {Nil}]
      /\ mark \in [Procs -> 0..MaxBatches] /\ hand \in [Procs -> [Batches -> SUBSET Sources]]
      /\ appended \in 0..MaxBatches /\ status \in [Batches -> {"none", "pending", "complete"}]
      /\ pair \in [Batches -> [active : Gens \cup {Nil}, shadow : Gens \cup {Nil}]]
      /\ owed \in [Batches -> SUBSET (Gens \cup {Nil})]
    BY DEF TypeInv, TypeOK, PlaneTypeOK, OutboxTypeOK, LockTypeOK, JobTypeOK
<1>1. CASE UNCHANGED vars
    BY <1>1 DEF vars, OwedInv, Logged, Writers, Writer, Drains, Drain, Marked, Named, IsNext,
        InHand, Go, Procs, plane, outbox, locks, jobs, history
<1>2. ASSUME NEW x \in Indexers, GetForIndex(x) PROVE OwedInv'
  <2>1. Logged'
      BY <1>0, <1>2 DEF GetForIndex, GetStore, OwedInv, outbox, history, Logged, Named
  <2>2. Writers'
      BY <1>0, <1>2, PlaneRoles DEF GetForIndex, GetStore, OwedInv, outbox, history, jobs,
          locks, Writers, Writer, Go, Procs
  <2>3. Drains'
      BY <1>0, <1>2, PlaneRoles DEF GetForIndex, GetStore, OwedInv, outbox, history, jobs,
          locks, Drains, Drain, IsNext, InHand, Go, Procs
  <2>4. Marked'
      BY <1>0, <1>2, PlaneRoles DEF GetForIndex, GetStore, OwedInv, outbox, jobs, locks, Marked,
          Go, Procs
  <2> QED BY <2>1, <2>2, <2>3, <2>4 DEF OwedInv
<1>3. ASSUME NEW x \in Indexers, NEW g \in Tables, OpenTable(x, g) PROVE OwedInv'
  <2>1. Logged'
      BY <1>0, <1>3 DEF OpenTable, OwedInv, outbox, history, Logged, Named
  <2>2. Writers'
      BY <1>0, <1>3, PlaneRoles DEF OpenTable, OwedInv, outbox, history, jobs, locks, Writers,
          Writer, Go, Procs
  <2>3. Drains'
      BY <1>0, <1>3, PlaneRoles DEF OpenTable, OwedInv, outbox, history, jobs, locks, Drains,
          Drain, IsNext, InHand, Go, Procs
  <2>4. Marked'
      BY <1>0, <1>3, PlaneRoles DEF OpenTable, OwedInv, outbox, jobs, locks, Marked, Go, Procs
  <2> QED BY <2>1, <2>2, <2>3, <2>4 DEF OwedInv
<1>4. ASSUME NEW x \in Indexers, LockTable(x) PROVE OwedInv'
  <2>1. CASE Stop(x)
      BY <1>4, <2>1, StopOwed DEF LockTable, Procs, outbox, history
  <2>2. CASE ~Stop(x)
    <3>1. Logged'
        BY <1>0, <1>4, <2>2 DEF LockTable, OwedInv, outbox, history, Logged, Named
    <3>2. Writers'
        BY <1>0, <1>4, <2>2, PlaneRoles DEF LockTable, OwedInv, outbox, history, jobs, locks,
            Writers, Writer, Go, Procs
    <3>3. Drains'
        BY <1>0, <1>4, <2>2, PlaneRoles DEF LockTable, OwedInv, outbox, history, jobs, locks,
            Drains, Drain, IsNext, InHand, Go, Procs
    <3>4. Marked'
        BY <1>0, <1>4, <2>2, PlaneRoles DEF LockTable, OwedInv, outbox, jobs, locks, Marked, Go,
            Procs
    <3> QED BY <3>1, <3>2, <3>3, <3>4 DEF OwedInv
  <2> QED BY <2>1, <2>2
<1>5. ASSUME NEW x \in Indexers, PruneVanished(x) PROVE OwedInv'
    BY <1>0, <1>5, PlaneRoles DEF PruneVanished, outbox, locks, jobs, history, OwedInv,
        Logged, Writers, Writer, Drains, Drain, Marked, Named, IsNext, InHand, Go, Procs
<1>6. ASSUME NEW x \in Indexers, ReadBatch(x) PROVE OwedInv'
    BY <1>0, <1>6, PlaneRoles DEF ReadBatch, outbox, locks, jobs, history, OwedInv, Logged,
        Writers, Writer, Drains, Drain, Marked, Named, IsNext, InHand, Go, Procs
<1>7. ASSUME NEW x \in Indexers, FinishIndex(x) PROVE OwedInv'
    BY <1>7, StopOwed DEF FinishIndex, Procs, outbox, history
<1>8. ASSUME NEW x \in Indexers, AppendEvent(x) PROVE OwedInv'
  <2>1. Logged'
      BY <1>0, <1>8, PlaneBounds DEF AppendEvent, OwedInv, outbox, history, Logged, Named,
          Batches
  <2>2. Writers'
      BY <1>0, <1>8, PlaneBounds, PlaneRoles DEF AppendEvent, OwedInv, outbox, history, jobs,
          locks, Writers, Writer, Go, Procs, Batches
  <2>3. Drains'
    <3>1. appended \in Nat /\ appended' \in Nat /\ appended' >= appended /\ MaxBatches \in Nat
        BY <1>0, <1>8, PlaneBounds DEF AppendEvent
    <3>2. \A k \in Batches : k <= appended => owed'[k] \subseteq owed[k] /\ pair'[k] = pair[k]
        BY <1>0, <1>8 DEF AppendEvent, Batches
    <3>3. Batches \subseteq Nat
        BY DEF Batches
    <3>4. ASSUME NEW y \in Replayers PROVE Drain(y)'
      <4>1. pc'[y] = pc[y] /\ hand'[y] = hand[y]
          BY <1>0, <1>8, <3>4, PlaneRoles DEF AppendEvent, Go, Procs
      <4> QED BY <3>1, <3>2, <3>3, <4>1, OtherDrain DEF OwedInv, Drains
    <3> QED BY <3>4 DEF Drains
  <2>4. Marked'
      BY <1>0, <1>8, PlaneBounds, PlaneRoles DEF AppendEvent, OwedInv, outbox, jobs, locks,
          Marked, Go, Procs, Batches
  <2> QED BY <2>1, <2>2, <2>3, <2>4 DEF OwedInv
<1>9. ASSUME NEW x \in Indexers, WriteActive(x) PROVE OwedInv'
  <2>1. Logged'
      BY <1>0, <1>9 DEF WriteActive, OwedInv, outbox, history, Logged, Named, Reach
  <2>2. Writers'
    <3>1. appended \in Nat /\ appended' \in Nat /\ appended' >= appended /\ MaxBatches \in Nat
        BY <1>0, <1>9, PlaneBounds DEF WriteActive, outbox
    <3>2. \A k \in Batches : k <= appended => owed'[k] \subseteq owed[k]
        BY <1>9, ReachShrinks DEF WriteActive, TypeInv, TypeOK
    <3>3. Writer(x)'
        <4>1. event[x] # 0 => event[x] \in Batches
          BY <1>0, PlaneBounds DEF Batches, Procs
      <4>2. event[x] # 0 => owed'[event[x]] = owed[event[x]] \ {store[x]}
          BY <1>9, <4>1, ReachShrinks DEF WriteActive, TypeInv, TypeOK
      <4>3. Writer(x)
          BY DEF OwedInv, Writers
      <4> QED
          BY <1>0, <1>9, <4>2, <4>3 DEF WriteActive, Writer, Go, Procs, jobs, outbox
    <3>4. ASSUME NEW y \in Indexers, y # x PROVE Writer(y)'
      <4>1. Writer(y) /\ event[y] \in 0..MaxBatches
          BY <1>0 DEF OwedInv, Writers, Procs
      <4>2. /\ pc'[y] = pc[y] /\ event'[y] = event[y]
            /\ store'[y] = store[y] /\ shadow'[y] = shadow[y]
          BY <1>0, <1>9, <3>4 DEF WriteActive, jobs, Go, Procs
      <4> QED BY <3>1, <3>2, <4>1, <4>2, OtherWriter
    <3> QED BY <3>3, <3>4 DEF Writers
  <2>3. Drains'
      BY <1>0, <1>9, PlaneRoles DEF WriteActive, OwedInv, outbox, history, jobs, locks, Drains,
          Drain, IsNext, InHand, Go, Procs, Reach
  <2>4. Marked'
      BY <1>0, <1>9, PlaneRoles DEF WriteActive, OwedInv, outbox, jobs, locks, Marked, Go, Procs
  <2> QED BY <2>1, <2>2, <2>3, <2>4 DEF OwedInv
<1>10. ASSUME NEW x \in Indexers, WriteShadow(x) PROVE OwedInv'
  <2>1. Logged'
      BY <1>0, <1>10 DEF WriteShadow, OwedInv, outbox, history, Logged, Named, Reach
  <2>2. Writers'
    <3>1. appended \in Nat /\ appended' \in Nat /\ appended' >= appended /\ MaxBatches \in Nat
        BY <1>0, <1>10, PlaneBounds DEF WriteShadow, outbox
    <3>2. \A k \in Batches : k <= appended => owed'[k] \subseteq owed[k]
        BY <1>10, ReachShrinks DEF WriteShadow, TypeInv, TypeOK
    <3>3. Writer(x)'
        <4>1. event[x] # 0 => event[x] \in Batches
          BY <1>0, PlaneBounds DEF Batches, Procs
      <4>2. event[x] # 0 => owed'[event[x]] = owed[event[x]] \ {shadow[x]}
          BY <1>10, <4>1, ReachShrinks DEF WriteShadow, TypeInv, TypeOK
      <4>3. Writer(x)
          BY DEF OwedInv, Writers
      <4> QED
          BY <1>0, <1>10, <4>2, <4>3 DEF WriteShadow, Writer, Go, Procs, jobs, outbox
    <3>4. ASSUME NEW y \in Indexers, y # x PROVE Writer(y)'
      <4>1. Writer(y) /\ event[y] \in 0..MaxBatches
          BY <1>0 DEF OwedInv, Writers, Procs
      <4>2. /\ pc'[y] = pc[y] /\ event'[y] = event[y]
            /\ store'[y] = store[y] /\ shadow'[y] = shadow[y]
          BY <1>0, <1>10, <3>4 DEF WriteShadow, jobs, Go, Procs
      <4> QED BY <3>1, <3>2, <4>1, <4>2, OtherWriter
    <3> QED BY <3>3, <3>4 DEF Writers
  <2>3. Drains'
      BY <1>0, <1>10, PlaneRoles DEF WriteShadow, OwedInv, outbox, history, jobs, locks, Drains,
          Drain, IsNext, InHand, Go, Procs, Reach
  <2>4. Marked'
      BY <1>0, <1>10, PlaneRoles DEF WriteShadow, OwedInv, outbox, jobs, locks, Marked, Go,
          Procs
  <2> QED BY <2>1, <2>2, <2>3, <2>4 DEF OwedInv
<1>11. ASSUME NEW x \in Indexers, CompleteEvent(x) PROVE OwedInv'
  <2>1. CASE Stop(x) /\ UNCHANGED <<status, payload>>
      BY <1>11, <2>1, StopOwed DEF CompleteEvent, Procs, outbox, history
  <2>2. CASE ~(Stop(x) /\ UNCHANGED <<status, payload>>)
    <3>1. Logged'
        BY <1>0, <1>11, <2>2 DEF CompleteEvent, OwedInv, outbox, history, Logged, Named,
            Writers, Writer, MarkComplete, Batches, Procs
    <3>2. Writers'
        BY <1>0, <1>11, <2>2, PlaneRoles DEF CompleteEvent, OwedInv, outbox, history, jobs,
            locks, Writers, Writer, Go, Procs, MarkComplete
    <3>3. Drains'
        BY <1>0, <1>11, <2>2, PlaneRoles DEF CompleteEvent, OwedInv, outbox, history, jobs,
            locks, Drains, Drain, IsNext, InHand, Go, Procs, MarkComplete
    <3>4. Marked'
        BY <1>0, <1>11, <2>2, PlaneRoles DEF CompleteEvent, OwedInv, outbox, jobs, locks,
            Marked, Go, Procs, MarkComplete, Batches
    <3> QED BY <3>1, <3>2, <3>3, <3>4 DEF OwedInv
  <2> QED BY <2>1, <2>2
<1>12. ASSUME NEW f \in Forgetters, GetForForget(f) PROVE OwedInv'
  <2>1. Logged'
      BY <1>0, <1>12 DEF GetForForget, GetStore, OwedInv, outbox, history, Logged, Named
  <2>2. Writers'
      BY <1>0, <1>12, PlaneRoles DEF GetForForget, GetStore, OwedInv, outbox, history, jobs,
          locks, Writers, Writer, Go, Procs
  <2>3. Drains'
      BY <1>0, <1>12, PlaneRoles DEF GetForForget, GetStore, OwedInv, outbox, history, jobs,
          locks, Drains, Drain, IsNext, InHand, Go, Procs
  <2>4. Marked'
      BY <1>0, <1>12, PlaneRoles DEF GetForForget, GetStore, OwedInv, outbox, jobs, locks,
          Marked, Go, Procs
  <2> QED BY <2>1, <2>2, <2>3, <2>4 DEF OwedInv
<1>13. ASSUME NEW f \in Forgetters, LockOutbox(f) PROVE OwedInv'
  <2>1. CASE Stop(f)
      BY <1>13, <2>1, StopOwed DEF LockOutbox, Procs, outbox, history
  <2>2. CASE ~Stop(f)
    <3>1. Logged'
        BY <1>0, <1>13, <2>2 DEF LockOutbox, OwedInv, outbox, history, Logged, Named
    <3>2. Writers'
        BY <1>0, <1>13, <2>2, PlaneRoles DEF LockOutbox, OwedInv, outbox, history, jobs, locks,
            Writers, Writer, Go, Procs
    <3>3. Drains'
        BY <1>0, <1>13, <2>2, PlaneRoles DEF LockOutbox, OwedInv, outbox, history, jobs, locks,
            Drains, Drain, IsNext, InHand, Go, Procs
    <3>4. Marked'
        BY <1>0, <1>13, <2>2, PlaneRoles DEF LockOutbox, OwedInv, outbox, jobs, locks, Marked,
            Go, Procs
    <3> QED BY <3>1, <3>2, <3>3, <3>4 DEF OwedInv
  <2> QED BY <2>1, <2>2
<1>14. ASSUME NEW f \in Forgetters, DeleteAcross(f) PROVE OwedInv'
    BY <1>0, <1>14, PlaneRoles DEF DeleteAcross, outbox, locks, jobs, history, OwedInv,
        Logged, Writers, Writer, Drains, Drain, Marked, Named, IsNext, InHand, Go, Procs
<1>15. ASSUME NEW f \in Forgetters, ScrubPending(f) PROVE OwedInv'
  <2>1. Logged'
      BY <1>0, <1>15 DEF ScrubPending, OwedInv, outbox, history, Logged, Named, Stop
  <2>2. Writers'
    <3>1. appended \in Nat /\ appended' \in Nat /\ appended' >= appended /\ MaxBatches \in Nat
        BY <1>0, <1>15, PlaneBounds DEF ScrubPending
    <3>2. \A k \in Batches : k <= appended => owed'[k] \subseteq owed[k]
        BY <1>0, <1>15 DEF ScrubPending
    <3>3. ASSUME NEW y \in Indexers PROVE Writer(y)'
      <4>1. Writer(y) /\ event[y] \in 0..MaxBatches
          BY <1>0 DEF OwedInv, Writers, Procs
      <4>2. /\ pc'[y] = pc[y] /\ event'[y] = event[y]
            /\ store'[y] = store[y] /\ shadow'[y] = shadow[y]
          BY <1>0, <1>15, PlaneRoles DEF ScrubPending, Stop, Go, Procs
      <4> QED BY <3>1, <3>2, <4>1, <4>2, OtherWriter
    <3> QED BY <3>3 DEF Writers
  <2>3. Drains'
      BY <1>0, <1>15, PlaneRoles DEF ScrubPending, OwedInv, outbox, history, jobs, locks,
          Drains, Drain, IsNext, InHand, Go, Procs, Stop
  <2>4. Marked'
      BY <1>0, <1>15, PlaneRoles DEF ScrubPending, OwedInv, outbox, jobs, locks, Marked, Go,
          Procs, Stop, Batches
  <2> QED BY <2>1, <2>2, <2>3, <2>4 DEF OwedInv
<1>16. ASSUME NEW f \in Forgetters, ScrubFails(f) PROVE OwedInv'
    BY <1>16, StopOwed DEF ScrubFails, Procs, outbox, history
<1>17. ASSUME NEW p \in Indexers \cup Forgetters, GetRefused(p) PROVE OwedInv'
  <2>1. Logged'
      BY <1>0, <1>17 DEF GetRefused, OwedInv, outbox, history, Logged, Named
  <2>2. Writers'
      BY <1>0, <1>17, PlaneRoles DEF GetRefused, OwedInv, outbox, history, jobs, locks, Writers,
          Writer, Go, Procs
  <2>3. Drains'
      BY <1>0, <1>17, PlaneRoles DEF GetRefused, OwedInv, outbox, history, jobs, locks, Drains,
          Drain, IsNext, InHand, Go, Procs
  <2>4. Marked'
      BY <1>0, <1>17, PlaneRoles DEF GetRefused, OwedInv, outbox, jobs, locks, Marked, Go, Procs
  <2> QED BY <2>1, <2>2, <2>3, <2>4 DEF OwedInv
<1>18. ASSUME NEW p \in Indexers \cup Forgetters, GetShadow(p) PROVE OwedInv'
  <2>1. CASE Stop(p)
      BY <1>18, <2>1, StopOwed DEF GetShadow, Procs, outbox, history
  <2>2. CASE ~Stop(p)
    <3>1. Logged'
        BY <1>0, <1>18, <2>2 DEF GetShadow, OwedInv, outbox, history, Logged, Named
    <3>2. Writers'
        BY <1>0, <1>18, <2>2, PlaneRoles DEF GetShadow, OwedInv, outbox, history, jobs, locks,
            Writers, Writer, Go, Procs
    <3>3. Drains'
        BY <1>0, <1>18, <2>2, PlaneRoles DEF GetShadow, OwedInv, outbox, history, jobs, locks,
            Drains, Drain, IsNext, InHand, Go, Procs
    <3>4. Marked'
        BY <1>0, <1>18, <2>2, PlaneRoles DEF GetShadow, OwedInv, outbox, jobs, locks, Marked,
            Go, Procs
    <3> QED BY <3>1, <3>2, <3>3, <3>4 DEF OwedInv
  <2> QED BY <2>1, <2>2
<1>19. ASSUME NEW r \in Replayers, OpenStores(r) PROVE OwedInv'
    BY <1>0, <1>19, PlaneRoles DEF OpenStores, outbox, locks, jobs, history, OwedInv, Logged,
        Writers, Writer, Drains, Drain, Marked, Named, IsNext, InHand, Go, Procs
<1>20. ASSUME NEW r \in Replayers, ReadPending(r) PROVE OwedInv'
  <2>1. CASE Stop(r)
      BY <1>20, <2>1, StopOwed DEF ReadPending, Procs, outbox, history
  <2>2. CASE ~Stop(r)
    <3>1. Logged'
        BY <1>0, <1>20, <2>2 DEF ReadPending, OwedInv, outbox, history, Logged, Named
    <3>2. Writers'
        BY <1>0, <1>20, <2>2, PlaneRoles DEF ReadPending, OwedInv, outbox, history, jobs, locks,
            Writers, Writer, Go, Procs
    <3>3. Drains'
      <4>1. appended \in Nat /\ appended' \in Nat /\ appended' >= appended /\ MaxBatches \in Nat
          BY <1>0, <1>20, <2>2, PlaneBounds DEF ReadPending, outbox
      <4>2. \A k \in Batches : k <= appended => owed'[k] \subseteq owed[k] /\ pair'[k] = pair[k]
          BY <1>20, <2>2 DEF ReadPending, outbox, history
      <4>3. Batches \subseteq Nat
          BY DEF Batches
      <4>4. ASSUME NEW y \in Replayers, y # r PROVE Drain(y)'
        <5>1. pc'[y] = pc[y] /\ hand'[y] = hand[y]
            BY <1>0, <1>20, <2>2, <4>4, PlaneRoles DEF ReadPending, Go, Procs
        <5> QED BY <4>1, <4>2, <4>3, <5>1, OtherDrain DEF OwedInv, Drains
      <4>5. Drain(r)'
        <5>1. pc'[r] = "next" /\ \A i \in Batches : hand'[r][i] # {} => i \in Pending
            BY <1>0, <1>20, <2>2 DEF ReadPending, Go, Procs
        <5>2. \A i \in Pending : i <= appended'
            BY <1>0, <1>20, <2>2 DEF ReadPending, outbox, Pending, OwedInv, Logged, Batches
        <5> QED
            BY <5>1, <5>2 DEF Drain
      <4> QED BY <4>4, <4>5 DEF Drains
    <3>4. Marked'
        BY <1>0, <1>20, <2>2, PlaneRoles DEF ReadPending, OwedInv, outbox, jobs, locks, Marked,
            Go, Procs
    <3> QED BY <3>1, <3>2, <3>3, <3>4 DEF OwedInv
  <2> QED BY <2>1, <2>2
<1>21. ASSUME NEW r \in Replayers, NEW i \in Batches, ReplayActive(r, i) PROVE OwedInv'
  <2>1. CASE Stop(r) /\ UNCHANGED <<rows, owed>>
      BY <1>21, <2>1, StopOwed DEF ReplayActive, Procs, outbox, history
  <2>2. CASE ~(Stop(r) /\ UNCHANGED <<rows, owed>>)
    <3>1. Logged'
        BY <1>0, <1>21, <2>2 DEF ReplayActive, OwedInv, outbox, history, Logged, Named, Reach
    <3>2. Writers'
      <4>1. appended \in Nat /\ appended' \in Nat /\ appended' >= appended /\ MaxBatches \in Nat
          BY <1>0, <1>21, <2>2, PlaneBounds DEF ReplayActive, outbox
      <4>2. \A k \in Batches : k <= appended => owed'[k] \subseteq owed[k]
          BY <1>21, <2>2, ReachShrinks DEF ReplayActive, TypeInv, TypeOK
      <4>3. ASSUME NEW y \in Indexers PROVE Writer(y)'
        <5>1. Writer(y) /\ event[y] \in 0..MaxBatches
            BY <1>0 DEF OwedInv, Writers, Procs
        <5>2. /\ pc'[y] = pc[y] /\ event'[y] = event[y]
              /\ store'[y] = store[y] /\ shadow'[y] = shadow[y]
            BY <1>0, <1>21, <2>2, PlaneRoles DEF ReplayActive, jobs, Go, Procs
        <5> QED BY <4>1, <4>2, <5>1, <5>2, OtherWriter
      <4> QED BY <4>3 DEF Writers
    <3>3. Drains'
      <4>1. appended \in Nat /\ appended' \in Nat /\ appended' >= appended /\ MaxBatches \in Nat
          BY <1>0, <1>21, <2>2, PlaneBounds DEF ReplayActive, outbox
      <4>2. \A k \in Batches : k <= appended => owed'[k] \subseteq owed[k] /\ pair'[k] = pair[k]
          BY <1>21, <2>2, ReachShrinks DEF ReplayActive, outbox, TypeInv, TypeOK
      <4>3. Batches \subseteq Nat
          BY DEF Batches
      <4>4. ASSUME NEW y \in Replayers, y # r PROVE Drain(y)'
        <5>1. pc'[y] = pc[y] /\ hand'[y] = hand[y]
            BY <1>0, <1>21, <2>2, <4>4, PlaneRoles DEF ReplayActive, Go, Procs, jobs
        <5> QED BY <4>1, <4>2, <4>3, <5>1, OtherDrain DEF OwedInv, Drains
      <4>5. Drain(r)'
        <5>1. /\ pc'[r] = "mirror" /\ hand' = hand /\ IsNext(r, i) /\ pair' = pair
              /\ appended' = appended /\ Reach(i, pair[i].active)
            BY <1>0, <1>21, <2>2 DEF ReplayActive, Go, Procs, jobs, outbox
        <5>2. owed'[i] = owed[i] \ {pair[i].active} /\ owed[i] \subseteq Named(i)
            BY <5>1, ReachShrinks, PlaneBounds DEF TypeInv, TypeOK, OwedInv, Logged, Batches
        <5>3. \A j \in Batches : IsNext(r, j)' => j = i
            BY <5>1 DEF IsNext, InHand, Batches
        <5> QED
            BY <5>1, <5>2, <5>3 DEF Drain, Named, OwedInv, Drains
      <4> QED BY <4>4, <4>5 DEF Drains
    <3>4. Marked'
        BY <1>0, <1>21, <2>2, PlaneRoles DEF ReplayActive, OwedInv, outbox, jobs, locks, Marked,
            Go, Procs
    <3> QED BY <3>1, <3>2, <3>3, <3>4 DEF OwedInv
  <2> QED BY <2>1, <2>2
<1>22. ASSUME NEW r \in Replayers, NEW i \in Batches, ReplayShadow(r, i) PROVE OwedInv'
  <2>1. Logged'
      BY <1>0, <1>22 DEF ReplayShadow, OwedInv, outbox, history, Logged, Named, Reach
  <2>2. Writers'
      BY <1>0, <1>22, PlaneRoles DEF ReplayShadow, OwedInv, outbox, history, jobs, locks,
          Writers, Writer, Go, Procs, Reach
  <2>3. Drains'
    <3>1. appended \in Nat /\ appended' \in Nat /\ appended' >= appended /\ MaxBatches \in Nat
        BY <1>0, <1>22, PlaneBounds DEF ReplayShadow, outbox
    <3>2. \A k \in Batches : k <= appended => owed'[k] \subseteq owed[k] /\ pair'[k] = pair[k]
        BY <1>22, ReachShrinks DEF ReplayShadow, outbox, TypeInv, TypeOK
    <3>3. Batches \subseteq Nat
        BY DEF Batches
    <3>4. ASSUME NEW y \in Replayers, y # r PROVE Drain(y)'
      <4>1. pc'[y] = pc[y] /\ hand'[y] = hand[y]
          BY <1>0, <1>22, <3>4, PlaneRoles DEF ReplayShadow, Go, Procs, jobs
      <4> QED BY <3>1, <3>2, <3>3, <4>1, OtherDrain DEF OwedInv, Drains
    <3>5. Drain(r)'
      <4>1. /\ pc[r] = "mirror" /\ pc'[r] = "complete" /\ hand' = hand /\ IsNext(r, i)
            /\ appended' = appended /\ Reach(i, pair[i].shadow)
          BY <1>0, <1>22 DEF ReplayShadow, Go, Procs, jobs, outbox
      <4>2. owed'[i] = owed[i] \ {pair[i].shadow} /\ owed[i] \subseteq {pair[i].shadow}
          BY <4>1, ReachShrinks, PlaneBounds
          DEF TypeInv, TypeOK, OwedInv, Drains, Drain, IsNext, InHand, Batches
      <4>3. \A j \in Batches : IsNext(r, j)' => j = i
          BY <4>1 DEF IsNext, InHand, Batches
      <4> QED
          BY <4>1, <4>2, <4>3 DEF Drain, OwedInv, Drains
    <3> QED BY <3>4, <3>5 DEF Drains
  <2>4. Marked'
      BY <1>0, <1>22, PlaneRoles DEF ReplayShadow, OwedInv, outbox, jobs, locks, Marked, Go,
          Procs
  <2> QED BY <2>1, <2>2, <2>3, <2>4 DEF OwedInv
<1>23. ASSUME NEW r \in Replayers, NEW i \in Batches, ReplayComplete(r, i) PROVE OwedInv'
  <2>1. CASE Stop(r) /\ UNCHANGED <<status, payload>>
      BY <1>23, <2>1, StopOwed DEF ReplayComplete, Procs, outbox, history
  <2>2. CASE ~(Stop(r) /\ UNCHANGED <<status, payload>>)
    <3>1. Logged'
        BY <1>0, <1>23, <2>2 DEF ReplayComplete, OwedInv, outbox, history, Logged, Named,
            Drains, Drain, MarkComplete, IsNext, InHand, Procs
    <3>2. Writers'
        BY <1>0, <1>23, <2>2, PlaneRoles DEF ReplayComplete, OwedInv, outbox, history, jobs,
            locks, Writers, Writer, Go, Procs, MarkComplete
    <3>3. Drains'
      <4>1. appended \in Nat /\ appended' \in Nat /\ appended' >= appended /\ MaxBatches \in Nat
          BY <1>0, <1>23, <2>2, PlaneBounds DEF ReplayComplete
      <4>2. \A k \in Batches : k <= appended => owed'[k] \subseteq owed[k] /\ pair'[k] = pair[k]
          BY <1>23, <2>2 DEF ReplayComplete, history
      <4>3. Batches \subseteq Nat
          BY DEF Batches
      <4>4. ASSUME NEW y \in Replayers, y # r PROVE Drain(y)'
        <5>1. pc'[y] = pc[y] /\ hand'[y] = hand[y]
            BY <1>0, <1>23, <2>2, <4>4, PlaneRoles DEF ReplayComplete, Go, Procs
        <5> QED BY <4>1, <4>2, <4>3, <5>1, OtherDrain DEF OwedInv, Drains
      <4>5. Drain(r)'
        <5>1. /\ pc'[r] = "next" /\ appended' = appended
              /\ \A j \in Batches : hand'[r][j] # {} => hand[r][j] # {}
            BY <1>0, <1>23, <2>2 DEF ReplayComplete, Go, Procs
        <5> QED
            BY <5>1 DEF Drain, OwedInv, Drains
      <4> QED BY <4>4, <4>5 DEF Drains
    <3>4. Marked'
        BY <1>0, <1>23, <2>2, PlaneRoles DEF ReplayComplete, OwedInv, outbox, jobs, locks,
            Marked, Go, Procs, MarkComplete, Batches
    <3> QED BY <3>1, <3>2, <3>3, <3>4 DEF OwedInv
  <2> QED BY <2>1, <2>2
<1>24. ASSUME NEW r \in Replayers, ReplayDone(r) PROVE OwedInv'
    BY <1>24, StopOwed DEF ReplayDone, Procs, outbox, history
<1>25. ASSUME NEW o \in Operators, NEW g \in Gens, CreateGeneration(o, g) PROVE OwedInv'
  <2>1. Logged'
      BY <1>0, <1>25 DEF CreateGeneration, OwedInv, outbox, history, Logged, Named
  <2>2. Writers'
      BY <1>0, <1>25, PlaneRoles DEF CreateGeneration, OwedInv, outbox, history, jobs, locks,
          Writers, Writer, Go, Procs
  <2>3. Drains'
      BY <1>0, <1>25, PlaneRoles DEF CreateGeneration, OwedInv, outbox, history, jobs, locks,
          Drains, Drain, IsNext, InHand, Go, Procs
  <2>4. Marked'
      BY <1>0, <1>25, PlaneRoles DEF CreateGeneration, OwedInv, outbox, jobs, locks, Marked, Go,
          Procs
  <2> QED BY <2>1, <2>2, <2>3, <2>4 DEF OwedInv
<1>26. ASSUME NEW o \in Operators, TableCreated(o) PROVE OwedInv'
    BY <1>26, StopOwed DEF TableCreated, Procs, outbox, history
<1>27. ASSUME NEW o \in Operators, CreateFails(o) PROVE OwedInv'
    BY <1>27, StopOwed DEF CreateFails, Procs, outbox, history
<1>28. ASSUME NEW o \in Operators, NEW a \in Gens, NEW s \in Gens \cup {Nil}, ReadStates(o, a, s)
       PROVE OwedInv'
    BY <1>0, <1>28, PlaneRoles DEF ReadStates, outbox, locks, jobs, history, OwedInv, Logged,
        Writers, Writer, Drains, Drain, Marked, Named, IsNext, InHand, Go, Procs
<1>29. ASSUME NEW o \in Operators, SetRoute(o) PROVE OwedInv'
    BY <1>29, StopOwed DEF SetRoute, Procs, outbox, history
<1>30. ASSUME NEW o \in Operators, CutoverBegin(o) PROVE OwedInv'
  <2>1. Logged'
      BY <1>0, <1>30 DEF CutoverBegin, OwedInv, outbox, history, Logged, Named
  <2>2. Writers'
      BY <1>0, <1>30, PlaneRoles DEF CutoverBegin, OwedInv, outbox, history, jobs, locks,
          Writers, Writer, Go, Procs
  <2>3. Drains'
      BY <1>0, <1>30, PlaneRoles DEF CutoverBegin, OwedInv, outbox, history, jobs, locks,
          Drains, Drain, IsNext, InHand, Go, Procs
  <2>4. Marked'
      BY <1>0, <1>30, PlaneRoles DEF CutoverBegin, OwedInv, outbox, jobs, locks, Marked, Go,
          Procs
  <2> QED BY <2>1, <2>2, <2>3, <2>4 DEF OwedInv
<1>31. ASSUME NEW o \in Operators, CutoverVerify(o) PROVE OwedInv'
  <2>1. CASE Stop(o)
      BY <1>31, <2>1, StopOwed DEF CutoverVerify, Procs, outbox, history
  <2>2. CASE ~Stop(o)
    <3>1. Logged'
        BY <1>0, <1>31, <2>2 DEF CutoverVerify, OwedInv, outbox, history, Logged, Named
    <3>2. Writers'
        BY <1>0, <1>31, <2>2, PlaneRoles DEF CutoverVerify, OwedInv, outbox, history, jobs,
            locks, Writers, Writer, Go, Procs
    <3>3. Drains'
        BY <1>0, <1>31, <2>2, PlaneRoles DEF CutoverVerify, OwedInv, outbox, history, jobs,
            locks, Drains, Drain, IsNext, InHand, Go, Procs
    <3>4. Marked'
        BY <1>0, <1>31, <2>2, PlaneRoles DEF CutoverVerify, OwedInv, outbox, jobs, locks,
            Marked, Go, Procs
    <3> QED BY <3>1, <3>2, <3>3, <3>4 DEF OwedInv
  <2> QED BY <2>1, <2>2
<1>32. ASSUME NEW o \in Operators, CutoverLag(o) PROVE OwedInv'
  <2>1. CASE Stop(o)
      BY <1>32, <2>1, StopOwed DEF CutoverLag, Procs, outbox, history
  <2>2. CASE ~Stop(o)
    <3>1. Logged'
        BY <1>0, <1>32, <2>2 DEF CutoverLag, OwedInv, outbox, history, Logged, Named
    <3>2. Writers'
        BY <1>0, <1>32, <2>2, PlaneRoles DEF CutoverLag, OwedInv, outbox, history, jobs, locks,
            Writers, Writer, Go, Procs
    <3>3. Drains'
        BY <1>0, <1>32, <2>2, PlaneRoles DEF CutoverLag, OwedInv, outbox, history, jobs, locks,
            Drains, Drain, IsNext, InHand, Go, Procs
    <3>4. Marked'
      <4>1. Pending = {} /\ mark'[o] = appended /\ mark' = [mark EXCEPT ![o] = appended]
          BY <1>0, <1>32, <2>2 DEF CutoverLag, Procs
      <4>2. \A i \in Batches : i <= appended => status[i] = "complete"
        <5> SUFFICES ASSUME NEW i \in Batches, i <= appended PROVE status[i] = "complete"
            OBVIOUS
        <5>0. i \in Nat /\ appended \in Nat
            BY <1>0 DEF Batches
        <5>1. status[i] \in {"none", "pending", "complete"}
            BY <1>0
        <5>2. status[i] # "none"
            BY <5>0 DEF OwedInv, Logged
        <5>3. status[i] # "pending"
            BY <4>1 DEF Pending
        <5> QED
            BY <5>1, <5>2, <5>3
      <4> QED
          BY <1>0, <1>32, <2>2, <4>1, <4>2 DEF CutoverLag, OwedInv, Marked, Go, Procs, outbox
    <3> QED BY <3>1, <3>2, <3>3, <3>4 DEF OwedInv
  <2> QED BY <2>1, <2>2
<1>33. ASSUME NEW o \in Operators, CutoverSwap(o) PROVE OwedInv'
    BY <1>33, StopOwed DEF CutoverSwap, Procs, outbox, history
<1>34. ASSUME NEW g \in Gens, MarkReady(g) PROVE OwedInv'
    BY <1>0, <1>34, PlaneRoles DEF MarkReady, outbox, locks, jobs, history, OwedInv, Logged,
        Writers, Writer, Drains, Drain, Marked, Named, IsNext, InHand, Go, Procs
<1>35. ASSUME NEW g \in Gens, Retire(g) PROVE OwedInv'
    BY <1>0, <1>35, PlaneRoles DEF Retire, outbox, locks, jobs, history, OwedInv, Logged,
        Writers, Writer, Drains, Drain, Marked, Named, IsNext, InHand, Go, Procs
<1>36. ASSUME NEW p \in Procs, Crash(p) PROVE OwedInv'
    BY <1>36, StopOwed DEF Crash, Procs, outbox, history
<1> QED BY <1>1, <1>2, <1>3, <1>4, <1>5, <1>6, <1>7, <1>8, <1>9, <1>10, <1>11, <1>12, <1>13,
    <1>14, <1>15, <1>16, <1>17, <1>18, <1>19, <1>20, <1>21, <1>22, <1>23, <1>24, <1>25, <1>26,
    <1>27, <1>28, <1>29, <1>30, <1>31, <1>32, <1>33, <1>34, <1>35, <1>36 DEF Next, Index,
    Forget, Replay, Operate

\* At the start no event exists.
LEMMA OwedInit == Init => OwedInv
BY PlaneBounds DEF Init, OwedInv, Logged, Writers, Writer, Drains, Drain, Marked, Procs,
       Batches

\* What cutover promotes is owed no write recorded before its last look at the
\* outbox, however indexers, replays, erasures and crashes interleave with it.
THEOREM CutoverSafe == Spec => CutoverCarriesEveryWrite
<1>1. TypeInv /\ OwedInv /\ [Next]_vars
      => [\A o \in Operators :
            pc[o] = "swap" /\ route' # route
            => \A i \in 1..mark[o] : shadow[o] \notin owed[i]]_vars
  <2> SUFFICES ASSUME TypeInv, OwedInv, NEW o \in Operators, pc[o] = "swap", NEW i \in 1..mark[o]
               PROVE  shadow[o] \notin owed[i]
      OBVIOUS
  <2>1. i \in Batches
    <3>1. mark[o] \in 0..MaxBatches
        BY DEF TypeInv, TypeOK, JobTypeOK, Procs
    <3> QED
        BY <3>1, PlaneBounds DEF Batches
  <2> QED
      BY <2>1 DEF OwedInv, Marked, Logged
<1> QED
    BY <1>1, TypeInit, TypeStep, OwedInit, OwedStep, PTL DEF Spec, CutoverCarriesEveryWrite
=============================================================================
