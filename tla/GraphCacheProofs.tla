-------------------------- MODULE GraphCacheProofs --------------------------
(***************************************************************************)
(* Proofs about GraphCache, for any number of sources, threads, cache      *)
(* entries and rebuilds.                                                   *)
(*                                                                         *)
(* NoErasedGraph is not inductive: what a request is answered with comes   *)
(* from an entry another request filed, or from a load it only waited for. *)
(* The invariant carries the claim through both.  It holds because erasure *)
(* is monotone: the corpus only shrinks, so what is read after the pin is  *)
(* clean for the pinned fingerprint, at whichever moment it is read.       *)
(***************************************************************************)
EXTENDS GraphCache, TLAPS

\* from the pin to the answer
Active(t) == pc[t] \notin {"idle", "raised"}

\* a request past graph_readiness goes by some marker
SeenOK == \A t \in Threads : Active(t) /\ pc[t] # "ready" => seen[t] \in Graphs

\* the stored graph has no erased source, and the corpus only shrank since a pin
StoredClean == graph.srcs \subseteq corpus /\ \A t \in Threads : Active(t) => corpus \subseteq pinned[t]

\* an entry that is a graph is the graph its key names
EntriesClean ==
    \A e \in cache :
        e.graph # Nil => e.graph = e.key.marker /\ e.graph.srcs \subseteq e.key.fp

\* a graph in hand is the marker's, and clean for the pin
LoadsClean ==
    \A t \in Threads : pc[t] \in {"publish", "done"} /\ got[t] # Nil
                           => got[t] = seen[t] /\ got[t].srcs \subseteq pinned[t]

\* a thread waits for the flight of its own key
WaitersMatch ==
    \A t \in Threads : pc[t] = "wait" =>
        /\ flight[t] \in Threads
        /\ pc[flight[t]] \in {"load", "publish"}
        /\ KeyOf(flight[t]) = KeyOf(t)

Typed == TypeOK /\ SeenOK
CacheInv == StoredClean /\ EntriesClean /\ LoadsClean /\ WaitersMatch

---------------------------------------------------------------------------
LEMMA KeyTyped ==
    ASSUME Typed, NEW t \in Threads, Active(t), pc[t] # "ready"
    PROVE  KeyOf(t) \in Keys
BY DEF Typed, TypeOK, SeenOK, KeyOf, Keys

LEMMA TypedInit == Init => Typed
BY CacheBounds DEF Init, Typed, TypeOK, SeenOK, Active, Graphs, Keys, Steps

LEMMA TypedStep == Typed /\ [Next]_vars => Typed'
<1> SUFFICES ASSUME Typed, [Next]_vars PROVE Typed'
    OBVIOUS
<1> USE CacheBounds DEF Typed, TypeOK, SeenOK, Active, db, req, Go, Steps
<1>1. ASSUME NEW s \in Sources, Forget(s) PROVE Typed'
    BY <1>1 DEF Forget, Graphs
<1>2. CASE RebuildGraph
    BY <1>2 DEF RebuildGraph, Graphs
<1>3. ASSUME NEW t \in Threads, Begin(t) PROVE Typed'
    BY <1>3 DEF Begin
<1>4. ASSUME NEW t \in Threads, End(t) PROVE Typed'
    BY <1>4 DEF End
<1>5. ASSUME NEW t \in Threads, ReadinessHit(t) PROVE Typed'
    <2>1. ready \in Keys
        BY <1>5 DEF ReadinessHit, ReadyFor
    <2>2. ready.marker \in Graphs
        BY <2>1 DEF Keys
    <2> QED BY <1>5, <2>2 DEF ReadinessHit
<1>6. ASSUME NEW t \in Threads, ReadinessMiss(t) PROVE Typed'
    BY <1>6 DEF ReadinessMiss
<1>7. ASSUME NEW t \in Threads, FileReadiness(t) PROVE Typed'
    <2>1. ready' \in Keys
        BY <1>7 DEF FileReadiness, Keys
    <2> QED BY <1>7, <2>1 DEF FileReadiness
<1>8. ASSUME NEW t \in Threads, Hit(t) PROVE Typed'
    BY <1>8 DEF Hit, Entry
<1>9. ASSUME NEW t \in Threads, Join(t) PROVE Typed'
    BY <1>9 DEF Join, Owners
<1>10. ASSUME NEW t \in Threads, Own(t) PROVE Typed'
    BY <1>10 DEF Own
<1>11. ASSUME NEW t \in Threads, Load(t) PROVE Typed'
    BY <1>11 DEF Load
<1>12. ASSUME NEW t \in Threads, Publish(t) PROVE Typed'
    <2>1. KeyOf(t) \in Keys
        BY <1>12, KeyTyped DEF Publish
    <2>2. cache' \subseteq [key : Keys, graph : Graphs \cup {Nil}]
        BY <1>12, <2>1 DEF Publish
    <2>3. /\ pc' \in [Threads -> Steps]
          /\ got' \in [Threads -> Graphs \cup {Nil}]
          /\ flight' \in [Threads -> Threads \cup {Nil}]
        BY <1>12 DEF Publish, Release
    <2>4. SeenOK'
        BY <1>12 DEF Publish, Release, Waiters
    <2> QED BY <1>12, <2>2, <2>3, <2>4 DEF Publish
<1>13. ASSUME NEW t \in Threads, LoadFails(t) PROVE Typed'
    BY <1>13 DEF LoadFails, Release, Waiters
<1>14. CASE UNCHANGED vars
    BY <1>14 DEF vars
<1> QED
    BY <1>1, <1>2, <1>3, <1>4, <1>5, <1>6, <1>7, <1>8, <1>9, <1>10, <1>11, <1>12, <1>13, <1>14
    DEF Next, Continue

LEMMA CacheInit == Init => CacheInv
BY DEF Init, CacheInv, StoredClean, EntriesClean, LoadsClean, WaitersMatch, Active

LEMMA CacheStep == Typed /\ CacheInv /\ [Next]_vars => CacheInv'
<1> SUFFICES ASSUME Typed, CacheInv, [Next]_vars PROVE CacheInv'
    OBVIOUS
<1> USE DEF Typed, TypeOK, CacheInv, Active, db, req, Go, Steps
<1>1. ASSUME NEW s \in Sources, Forget(s) PROVE CacheInv'
    BY <1>1 DEF Forget, StoredClean, EntriesClean, LoadsClean, WaitersMatch, KeyOf, Graphs
<1>2. CASE RebuildGraph
    BY <1>2 DEF RebuildGraph, StoredClean, EntriesClean, LoadsClean, WaitersMatch, KeyOf
<1>3. ASSUME NEW t \in Threads, Begin(t) PROVE CacheInv'
    BY <1>3 DEF Begin, StoredClean, EntriesClean, LoadsClean, WaitersMatch, KeyOf
<1>4. ASSUME NEW t \in Threads, End(t) PROVE CacheInv'
    BY <1>4 DEF End, StoredClean, EntriesClean, LoadsClean, WaitersMatch, KeyOf
<1>5. ASSUME NEW t \in Threads, ReadinessHit(t) PROVE CacheInv'
    BY <1>5 DEF ReadinessHit, StoredClean, EntriesClean, LoadsClean, WaitersMatch, KeyOf
<1>6. ASSUME NEW t \in Threads, ReadinessMiss(t) PROVE CacheInv'
    BY <1>6 DEF ReadinessMiss, StoredClean, EntriesClean, LoadsClean, WaitersMatch, KeyOf
<1>7. ASSUME NEW t \in Threads, FileReadiness(t) PROVE CacheInv'
    BY <1>7 DEF FileReadiness, StoredClean, EntriesClean, LoadsClean, WaitersMatch, KeyOf
<1>8. ASSUME NEW t \in Threads, Hit(t) PROVE CacheInv'
    <2>1. PICK e \in cache : e.key = KeyOf(t) /\ got' = [got EXCEPT ![t] = e.graph]
        BY <1>8 DEF Hit, Entry
    <2>2. e.key.marker = seen[t] /\ e.key.fp = pinned[t]
        BY <2>1 DEF KeyOf
    <2>3. LoadsClean'
        BY <1>8, <2>1, <2>2 DEF Hit, LoadsClean, EntriesClean
    <2> QED BY <1>8, <2>3 DEF Hit, StoredClean, EntriesClean, WaitersMatch, KeyOf
<1>9. ASSUME NEW t \in Threads, Join(t) PROVE CacheInv'
    BY <1>9 DEF Join, Owners, StoredClean, EntriesClean, LoadsClean, WaitersMatch, KeyOf
<1>10. ASSUME NEW t \in Threads, Own(t) PROVE CacheInv'
    BY <1>10 DEF Own, StoredClean, EntriesClean, LoadsClean, WaitersMatch, KeyOf
<1>11. ASSUME NEW t \in Threads, Load(t) PROVE CacheInv'
    BY <1>11 DEF Load, StoredClean, EntriesClean, LoadsClean, WaitersMatch, KeyOf
<1>12. ASSUME NEW t \in Threads, Publish(t) PROVE CacheInv'
    <2>1. EntriesClean'
        BY <1>12 DEF Publish, EntriesClean, LoadsClean, KeyOf
    <2>2. \A u \in Waiters(t) : seen[u] = seen[t] /\ pinned[u] = pinned[t]
        BY DEF Waiters, WaitersMatch, KeyOf
    <2>3. LoadsClean'
        BY <1>12, <2>2 DEF Publish, Release, LoadsClean
    <2>4. WaitersMatch'
        BY <1>12 DEF Publish, Release, Waiters, WaitersMatch, KeyOf
    <2>5. StoredClean'
        BY <1>12 DEF Publish, Release, Waiters, StoredClean
    <2> QED BY <2>1, <2>3, <2>4, <2>5
<1>13. ASSUME NEW t \in Threads, LoadFails(t) PROVE CacheInv'
    <2>1. LoadsClean' /\ EntriesClean' /\ StoredClean'
        BY <1>13 DEF LoadFails, Release, Waiters, LoadsClean, EntriesClean, StoredClean
    <2>2. WaitersMatch'
        BY <1>13 DEF LoadFails, Release, Waiters, WaitersMatch, KeyOf
    <2> QED BY <2>1, <2>2
<1>14. CASE UNCHANGED vars
    BY <1>14 DEF vars, StoredClean, EntriesClean, LoadsClean, WaitersMatch, KeyOf
<1> QED
    BY <1>1, <1>2, <1>3, <1>4, <1>5, <1>6, <1>7, <1>8, <1>9, <1>10, <1>11, <1>12, <1>13, <1>14
    DEF Next, Continue

\* No request is answered with the graph of a source erased before its snapshot
\* (_cached_semantic_graph over GenerationStore.graph_readiness): whatever was
\* erased, rebuilt, evicted or loaded by another thread in between.
THEOREM ErasedGraphNeverServed == Spec => []NoErasedGraph
<1>1. Init => Typed /\ CacheInv
    BY TypedInit, CacheInit
<1>2. Typed /\ CacheInv /\ [Next]_vars => (Typed /\ CacheInv)'
    BY TypedStep, CacheStep
<1>3. Typed /\ CacheInv => NoErasedGraph
    BY DEF CacheInv, LoadsClean, NoErasedGraph
<1> QED
    BY <1>1, <1>2, <1>3, PTL DEF Spec

---------------------------------------------------------------------------
LEMMA FlightStep == Typed /\ OneFlight /\ [Next]_vars => OneFlight'
<1> SUFFICES ASSUME Typed, OneFlight, [Next]_vars PROVE OneFlight'
    OBVIOUS
<1> USE DEF Typed, TypeOK, db, req, Go, OneFlight, KeyOf
<1>1. ASSUME NEW s \in Sources, Forget(s) PROVE OneFlight'
    BY <1>1 DEF Forget
<1>2. CASE RebuildGraph
    BY <1>2 DEF RebuildGraph
<1>3. ASSUME NEW t \in Threads,
             Begin(t) \/ End(t) \/ ReadinessHit(t) \/ ReadinessMiss(t) \/ FileReadiness(t)
      PROVE  OneFlight'
    BY <1>3 DEF Begin, End, ReadinessHit, ReadinessMiss, FileReadiness
<1>4. ASSUME NEW t \in Threads, Hit(t) \/ Join(t) \/ Load(t) PROVE OneFlight'
    BY <1>4 DEF Hit, Join, Load
<1>5. ASSUME NEW t \in Threads, Own(t) PROVE OneFlight'
    BY <1>5 DEF Own, Owners
<1>6. ASSUME NEW t \in Threads, Publish(t) \/ LoadFails(t) PROVE OneFlight'
    BY <1>6 DEF Publish, LoadFails, Release, Waiters
<1>7. CASE UNCHANGED vars
    BY <1>7 DEF vars
<1> QED
    BY <1>1, <1>2, <1>3, <1>4, <1>5, <1>6, <1>7 DEF Next, Continue

\* One thread at most loads a key, however many threads miss it at once
\* (_SEMANTIC_GRAPH_INFLIGHT).
THEOREM OneFlightPerKey == Spec => []OneFlight
<1>1. Init => OneFlight
    BY DEF Init, OneFlight
<1> QED
    BY <1>1, TypedInit, TypedStep, FlightStep, PTL DEF Spec
=============================================================================
