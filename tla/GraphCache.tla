----------------------------- MODULE GraphCache -----------------------------
(***************************************************************************)
(* The semantic graph a server process serves from memory, while other     *)
(* processes erase sources and rebuild graphs in the database:             *)
(* recall_mcp/semantic_graph_cache.py (_cached_semantic_graph) over the    *)
(* snapshot and the readiness cache of recall/generation_store.py, for one *)
(* active generation.                                                      *)
(*                                                                         *)
(* A request pins the corpus fingerprint, reads the graph's marker (or the *)
(* readiness cached for that fingerprint), and looks the graph up under    *)
(* both; a miss is loaded by one thread per key while the others wait.     *)
(* Every database read and every critical section is one action, so an     *)
(* erasure or a rebuild can fall between any two of them.                  *)
(***************************************************************************)
EXTENDS Naturals, FiniteSets

CONSTANTS
    Sources,      \* source_uri
    Threads,      \* request threads of the server process
    MaxEntries,   \* _SEMANTIC_GRAPH_CACHE_MAX
    MaxVersion,   \* bound: graph builder versions deployed
    MaxErrors,    \* bound: loads that raise
    Nil           \* no graph, no marker, no thread

ASSUME CacheNil == Nil \notin Threads
ASSUME CacheBounds == MaxEntries \in Nat \ {0} /\ MaxVersion \in Nat /\ MaxErrors \in Nat

VARIABLES
    corpus,     \* corpus_fingerprint: it identifies the sources not erased
    graph,      \* the stored graph: its members' sources, its builder version
    marker,     \* validation_summary.semantic_graph: the graph it was written for
    ready,      \* _graph_readiness_cache: a fingerprint and a marker, or Nil
    cache,      \* _SEMANTIC_GRAPH_CACHE: the graph, or Nil, under each key
    pc,         \* where a request is
    pinned,     \* the corpus fingerprint its snapshot pinned
    seen,       \* the readiness it goes by
    got,        \* the graph it loaded or was answered with
    flight,     \* the thread whose flight it waits for
    errors

db == <<corpus, graph, marker>>
req == <<pc, pinned, seen, got, flight>>
vars == <<db, ready, cache, req, errors>>

Graphs == [srcs : SUBSET Sources, version : 0..MaxVersion]
Keys == [fp : SUBSET Sources, marker : Graphs]
Steps == {"idle", "ready", "file", "lookup", "wait", "load", "publish", "done", "raised"}

TypeOK ==
    /\ corpus \subseteq Sources
    /\ graph \in Graphs /\ marker \in Graphs
    /\ ready \in Keys \cup {Nil}
    /\ cache \subseteq [key : Keys, graph : Graphs \cup {Nil}]
    /\ pc \in [Threads -> Steps]
    /\ pinned \in [Threads -> SUBSET Sources]
    /\ seen \in [Threads -> Graphs \cup {Nil}]
    /\ got \in [Threads -> Graphs \cup {Nil}]
    /\ flight \in [Threads -> Threads \cup {Nil}]
    /\ errors \in 0..MaxErrors

\* a generation is served only once validated, with its graph and its marker
Init ==
    /\ corpus = Sources
    /\ graph = [srcs |-> Sources, version |-> 0]
    /\ marker = graph
    /\ ready = Nil
    /\ cache = {}
    /\ pc = [t \in Threads |-> "idle"]
    /\ pinned = [t \in Threads |-> {}]
    /\ seen = [t \in Threads |-> Nil]
    /\ got = [t \in Threads |-> Nil]
    /\ flight = [t \in Threads |-> Nil]
    /\ errors = 0

---------------------------------------------------------------------------
(* Other processes *)

\* GenerationManager.forget, as far as the graph goes: rows and fingerprint in
\* one transaction, the marker left as it was
Forget(s) ==
    /\ s \in corpus
    /\ corpus' = corpus \ {s}
    /\ graph' = [graph EXCEPT !.srcs = @ \ {s}]
    /\ UNCHANGED <<marker, ready, cache, req, errors>>

\* rebuild_graph: graph and marker in one transaction, by any builder this server's
\* code knows (a newer one's marker reads as not ready)
RebuildGraph ==
    /\ \E v \in graph.version..MaxVersion :
          /\ graph' = [srcs |-> corpus, version |-> v]
          /\ marker' = graph'
    /\ UNCHANGED <<corpus, ready, cache, req, errors>>

---------------------------------------------------------------------------
(* A request, up to the lookup *)

Go(t, step) == pc' = [pc EXCEPT ![t] = step]

\* snapshot()
Begin(t) ==
    /\ pc[t] = "idle"
    /\ Go(t, "ready")
    /\ pinned' = [pinned EXCEPT ![t] = corpus]
    /\ UNCHANGED <<db, ready, cache, seen, got, flight, errors>>

\* the request is answered, or raised, and its snapshot is left
End(t) ==
    /\ pc[t] \in {"done", "raised"}
    /\ Go(t, "idle")
    /\ pinned' = [pinned EXCEPT ![t] = {}]
    /\ seen' = [seen EXCEPT ![t] = Nil]
    /\ got' = [got EXCEPT ![t] = Nil]
    /\ UNCHANGED <<db, ready, cache, flight, errors>>

ReadyFor(t) == ready # Nil /\ ready.fp = pinned[t]

\* graph_readiness: answered from the cache when it is for this fingerprint
ReadinessHit(t) ==
    /\ pc[t] = "ready"
    /\ ReadyFor(t)
    /\ seen' = [seen EXCEPT ![t] = ready.marker]
    /\ Go(t, "lookup")
    /\ UNCHANGED <<db, ready, cache, pinned, got, flight, errors>>

ReadinessMiss(t) ==
    /\ pc[t] = "ready"
    /\ ~ReadyFor(t)
    /\ seen' = [seen EXCEPT ![t] = marker]
    /\ Go(t, "file")
    /\ UNCHANGED <<db, ready, cache, pinned, got, flight, errors>>

\* what was read is filed under the pinned fingerprint
FileReadiness(t) ==
    /\ pc[t] = "file"
    /\ ready' = [fp |-> pinned[t], marker |-> seen[t]]
    /\ Go(t, "lookup")
    /\ UNCHANGED <<db, cache, pinned, seen, got, flight, errors>>

---------------------------------------------------------------------------
(* _cached_semantic_graph *)

\* mutant: the key leaves the corpus fingerprint out
KeyOfMarker(t) == [fp |-> Sources, marker |-> seen[t]]

KeyOf(t) == [fp |-> pinned[t], marker |-> seen[t]]

Entry(k) == {e \in cache : e.key = k}

\* mutant: a second thread does not see the first one's flight
OwnersNone(t) == {}

\* the thread that loads this request's key (_SEMANTIC_GRAPH_INFLIGHT)
Owners(t) == {u \in Threads \ {t} : pc[u] \in {"load", "publish"} /\ KeyOf(u) = KeyOf(t)}

\* mutant: a cached refusal leaves the readiness it was made under in place
HitKeepsReadiness(t) ==
    /\ pc[t] = "lookup"
    /\ \E e \in Entry(KeyOf(t)) :
          got' = [got EXCEPT ![t] = e.graph]
    /\ Go(t, "done")
    /\ UNCHANGED <<db, ready, cache, pinned, seen, flight, errors>>

\* a cached refusal also drops the readiness it was made under
Hit(t) ==
    /\ pc[t] = "lookup"
    /\ \E e \in Entry(KeyOf(t)) :
          /\ got' = [got EXCEPT ![t] = e.graph]
          /\ ready' = IF e.graph = Nil THEN Nil ELSE ready
    /\ Go(t, "done")
    /\ UNCHANGED <<db, cache, pinned, seen, flight, errors>>

Join(t) ==
    /\ pc[t] = "lookup"
    /\ Entry(KeyOf(t)) = {}
    /\ \E u \in Owners(t) : flight' = [flight EXCEPT ![t] = u]
    /\ Go(t, "wait")
    /\ UNCHANGED <<db, ready, cache, pinned, seen, got, errors>>

Own(t) ==
    /\ pc[t] = "lookup"
    /\ Entry(KeyOf(t)) = {}
    /\ Owners(t) = {}
    /\ Go(t, "load")
    /\ UNCHANGED <<db, ready, cache, pinned, seen, got, flight, errors>>

\* load_semantic_graph in one statement; a graph other than the marker's is
\* refused, and the readiness dropped
Load(t) ==
    /\ pc[t] = "load"
    /\ got' = [got EXCEPT ![t] = IF graph = seen[t] THEN graph ELSE Nil]
    /\ ready' = IF graph = seen[t] THEN ready ELSE Nil
    /\ Go(t, "publish")
    /\ UNCHANGED <<db, cache, pinned, seen, flight, errors>>

Waiters(t) == {u \in Threads : pc[u] = "wait" /\ flight[u] = t}

\* flight.done.set(): the waiters take the owner's result
Release(t, step, result) ==
    /\ pc' = [u \in Threads |-> IF u \in Waiters(t) \cup {t} THEN step ELSE pc[u]]
    /\ got' = [u \in Threads |-> IF u \in Waiters(t) \cup {t} THEN result ELSE got[u]]
    /\ flight' = [u \in Threads |-> IF u \in Waiters(t) THEN Nil ELSE flight[u]]

\* the oldest entries make room (any entry here); then the result is filed
Publish(t) ==
    /\ pc[t] = "publish"
    /\ \E kept \in SUBSET cache :
          /\ kept = cache \/ Cardinality(kept) = MaxEntries - 1
          /\ Cardinality(kept) < MaxEntries
          /\ cache' = kept \cup {[key |-> KeyOf(t), graph |-> got[t]]}
    /\ Release(t, "done", got[t])
    /\ UNCHANGED <<db, ready, pinned, seen, errors>>

\* mutant: the owner's error reaches only the owner
LoadFailsAlone(t) ==
    /\ pc[t] = "load"
    /\ errors < MaxErrors /\ errors' = errors + 1
    /\ Go(t, "raised")
    /\ UNCHANGED <<db, ready, cache, pinned, seen, got, flight>>

\* the load raises, in the owner and in everyone who waited for it
LoadFails(t) ==
    /\ pc[t] = "load"
    /\ errors < MaxErrors /\ errors' = errors + 1
    /\ Release(t, "raised", Nil)
    /\ UNCHANGED <<db, ready, cache, pinned, seen>>

---------------------------------------------------------------------------
Continue(t) ==
    \/ ReadinessHit(t) \/ ReadinessMiss(t) \/ FileReadiness(t)
    \/ Hit(t) \/ Join(t) \/ Own(t) \/ Load(t) \/ Publish(t) \/ End(t)

Next ==
    \/ \E s \in Sources : Forget(s)
    \/ RebuildGraph
    \/ \E t \in Threads : Begin(t) \/ Continue(t) \/ LoadFails(t)

Spec == Init /\ [][Next]_vars

\* a request that has begun goes on: nothing in it waits for another process
FairSpec == Spec /\ \A t \in Threads : WF_vars(Continue(t))

---------------------------------------------------------------------------
(* Properties *)

\* A request is never answered with the graph of a source that had been erased
\* when its snapshot was taken, from memory or from the database, and never
\* with a graph other than one a marker was written for (_cached_semantic_graph).
NoErasedGraph ==
    \A t \in Threads :
        pc[t] = "done" /\ got[t] # Nil => got[t] = seen[t] /\ got[t].srcs \subseteq pinned[t]

\* One thread at most loads a key; the others wait for it
\* (_SEMANTIC_GRAPH_INFLIGHT).
OneFlight ==
    \A t, u \in Threads :
        t # u /\ pc[t] \in {"load", "publish"} /\ pc[u] \in {"load", "publish"}
            => KeyOf(t) # KeyOf(u)

\* A thread that waits for another's load always comes back, with a result or
\* with the owner's error.
WaitersReturn == \A t \in Threads : pc[t] = "wait" ~> pc[t] # "wait"

\* Once the stored graph is its marker's for good, refusals cached while it was
\* not stop: from some point on every request that completes gets a graph
\* (_invalidate_graph_readiness).
RefusalsHeal ==
    <>[](graph = marker /\ corpus = marker.srcs)
        => <>[](\A t \in Threads : pc[t] = "done" => got[t] # Nil)

=============================================================================
