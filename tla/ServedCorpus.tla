---------------------------- MODULE ServedCorpus ----------------------------
(***************************************************************************)
(* What the generation machinery promises its readers, with no generation, *)
(* worker, lock or pointer in sight: the corpus that is served is always   *)
(* one whole manifest less what was erased.  It is replaced in one step,   *)
(* the corpus it replaces can be brought back in one step, and an erasure  *)
(* takes a source out of both for ever.                                    *)
(***************************************************************************)
CONSTANTS Sources, EmptyVersions, Manifests, Nil

VARIABLES
    served,   \* the content of each source that a search can return
    prior,    \* what a rollback would serve
    erased    \* the sources that were forgotten

corpusVars == <<served, prior, erased>>

\* the searchable content of a manifest once these sources are gone
Content(m, gone) ==
    [s \in Sources |-> IF s \in gone \/ m[s] \in EmptyVersions THEN Nil ELSE m[s]]

Without(corpus, s) == IF corpus = Nil THEN Nil ELSE [corpus EXCEPT ![s] = Nil]

Init == served = Nil /\ prior = Nil /\ erased = {}

Replace(m) ==
    /\ served' = Content(m, erased)
    /\ prior' = served
    /\ UNCHANGED erased

BringBack ==
    /\ prior # Nil
    /\ served' = prior
    /\ prior' = served
    /\ UNCHANGED erased

Erase(s) ==
    /\ erased' = erased \cup {s}
    /\ served' = Without(served, s)
    /\ prior' = Without(prior, s)

Next == (\E m \in Manifests : Replace(m)) \/ BringBack \/ (\E s \in Sources : Erase(s))

Spec == Init /\ [][Next]_corpusVars
=============================================================================
