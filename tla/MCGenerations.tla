--------------------------- MODULE MCGenerations ---------------------------
(* Small instances of Generations for TLC. *)
EXTENDS Generations, TLC
CONSTANTS s1, s2, v1, v2, v3, w1, w2

\* s1 chunks to nothing; s2 makes a claim, makes none, or is left out
Varied == {[s \in Sources |-> IF s = s1 THEN v3 ELSE v] : v \in {v1, v2, Nil}}
\* every manifest over the two contents v1 and v2
AllManifests == [Sources -> Versions \cup {Nil}]
\* manifests that name every source
Full == [Sources -> Versions]

\* behaviours in which no build fails, for a run that looks for one long
\* sequence of ordinary calls
NoFailures == \A g \in Gens : state[g] \notin {"failed", "collected"}

\* the fits are interchangeable
Symmetry == Permutations(Cals)
=============================================================================
