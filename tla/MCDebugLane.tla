----------------------------- MODULE MCDebugLane -----------------------------
(* A small instance of the sprint store and the debug lane for TLC. *)
EXTENDS DebugLane

\* Bound: where there are debug items there is one sprint, and no session is bound.
Bounded ==
    items # <<>> => /\ Cardinality(created) <= 1 /\ declined = {}
                    /\ \A p \in Sessions : binding[p] = None /\ pending[p].at # "starting"

Symmetry == Permutations(Sprints) \cup Permutations(Slugs) \cup Permutations(Sessions)

===============================================================================
