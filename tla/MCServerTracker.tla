-------------------------- MODULE MCServerTracker --------------------------
(* Instances of ServerTracker for TLC. *)
EXTENDS ServerTracker, TLC

\* The process starts over at most one row, which has no peak yet.
MCInit ==
    /\ Init
    /\ Cardinality(live) <= 1
    /\ \A i \in Ids : row[i].peak = NoCount

\* No id is left to create: the requests are PATCHes and DELETEs of rows that
\* were there when the process started.
MCFullInit ==
    /\ Init
    /\ live = Ids
    /\ \A i \in Ids : row[i].peak = NoCount

MCFullSpec == MCFullInit /\ [][Next]_vars
MCSpec == MCInit /\ [][Next]_vars
MCFairSpec == MCSpec /\ Fairness

Perms == Permutations(Ids) \cup Permutations(Hosts) \cup Permutations(Requests)
=============================================================================
