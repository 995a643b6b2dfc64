---------------------------- MODULE MCHeadGraph ----------------------------
(***************************************************************************)
(* HeadGraph on two file systems.  The references of the first are 0 (the  *)
(* empty one), 1, 2 and 3; the offered edges lead from a smaller to a      *)
(* larger reference, because a root block's digest cannot be known before  *)
(* the root that precedes it: every fork, merge and out-of-order arrival   *)
(* on four nodes occurs.  The second file system has one edge.             *)
(***************************************************************************)
EXTENDS HeadGraph, Naturals

Edge(t, i, j) == [prev |-> <<t, i>>, root |-> <<t, j>>]

MCOffered ==
    {e \in LameEdge : e.prev[1] = "fs1" /\ e.prev[2] < e.root[2]}
        \cup {Edge("fs2", 0, 1)}

ASSUME MCHeadGraphAssumption == Grounded
============================================================================
