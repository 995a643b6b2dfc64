---------------------------- MODULE MCVBlockStore ----------------------------
(* VBlockStore with two children, the second of which answers from threads of its own. *)
EXTENDS VBlockStore

\* Gets and puts of a block that nobody holds or only the second child, over a first
\* child that may fail; and a refresh cycle of a block, held here or there or by both.
Safety ==
    {[kinds |-> {"get", "put"}, ops |-> 2, reqs |-> 3,
      holders |-> {{}, {2}}, faulty |-> {1}],
     [kinds |-> RefreshKinds, ops |-> 3, reqs |-> 5,
      holders |-> {{1}, {2}, {1, 2}}, faulty |-> {}]}

\* One call of any kind but refreshes, of a block that a child holds.
Live ==
    {[kinds |-> AllKinds \ RefreshKinds, ops |-> 1, reqs |-> 5,
      holders |-> {{1}, {2}, {1, 2}}, faulty |-> {}]}

\* What the theorems about the answers assume of the loads.
ASSUME MCVBlockStoreAssumption == NoThrow /\ SteadyStart
=============================================================================
