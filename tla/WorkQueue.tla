------------------------------ MODULE WorkQueue ------------------------------
(***************************************************************************)
(* What a child's queues promise to those who put requests in them: work   *)
(* that is queued is taken, as long as there is any, whatever the state of *)
(* the store behind the child.                                             *)
(***************************************************************************)
EXTENDS Naturals

VARIABLE queued     \* the number of requests in the queues

Init == queued = 0

Put == queued' = queued + 1
Take == queued > 0 /\ queued' = queued - 1

Next == Put \/ Take

Spec == Init /\ [][Next]_queued /\ WF_queued(Take)
=============================================================================
