---------------------------- MODULE VBSChildProofs ----------------------------
(***************************************************************************)
(* Theorems about VBSChild, for every SATURATED_SIZE, every number of      *)
(* threads and every number of requests.                                   *)
(*                                                                         *)
(* NoLostWakeup is inductive together with the types: the flag and the     *)
(* queues are looked at together, and the one thread that takes the store  *)
(* below SATURATED_SIZE is the one that calls uh_unsaturated.              *)
(* OvershootBounded is not: a thread that was told the store is not        *)
(* saturated has not entered its handler yet.  Overshoot counts it.        *)
(***************************************************************************)
EXTENDS VBSChild, TLAPS

\* The handlers there are and those the threads between bs_issaturated and the
\* master list may still add.
Overshoot == m_rsphandlers + locking + starting <= SATURATED_SIZE - 1 + Threads

Counts ==
    /\ queued \in Nat /\ enqueued \in Nat
    /\ notices \in Nat /\ checking \in Nat /\ locking \in Nat
    /\ starting \in Nat /\ leaving \in Nat
    /\ m_rsphandlers \in Nat /\ answering \in 0..m_rsphandlers /\ unsats \in Nat

ThreadsBounded == InTheLoop <= Threads

Inv == TypeOK /\ ThreadsBounded /\ Overshoot /\ NoLostWakeup

\* A child begins with empty queues and unsaturated.
LEMMA InitInv == Init => Inv
<1> SUFFICES ASSUME Init PROVE Inv
  OBVIOUS
<1>1. Counts /\ ThreadsBounded /\ Overshoot
  BY VBSChildAssumption DEF Init, Counts, ThreadsBounded, InTheLoop, Overshoot
<1>2. m_notified \in BOOLEAN /\ ~m_notified
  BY Zenon DEF Init
<1>3. TypeOK
  BY <1>1, <1>2 DEF TypeOK, Counts
<1>4. NoLostWakeup
  <2>1. ~(queued > 0)
    BY SMT DEF Init
  <2>2. QED
    BY <1>2, <2>1, Zenon DEF NoLostWakeup
<1>5. QED
  BY <1>1, <1>3, <1>4 DEF Inv

\* m_notified, apart from the counts.
LEMMA StepFlag ==
    ASSUME TypeOK, [Next]_vars
    PROVE  m_notified' \in BOOLEAN
<1>1. m_notified' = m_notified \/ m_notified' = TRUE \/ m_notified' = FALSE
  BY Zenon DEF Next, vars, Loop, Initiate, Answer, enqueue, handle_exception, uh_unsaturated,
         check_saturated, leave_saturated, take_request, leave_empty, initiate_async,
         initiate_answered, answer, remove_handler
<1>2. QED
  BY <1>1, Zenon DEF TypeOK

\* The counts: plain arithmetic on each action.
LEMMA StepCounts ==
    ASSUME Counts, ThreadsBounded, Overshoot, [Next]_vars
    PROVE  Counts' /\ ThreadsBounded' /\ Overshoot'
<1> USE VBSChildAssumption DEF Counts, ThreadsBounded, InTheLoop, Overshoot
<1>1. CASE enqueue
  BY <1>1 DEF enqueue
<1>2. CASE handle_exception
  BY <1>2 DEF handle_exception
<1>3. CASE uh_unsaturated
  BY <1>3 DEF uh_unsaturated
<1>4. CASE check_saturated
  BY <1>4 DEF check_saturated, bs_issaturated
<1>5. CASE leave_saturated
  BY <1>5 DEF leave_saturated
<1>6. CASE take_request
  BY <1>6 DEF take_request
<1>7. CASE leave_empty
  BY <1>7 DEF leave_empty
<1>8. CASE initiate_async
  BY <1>8 DEF initiate_async
<1>9. ASSUME NEW needed \in BOOLEAN, initiate_answered(needed)
      PROVE  Counts' /\ ThreadsBounded' /\ Overshoot'
  BY <1>9 DEF initiate_answered, NeedKey
<1>10. ASSUME NEW needed \in BOOLEAN, answer(needed)
       PROVE  Counts' /\ ThreadsBounded' /\ Overshoot'
  BY <1>10 DEF answer, NeedKey
<1>11. CASE remove_handler
  BY <1>11 DEF remove_handler
<1>12. CASE UNCHANGED vars
  BY <1>12 DEF vars
<1>13. QED
  BY <1>1, <1>2, <1>3, <1>4, <1>5, <1>6, <1>7, <1>8, <1>9, <1>10, <1>11, <1>12
     DEF Next, Loop, Initiate, Answer

\* The wakeup: what leaves the queues unattended leaves them empty and the flag
\* down, or the store saturated.
LEMMA StepWakeup ==
    ASSUME TypeOK, NoLostWakeup, [Next]_vars
    PROVE  NoLostWakeup'
<1> USE VBSChildAssumption DEF TypeOK, NoLostWakeup, Attended, bs_issaturated
<1>1. CASE enqueue
  BY <1>1 DEF enqueue
<1>2. CASE handle_exception
  BY <1>2 DEF handle_exception
<1>3. CASE uh_unsaturated
  BY <1>3 DEF uh_unsaturated
<1>4. CASE check_saturated
  BY <1>4 DEF check_saturated
<1>5. CASE leave_saturated
  BY <1>5 DEF leave_saturated
<1>6. CASE take_request
  BY <1>6 DEF take_request
<1>7. CASE leave_empty
  BY <1>7 DEF leave_empty
<1>8. CASE initiate_async
  BY <1>8 DEF initiate_async
<1>9. ASSUME NEW needed \in BOOLEAN, initiate_answered(needed)
      PROVE  NoLostWakeup'
  BY <1>9 DEF initiate_answered, NeedKey
<1>10. ASSUME NEW needed \in BOOLEAN, answer(needed)
       PROVE  NoLostWakeup'
  BY <1>10 DEF answer, NeedKey
<1>11. CASE remove_handler
  BY <1>11 DEF remove_handler
<1>12. CASE UNCHANGED vars
  BY <1>12 DEF vars
<1>13. QED
  BY <1>1, <1>2, <1>3, <1>4, <1>5, <1>6, <1>7, <1>8, <1>9, <1>10, <1>11, <1>12
     DEF Next, Loop, Initiate, Answer

\* The invariant holds throughout.
LEMMA Invariance == Spec => []Inv
<1>1. TypeOK <=> Counts /\ m_notified \in BOOLEAN
  BY DEF TypeOK, Counts
<1>2. (TypeOK <=> Counts /\ m_notified \in BOOLEAN)'
  BY DEF TypeOK, Counts
<1>3. Inv /\ [Next]_vars => Inv'
  BY <1>1, <1>2, StepFlag, StepCounts, StepWakeup DEF Inv
<1>4. QED
  BY InitInv, <1>3, PTL DEF Spec

\* The counts never go below zero, and no more completion routines run than the
\* store has handlers.
THEOREM TypeCorrect == Spec => []TypeOK
BY Invariance, PTL DEF Inv

\* However notifications, loops and unsaturated callbacks interleave, queued work
\* is attended to: the protocol of m_notified loses no wakeup.
THEOREM WakeupKept == Spec => []NoLostWakeup
BY Invariance, PTL DEF Inv

\* The check of bs_issaturated, stale when it is used, lets the store exceed its
\* limit by no more than the other threads in the loop.
THEOREM OvershootHolds == Spec => []OvershootBounded
<1>1. Inv => OvershootBounded
  BY VBSChildAssumption DEF Inv, TypeOK, Overshoot, OvershootBounded
<1>2. QED
  BY Invariance, <1>1, PTL

\* Every step puts one request in the queues, takes one out or leaves them: the
\* safety part of Implements.
THEOREM QueueSteps == Spec => Abstract!Init /\ [][Abstract!Next]_queued
<1>1. Init => Abstract!Init
  BY DEF Init, Abstract!Init
<1>2. [Next]_vars => [Abstract!Next]_queued
  BY DEF Next, vars, Loop, Initiate, Answer, enqueue, handle_exception, uh_unsaturated,
         check_saturated, leave_saturated, take_request, leave_empty, initiate_async,
         initiate_answered, answer, NeedKey, remove_handler,
         Abstract!Next, Abstract!Put, Abstract!Take
<1>3. QED
  BY <1>1, <1>2, PTL DEF Spec
=============================================================================
