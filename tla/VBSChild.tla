------------------------------- MODULE VBSChild -------------------------------
(***************************************************************************)
(* How the virtual block store's threads, the reactor and an S3 child keep *)
(* the child's queues moving: m_notified and initiate_requests of          *)
(* modules/VBlockStore/VBSChild.cpp, bs_issaturated and remove_handler of  *)
(* modules/S3BlockStore/S3BlockStore.cpp.                                  *)
(*                                                                         *)
(* Any number of threads may be in initiate_requests at a time: those the  *)
(* reactor started for a notification and those that came in through       *)
(* uh_unsaturated.  They have no state of their own but the place in the   *)
(* loop they are at, so the model counts the threads at each place.        *)
(***************************************************************************)
EXTENDS Integers

CONSTANTS
    SATURATED_SIZE, \* the handlers at which the store calls itself saturated
    Threads,        \* the threads that run the loop, of both reactors
    MaxQueued       \* bound on the requests ever enqueued

ASSUME VBSChildAssumption ==
    SATURATED_SIZE \in Nat \ {0} /\ Threads \in Nat \ {0} /\ MaxQueued \in Nat

VARIABLES
    queued,         \* requests in m_refreqs .. m_putreqs, keys in m_neededkeys
    enqueued,       \* the number of requests enqueued so far
    m_notified,     \* the flag that keeps notifications apart
    notices,        \* notifications the reactor has not dispatched
    checking,       \* threads about to ask bs_issaturated
    locking,        \* threads that were told no, about to look at the queues
    starting,       \* threads in initiate, with a request in hand
    leaving,        \* threads that were told yes, about to clear m_notified
    m_rsphandlers,  \* the number of requests the store works on
    answering,      \* those of them whose completion routine is running
    unsats          \* calls of uh_unsaturated remove_handler is about to make

vars == <<queued, enqueued, m_notified, notices, checking, locking, starting, leaving,
          m_rsphandlers, answering, unsats>>

TypeOK ==
    /\ queued \in Nat /\ enqueued \in Nat /\ m_notified \in BOOLEAN
    /\ notices \in Nat /\ checking \in Nat /\ locking \in Nat
    /\ starting \in Nat /\ leaving \in Nat
    /\ m_rsphandlers \in Nat /\ answering \in 0..m_rsphandlers /\ unsats \in Nat

InTheLoop == checking + locking + starting + leaving

-----------------------------------------------------------------------------
(* VBSChild *)

\* Mutant: m_notified is set before it is tested, so that nobody is notified.
enqueue_unnotified ==
    /\ enqueued < MaxQueued
    /\ queued' = queued + 1 /\ enqueued' = enqueued + 1
    /\ m_notified' = TRUE
    /\ UNCHANGED <<notices, checking, locking, starting, leaving, m_rsphandlers,
                   answering, unsats>>

\* enqueue_get, enqueue_put, enqueue_refresh, enqueue_headnode
enqueue ==
    /\ enqueued < MaxQueued
    /\ queued' = queued + 1 /\ enqueued' = enqueued + 1
    /\ m_notified' = TRUE
    /\ notices' = IF m_notified THEN notices ELSE notices + 1
    /\ UNCHANGED <<checking, locking, starting, leaving, m_rsphandlers, answering, unsats>>

handle_exception ==
    /\ notices > 0 /\ InTheLoop < Threads
    /\ notices' = notices - 1 /\ checking' = checking + 1
    /\ UNCHANGED <<queued, enqueued, m_notified, locking, starting, leaving,
                   m_rsphandlers, answering, unsats>>

uh_unsaturated ==
    /\ unsats > 0 /\ InTheLoop < Threads
    /\ unsats' = unsats - 1 /\ checking' = checking + 1
    /\ UNCHANGED <<queued, enqueued, m_notified, notices, locking, starting, leaving,
                   m_rsphandlers, answering>>

bs_issaturated == m_rsphandlers >= SATURATED_SIZE

\* Mutant: the store is given work whether it is saturated or not.
check_saturated_never ==
    /\ checking > 0
    /\ checking' = checking - 1 /\ locking' = locking + 1
    /\ UNCHANGED <<queued, enqueued, m_notified, notices, starting, leaving,
                   m_rsphandlers, answering, unsats>>

\* "Check to make sure the child isn't saturated": the answer is used after the
\* store's mutex is released.
check_saturated ==
    /\ checking > 0
    /\ checking' = checking - 1
    /\ IF bs_issaturated
       THEN leaving' = leaving + 1 /\ UNCHANGED locking
       ELSE locking' = locking + 1 /\ UNCHANGED leaving
    /\ UNCHANGED <<queued, enqueued, m_notified, notices, starting, m_rsphandlers,
                   answering, unsats>>

leave_saturated ==
    /\ leaving > 0
    /\ leaving' = leaving - 1
    /\ m_notified' = FALSE
    /\ UNCHANGED <<queued, enqueued, notices, checking, locking, starting, m_rsphandlers,
                   answering, unsats>>

take_request ==
    /\ locking > 0 /\ queued > 0
    /\ locking' = locking - 1 /\ starting' = starting + 1
    /\ queued' = queued - 1
    /\ UNCHANGED <<enqueued, m_notified, notices, checking, leaving, m_rsphandlers,
                   answering, unsats>>

\* "If we get here we're done."
leave_empty ==
    /\ locking > 0 /\ queued = 0
    /\ locking' = locking - 1
    /\ m_notified' = FALSE
    /\ UNCHANGED <<queued, enqueued, notices, checking, starting, leaving, m_rsphandlers,
                   answering, unsats>>

-----------------------------------------------------------------------------
(* S3BlockStore *)

\* bs_block_get_async or bs_block_put_async enters a handler in the master list.
initiate_async ==
    /\ starting > 0
    /\ starting' = starting - 1 /\ checking' = checking + 1
    /\ m_rsphandlers' = m_rsphandlers + 1
    /\ UNCHANGED <<queued, enqueued, m_notified, notices, locking, leaving, answering, unsats>>

\* The key is needed, and enqueued for the loop without a notification.
NeedKey(needed) ==
    IF needed THEN enqueued < MaxQueued /\ queued' = queued + 1 /\ enqueued' = enqueued + 1
              ELSE UNCHANGED <<queued, enqueued>>

\* The store answers before initiate returns: it knows that it has not got the
\* block, it already has it, or the operation is a refresh.
initiate_answered(needed) ==
    /\ starting > 0
    /\ starting' = starting - 1 /\ checking' = checking + 1
    /\ NeedKey(needed)
    /\ UNCHANGED <<m_notified, notices, locking, leaving, m_rsphandlers, answering, unsats>>

\* A handler calls the completion routine.
answer(needed) ==
    /\ answering < m_rsphandlers
    /\ answering' = answering + 1
    /\ NeedKey(needed)
    /\ UNCHANGED <<m_notified, notices, checking, locking, starting, leaving,
                   m_rsphandlers, unsats>>

\* Mutant: the unsaturated handler is called when the last request is gone.
remove_handler_last ==
    /\ answering > 0
    /\ answering' = answering - 1 /\ m_rsphandlers' = m_rsphandlers - 1
    /\ unsats' = IF m_rsphandlers = 1 THEN unsats + 1 ELSE unsats
    /\ UNCHANGED <<queued, enqueued, m_notified, notices, checking, locking, starting, leaving>>

\* "If we aren't saturated call the unsaturatedhandler."
remove_handler ==
    /\ answering > 0
    /\ answering' = answering - 1 /\ m_rsphandlers' = m_rsphandlers - 1
    /\ unsats' = IF m_rsphandlers - 1 < SATURATED_SIZE THEN unsats + 1 ELSE unsats
    /\ UNCHANGED <<queued, enqueued, m_notified, notices, checking, locking, starting, leaving>>

-----------------------------------------------------------------------------
Init ==
    /\ queued = 0 /\ enqueued = 0 /\ m_notified = FALSE /\ notices = 0
    /\ checking = 0 /\ locking = 0 /\ starting = 0 /\ leaving = 0
    /\ m_rsphandlers = 0 /\ answering = 0 /\ unsats = 0

Loop == check_saturated \/ leave_saturated \/ take_request \/ leave_empty

Initiate == initiate_async \/ \E needed \in BOOLEAN : initiate_answered(needed)

Answer == \E needed \in BOOLEAN : answer(needed)

Next ==
    \/ enqueue \/ handle_exception \/ uh_unsaturated
    \/ Loop \/ Initiate \/ Answer \/ remove_handler

Spec == Init /\ [][Next]_vars

\* The reactors dispatch what is pending, threads in the loop and in a completion
\* routine go on, S3 answers or the handler gives up after its retries.
FairSpec ==
    /\ Spec
    /\ WF_vars(handle_exception) /\ WF_vars(uh_unsaturated)
    /\ WF_vars(check_saturated) /\ WF_vars(leave_saturated)
    /\ WF_vars(take_request) /\ WF_vars(leave_empty)
    /\ WF_vars(Initiate) /\ WF_vars(Answer) /\ WF_vars(remove_handler)

-----------------------------------------------------------------------------
(* Properties *)

\* Someone is about to look at the queues, or the store will say when to.
Attended ==
    \/ notices + checking + locking + starting + answering + unsats > 0
    \/ bs_issaturated

\* No wakeup is lost: while a request is queued, or m_notified keeps others from
\* notifying, a thread is on its way to the queues or the store is saturated and
\* will call uh_unsaturated.
NoLostWakeup == queued > 0 \/ m_notified => Attended

\* bs_issaturated is asked and acted on without a lock between; the store gets at
\* most as many requests too many as there are threads in the loop, less one.
OvershootBounded == m_rsphandlers <= SATURATED_SIZE - 1 + Threads

\* The child's queues are a WorkQueue: queued work is taken.
Abstract == INSTANCE WorkQueue
Implements == Abstract!Spec
=============================================================================
