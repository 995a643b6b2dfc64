---------------------------- MODULE BlockingCalls ----------------------------
(***************************************************************************)
(* The blocking calls of a block store: libutp/src/BlockStore.cpp.         *)
(*                                                                         *)
(* A call makes a completion on its stack, hands the asynchronous call of  *)
(* the store a reference to it, once or once for each key, and waits for   *)
(* done().  The store runs each of these as a job: in the caller's thread  *)
(* if it is used directly, and in threads of its own if it is a child of a *)
(* VBlockStore.  What jobs do before they answer is up to the store.       *)
(***************************************************************************)
EXTENDS Naturals, FiniteSets

CONSTANTS
    Callers,    \* the threads that call
    MaxCalls    \* bound on the calls they make

VARIABLES
    direct,     \* the store is used directly
    call,       \* per caller: the call it is in and its completion
    jobs,       \* what the store is to do, or is about to answer
    calls       \* the number of calls made

blocking == <<direct, call, jobs, calls>>

\* A call and its completion: keys it has yet to hand over, m_count, m_complete and
\* whether m_except is set.
Idle == [op |-> "none", rid |-> 0, pc |-> "idle", todo |-> {}, m_count |-> 0,
         m_complete |-> FALSE, m_except |-> FALSE]

JobsOf(c) == {j \in jobs : j.by = c}

\* bs_block_get, bs_block_put, bs_refresh_start, bs_refresh_blocks, bs_refresh_finish,
\* bs_head_insert, bs_head_follow and bs_head_furthest, with the keys they name.  With
\* an empty list bs_refresh_blocks goes to its wait() at once, and nobody will call done().
Begin(c, op, rid, keys) ==
    /\ call[c].pc = "idle" /\ calls < MaxCalls
    /\ call' = [call EXCEPT ![c] = [Idle EXCEPT !.op = op, !.rid = rid,
                                                !.pc = IF keys = {} THEN "wait" ELSE "issue",
                                                !.todo = keys, !.m_count = Cardinality(keys)]]
    /\ calls' = calls + 1
    /\ UNCHANGED <<direct, jobs>>

\* The caller is not inside a job of its own.
Free(c) == direct => JobsOf(c) = {}

\* One asynchronous call.
Issue(c) ==
    /\ call[c].pc = "issue" /\ Free(c)
    /\ \E k \in call[c].todo :
         /\ jobs' = jobs \cup {[by |-> c, op |-> call[c].op, key |-> k, pc |-> "start"]}
         /\ call' = [call EXCEPT ![c].todo = @ \ {k},
                                 ![c].pc = IF call[c].todo = {k} THEN "wait" ELSE "issue"]
    /\ UNCHANGED <<direct, calls>>

\* BlockingCompletion::wait, up to the return of the call or to the condition.
wait(c) ==
    /\ call[c].pc = "wait" /\ Free(c)
    /\ call' = [call EXCEPT ![c] = IF @.m_complete THEN Idle ELSE [@ EXCEPT !.pc = "asleep"]]
    /\ UNCHANGED <<direct, jobs, calls>>

\* An exception of an asynchronous call: in the caller's own thread it unwinds the call.
Throw(j) ==
    /\ call' = [call EXCEPT ![j.by] = Idle]
    /\ jobs' = jobs \ {j}
    /\ UNCHANGED <<direct, calls>>

-----------------------------------------------------------------------------
(* The completion routines *)

\* The job's next place.
Goto(j, pc) == jobs' = (jobs \ {j}) \cup {[j EXCEPT !.pc = pc]}

\* bg_error, bp_error, rs_error, rf_error, hei_error, het_error, hnt_error: the exception
\* is set first (in bg_error without the lock), then done() called.
error(j) ==
    /\ j.pc = "bad"
    /\ call' = [call EXCEPT ![j.by].m_except = TRUE]
    /\ Goto(j, "done")
    /\ UNCHANGED <<direct, calls>>

\* Mutant: each key's answer ends the call.
rb_complete_each(j) ==
    /\ j.pc = "good" /\ j.op = "block"
    /\ call' = [call EXCEPT ![j.by].m_count = @ - 1]
    /\ Goto(j, "done")
    /\ UNCHANGED <<direct, calls>>

\* BSRefreshBlocksCompletion::rb_complete: the last to count down calls done(), after it
\* has released the lock.
rb_complete(j) ==
    /\ j.pc = "good" /\ j.op = "block"
    /\ call' = [call EXCEPT ![j.by].m_count = @ - 1]
    /\ IF call[j.by].m_count = 1 THEN Goto(j, "done") ELSE jobs' = jobs \ {j}
    /\ UNCHANGED <<direct, calls>>

\* Mutant: nobody is told.
done_silent(j) ==
    /\ j.pc = "done" \/ (j.pc = "good" /\ j.op # "block")
    /\ call' = [call EXCEPT ![j.by].m_complete = TRUE]
    /\ jobs' = jobs \ {j}
    /\ UNCHANGED <<direct, calls>>

\* BlockingCompletion::done, which is all that the completion of other calls does.
done(j) ==
    /\ j.pc = "done" \/ (j.pc = "good" /\ j.op # "block")
    /\ call' = [call EXCEPT ![j.by].m_complete = TRUE,
                            ![j.by].pc = IF @ = "asleep" THEN "wait" ELSE @]
    /\ jobs' = jobs \ {j}
    /\ UNCHANGED <<direct, calls>>

BlockingInit ==
    /\ direct \in BOOLEAN
    /\ call = [c \in Callers |-> Idle] /\ jobs = {} /\ calls = 0
=============================================================================
