----------------------------- MODULE VBlockStore -----------------------------
(***************************************************************************)
(* The virtual block store that replicates every block over several        *)
(* children: modules/VBlockStore/VBlockStore.cpp, VBSChild.cpp and the     *)
(* VBS*Request.cpp.                                                        *)
(*                                                                         *)
(* A client's call becomes a request, is inserted in m_requests and is     *)
(* enqueued with each child.  A child's loop, initiate_requests, hands its *)
(* requests to the store behind it, which answers them with the request's  *)
(* completion routine.  The routine settles under m_vbsreqmutex what is to *)
(* be done and does it after the unlock; a thread is modelled by the list  *)
(* of the things it still has to do, one per step.                         *)
(*                                                                         *)
(* A file or database child answers inside the loop that asked it; an S3   *)
(* child answers gets and puts from a thread of its own, through a plain   *)
(* reference to the request, and then calls uh_unsaturated.                *)
(*                                                                         *)
(* One thread at a time runs a child's loop here (VBSChild has several),   *)
(* cancel_get looks at all children in one step, and the exception of      *)
(* bg_complete for a block larger than the buffer is left out.             *)
(***************************************************************************)
EXTENDS Integers, Sequences, FiniteSets

CONSTANTS
    NChildren,      \* the children are numbered in the order of their names
    Keys,           \* block keys
    Async,          \* the children that answer gets and puts asynchronously
    Loads,          \* what the clients do and the stores are like: kinds, ops, reqs, holders, faulty
    Syncers,        \* the threads that call bs_sync
    MaxReqs         \* bound on the requests

Children == 1..NChildren
Ids == 1..MaxReqs
RefreshKinds == {"start", "block", "finish"}
AllKinds == {"get", "put", "head", "follow"} \cup RefreshKinds
KeyKinds == {"get", "put", "block"}

ASSUME VBlockStoreAssumption ==
    /\ NChildren \in Nat \ {0} /\ MaxReqs \in Nat \ {0}
    /\ Keys # {} /\ Async \subseteq Children
    /\ \A l \in Loads : /\ l.kinds \subseteq AllKinds /\ l.ops \in Nat /\ l.reqs \in Ids
                       /\ l.holders \subseteq SUBSET Children /\ l.faulty \subseteq Children

\* Where an operation may let an exception out, and where a refresh is started, no child
\* fails: an exception leaves the loop without an answer, and a start that one child
\* has done and the last refuses is answered by neither routine.
NoThrow == \A l \in Loads : l.kinds \cap {"block", "head"} # {} => l.faulty = {}
SteadyStart == \A l \in Loads : "start" \in l.kinds => l.faulty = {}

VARIABLES
    load,           \* which of Loads this behaviour is about
    reqs,           \* the requests, by address
    m_requests,     \* VBSRequestSet: the requests that are not done
    queue,          \* queue[c]: m_refreqs, m_shereqs, m_getreqs, m_putreqs of c
    m_neededkeys,   \* per child: keys it was found to lack
    m_notified,     \* per child: initiate_requests has been asked for
    loop,           \* per child: that notification is pending, or the loop runs
    flight,         \* <<request, child>> the child's store is working on
    threads,        \* the threads in a call, and what each still has to do
    has,            \* per child: the keys its store holds
    cycle,          \* per child: its store has the refresh id
    begun,          \* the client was told that its refresh cycle has started
    m_waiting,      \* a thread waits on m_vbscond
    sync,           \* what the threads in bs_sync are doing
    ops             \* the number of calls made

\* A load: the operations that clients call and bounds on the calls and on the requests
\* alive at a time, the sets of children that may hold a key at the start, the children
\* whose operations may fail.
Kinds == load.kinds
MaxOps == load.ops
Holders == load.holders
Faulty == load.faulty

stores == <<has, cycle>>
kids == <<queue, m_neededkeys, m_notified, loop>>
waiters == <<m_waiting, sync>>
vars == <<reqs, m_requests, queue, m_neededkeys, m_notified, loop, flight, threads,
          has, cycle, begun, m_waiting, sync, ops>>

Classes == {"ref", "she", "get", "put"}
Class(kind) ==
    IF kind \in RefreshKinds THEN "ref"
    ELSE IF kind \in {"head", "follow"} THEN "she" ELSE kind

\* m_cmpl is NULL in the requests the store makes for itself.  upcalls is
\* history: the answers m_cmpl got.
Request == [kind : AllKinds \cup {"none"}, key : Keys,
            m_outstanding : Int, m_succeeded : BOOLEAN,
            m_cmpl : BOOLEAN, m_needy : SUBSET Children,
            upcalls : Seq({"good", "bad"})]

Answers == {"good", "notfound", "missing", "failed", "canceled"}
Ops == Answers \cup {"send", "upgood", "upbad", "cancel", "fill", "need", "done", "unsat"}
Item == [op : Ops, req : Ids, cp : Children]
Thread == [by : {"client", "loop", "store"}, cp : 0..NChildren, req : Ids, todo : Seq(Item)]

TypeOK ==
    /\ load \in Loads
    /\ reqs \in [Ids -> Request]
    /\ m_requests \subseteq Ids
    /\ queue \in [Children -> [Classes -> Seq(Ids)]]
    /\ m_neededkeys \in [Children -> Seq(Keys)]
    /\ m_notified \in [Children -> BOOLEAN] /\ loop \in [Children -> BOOLEAN]
    /\ flight \subseteq Ids \X Children
    /\ \A t \in threads : t \in Thread /\ t.todo # <<>>
    /\ has \in [Children -> SUBSET Keys] /\ cycle \in [Children -> BOOLEAN]
    /\ begun \in BOOLEAN /\ m_waiting \in BOOLEAN
    /\ sync \in [Syncers -> [phase : {"idle", "kids", "wait", "woken"},
                             kid : 1..(NChildren + 1)]]
    /\ ops \in 0..MaxOps

-----------------------------------------------------------------------------
(* Requests and threads *)

Elements(s) == {s[i] : i \in 1..Len(s)}
QueuedAt(r, c) == \E cl \in Classes : r \in Elements(queue[c][cl])
Mentioned(t, r) == \E i \in 1..Len(t.todo) : t.todo[i].req = r

\* Nothing refers to the request at r any more.
Unused(r) ==
    /\ r \notin m_requests
    /\ \A c \in Children : <<r, c>> \notin flight /\ ~QueuedAt(r, c)
    /\ \A t \in threads : ~Mentioned(t, r)

Free == {r \in 1..load.reqs : Unused(r)}
NewId == CHOOSE r \in Free : TRUE

NewRequest(kind, k, n, cmpl, needy) ==
    [kind |-> kind, key |-> k, m_outstanding |-> n, m_succeeded |-> FALSE,
     m_cmpl |-> cmpl, m_needy |-> needy, upcalls |-> <<>>]

\* Items of one kind for the children in S, in the order of m_children.
ForEach(S, F(_)) ==
    [i \in 1..Cardinality(S) |->
        F(CHOOSE c \in S : Cardinality({d \in S : d < c}) = i - 1)]

Do(op, r, c) == [op |-> op, req |-> r, cp |-> c]
When(cond, item) == IF cond THEN <<item>> ELSE <<>>

Sends(r, S) == ForEach(S, LAMBDA c : Do("send", r, c))

\* Thread t goes on with todo; it is gone when there is nothing left.
Continue(t, todo) ==
    threads' = (threads \ {t}) \cup (IF todo = <<>> THEN {} ELSE {[t EXCEPT !.todo = todo]})

-----------------------------------------------------------------------------
(* The clients *)

Unanswered(r) == ~Unused(r) /\ reqs[r].m_cmpl /\ reqs[r].upcalls = <<>>

\* UTFileSystem::fs_refresh calls start, refreshes blocks and calls finish, each
\* when the one before has returned.
ClientMayCall(kind) ==
    kind \in RefreshKinds =>
        /\ \A r \in Ids : Unanswered(r) => reqs[r].kind \notin RefreshKinds
        /\ \A t \in threads : t.by = "client" => reqs[t.req].kind \notin RefreshKinds
        /\ \/ kind = "start" /\ ~begun
           \/ kind \in {"block", "finish"} /\ begun

\* A call: the request is inserted first, "in case the request completes
\* synchronously", then enqueued with all of the kids.
Submit(kind, k) ==
    /\ kind \in Kinds /\ ops < MaxOps /\ Free # {} /\ ClientMayCall(kind)
    /\ ops' = ops + 1
    /\ reqs' = [reqs EXCEPT ![NewId] = NewRequest(kind, k, NChildren, TRUE, {})]
    /\ m_requests' = m_requests \cup {NewId}
    /\ threads' = threads \cup {[by |-> "client", cp |-> 0, req |-> NewId,
                                 todo |-> Sends(NewId, Children)]}
    /\ begun' = (begun /\ kind # "finish")
    /\ UNCHANGED <<kids, flight, stores, waiters>>

AnyKey == CHOOSE k \in Keys : TRUE

bs_block_get_async(k) == Submit("get", k)
bs_block_put_async(k) == Submit("put", k)
bs_refresh_start_async == Submit("start", AnyKey)
bs_refresh_block_async(k) == Submit("block", k)
bs_refresh_finish_async == Submit("finish", AnyKey)
bs_head_insert_async == Submit("head", AnyKey)
bs_head_follow_async == Submit("follow", AnyKey)

Call ==
    \/ \E k \in Keys : bs_block_get_async(k) \/ bs_block_put_async(k) \/ bs_refresh_block_async(k)
    \/ bs_refresh_start_async \/ bs_refresh_finish_async
    \/ bs_head_insert_async \/ bs_head_follow_async

-----------------------------------------------------------------------------
(* VBSChild *)

\* enqueue_get, enqueue_put, enqueue_refresh, enqueue_headnode
Enqueue(t) ==
    LET i == Head(t.todo)
        cl == Class(reqs[i.req].kind)
    IN  /\ i.op = "send"
        /\ queue' = [queue EXCEPT ![i.cp][cl] = Append(@, i.req)]
        /\ m_notified' = [m_notified EXCEPT ![i.cp] = TRUE]
        /\ loop' = [loop EXCEPT ![i.cp] = @ \/ ~m_notified[i.cp]]
        /\ Continue(t, Tail(t.todo))
        /\ UNCHANGED <<reqs, m_requests, m_neededkeys, flight, stores, begun, waiters, ops>>

\* The operations the child answers before initiate returns.
InLoop(c, r) == c \notin Async \/ reqs[r].kind \notin {"get", "put"}

Busy(c) == \/ \E r \in Ids : <<r, c>> \in flight /\ InLoop(c, r)
           \/ \E t \in threads : t.by = "loop" /\ t.cp = c

\* The loop is between two rounds.
AtTop(c) == loop[c] /\ ~Busy(c)

\* "handles requests in the following order"
Priority == <<"ref", "she", "get", "put">>
Pending(c) == {i \in 1..4 : queue[c][Priority[i]] # <<>>}

initiate_requests(c) ==
    /\ AtTop(c)
    /\ \E i \in Pending(c) :
         LET cl == Priority[i] IN
         /\ \A j \in Pending(c) : i <= j
         /\ flight' = flight \cup {<<Head(queue[c][cl]), c>>}
         /\ queue' = [queue EXCEPT ![c][cl] = Tail(@)]
    /\ UNCHANGED <<reqs, m_requests, m_neededkeys, m_notified, loop, threads, stores,
                   begun, waiters, ops>>

\* A key the child lacks is asked of the others (enqueue_needy_get), as one
\* answer's worth of request; without others the key is dropped.
initiate_needed(c) ==
    LET others == Children \ {c}
        k == Head(m_neededkeys[c])
    IN  /\ AtTop(c) /\ Pending(c) = {} /\ m_neededkeys[c] # <<>>
        /\ m_neededkeys' = [m_neededkeys EXCEPT ![c] = Tail(@)]
        /\ IF others = {}
           THEN UNCHANGED <<reqs, m_requests, threads>>
           ELSE /\ Free # {}
                /\ reqs' = [reqs EXCEPT ![NewId] = NewRequest("get", k, 1, FALSE, {c})]
                /\ m_requests' = m_requests \cup {NewId}
                /\ threads' = threads \cup {[by |-> "loop", cp |-> c, req |-> NewId,
                                             todo |-> Sends(NewId, others)]}
        /\ UNCHANGED <<queue, m_notified, loop, flight, stores, begun, waiters, ops>>

initiate_end(c) ==
    /\ AtTop(c) /\ Pending(c) = {} /\ m_neededkeys[c] = <<>>
    /\ m_notified' = [m_notified EXCEPT ![c] = FALSE]
    /\ loop' = [loop EXCEPT ![c] = FALSE]
    /\ UNCHANGED <<reqs, m_requests, queue, m_neededkeys, flight, threads, stores,
                   begun, waiters, ops>>

\* uh_unsaturated runs the loop without having been notified.
uh_unsaturated(t) ==
    /\ Head(t.todo).op = "unsat"
    /\ loop' = [loop EXCEPT ![t.cp] = TRUE]
    /\ Continue(t, Tail(t.todo))
    /\ UNCHANGED <<reqs, m_requests, queue, m_neededkeys, m_notified, flight, stores,
                   begun, waiters, ops>>

-----------------------------------------------------------------------------
(* The store behind child c works on request r *)

Outcome(answer, h, cy) == [answer |-> answer, has |-> h, cycle |-> cy]

\* What it may answer, and what it holds then.  "throws": bs_refresh_block_async
\* and bs_head_insert_async let their exceptions out.
Outcomes(c, r) ==
    LET q == reqs[r]
        Same(answer) == Outcome(answer, has[c], cycle[c])
        ok == CASE q.kind = "get" -> {Same(IF q.key \in has[c] THEN "good" ELSE "notfound")}
                [] q.kind = "put" -> {Outcome("good", has[c] \cup {q.key}, cycle[c])}
                [] q.kind = "start" -> {IF cycle[c] THEN Same("failed")
                                        ELSE Outcome("good", has[c], TRUE)}
                [] q.kind = "block" -> {Same(IF ~cycle[c] THEN "throws"
                                             ELSE IF q.key \in has[c] THEN "good" ELSE "missing")}
                [] q.kind = "finish" -> {IF cycle[c] THEN Outcome("good", has[c], FALSE)
                                         ELSE Same("failed")}
                [] q.kind = "head" -> {Same("good")}
                [] OTHER -> {Same("good"), Same("notfound")}
        fault == Same(IF q.kind \in {"block", "head"} THEN "throws" ELSE "failed")
    IN  IF c \in Faulty THEN ok \cup {fault} ELSE ok

Perform(c, r) ==
    /\ <<r, c>> \in flight
    /\ flight' = flight \ {<<r, c>>}
    /\ \E o \in Outcomes(c, r) :
         /\ has' = [has EXCEPT ![c] = o.has]
         /\ cycle' = [cycle EXCEPT ![c] = o.cycle]
         /\ IF o.answer = "throws"
            THEN /\ loop' = [loop EXCEPT ![c] = FALSE]  \* out of the loop, still notified
                 /\ UNCHANGED threads
            ELSE /\ threads' = threads \cup
                       {[by |-> IF InLoop(c, r) THEN "loop" ELSE "store", cp |-> c, req |-> r,
                         todo |-> <<Do(o.answer, r, c)>>
                                  \o When(~InLoop(c, r), Do("unsat", r, c))]}
                 /\ UNCHANGED loop
    /\ UNCHANGED <<reqs, m_requests, queue, m_neededkeys, m_notified, begun, waiters, ops>>

-----------------------------------------------------------------------------
(* The completion routines: what they settle with m_vbsreqmutex held *)

FirstBack(q) == ~q.m_succeeded
LastBack(q) == q.m_outstanding = 1

\* "If we are the first child back with success we get to tell the parent"
FirstTells(i) == When(reqs[i.req].m_cmpl /\ FirstBack(reqs[i.req]), Do("upgood", i.req, i.cp))

\* "Don't call the completion until the last guy is in"
LastTells(i) == When(reqs[i.req].m_cmpl /\ LastBack(reqs[i.req]), Do("upgood", i.req, i.cp))

\* "If we are the last child back with an exception we get to tell the parent"
LastTellsError(i) ==
    When(reqs[i.req].m_cmpl /\ LastBack(reqs[i.req]) /\ ~reqs[i.req].m_succeeded,
         Do("upbad", i.req, i.cp))

LastIsDone(i) == When(LastBack(reqs[i.req]), Do("done", i.req, i.cp))

bg_complete(i) ==
    LET q == reqs[i.req]
    IN  FirstTells(i) \o When(q.m_cmpl /\ FirstBack(q), Do("cancel", i.req, i.cp))
                      \o When(q.m_needy # {} /\ FirstBack(q), Do("fill", i.req, i.cp))
                      \o LastIsDone(i)

bp_complete(i) == FirstTells(i) \o LastIsDone(i)

\* Mutant: refresh start is answered by the first child that has seen it.
rs_complete_first(i) == FirstTells(i) \o LastIsDone(i)

rs_complete(i) == LastTells(i) \o LastIsDone(i)
rb_complete(i) == FirstTells(i) \o LastIsDone(i)
rf_complete(i) == FirstTells(i) \o LastIsDone(i)
hei_complete(i) == FirstTells(i) \o LastIsDone(i)
het_complete(i) == LastTells(i) \o LastIsDone(i)

\* A child that does not have the block is to be given it.
bg_error(i) ==
    LastTellsError(i) \o When(i.op = "notfound", Do("need", i.req, i.cp)) \o LastIsDone(i)

bp_error(i) == LastTellsError(i) \o LastIsDone(i)
rs_error(i) == LastTellsError(i) \o LastIsDone(i)
rb_missing(i) == LastTellsError(i) \o <<Do("need", i.req, i.cp)>> \o LastIsDone(i)
rf_error(i) == LastTellsError(i) \o LastIsDone(i)
hei_error(i) == LastTellsError(i) \o LastIsDone(i)

\* The last child back gives the good answer if any other one succeeded.
het_error(i) ==
    LastTellsError(i) \o (IF reqs[i.req].m_succeeded THEN LastTells(i) ELSE <<>>) \o LastIsDone(i)

AfterGood(i) ==
    LET kind == reqs[i.req].kind
    IN  CASE kind = "get" -> bg_complete(i) [] kind = "put" -> bp_complete(i)
          [] kind = "start" -> rs_complete(i) [] kind = "block" -> rb_complete(i)
          [] kind = "finish" -> rf_complete(i) [] kind = "head" -> hei_complete(i)
          [] OTHER -> het_complete(i)

AfterError(i) ==
    LET kind == reqs[i.req].kind
    IN  CASE kind = "get" -> bg_error(i) [] kind = "put" -> bp_error(i)
          [] kind = "start" -> rs_error(i) [] kind = "block" -> rb_missing(i)
          [] kind = "finish" -> rf_error(i) [] kind = "head" -> hei_error(i)
          [] OTHER -> het_error(i)

\* Mutant: every child that succeeds tells the client.
CompleteEach(t) ==
    LET i == Head(t.todo)
        last == reqs[i.req].m_outstanding = 1
    IN  /\ i.op = "good"
        /\ reqs' = [reqs EXCEPT ![i.req].m_succeeded = TRUE,
                                ![i.req].m_outstanding = @ - 1]
        /\ Continue(t, When(reqs[i.req].m_cmpl, Do("upgood", i.req, i.cp))
                       \o When(last, Do("done", i.req, i.cp))
                       \o Tail(t.todo))
        /\ UNCHANGED <<m_requests, kids, flight, stores, begun, waiters, ops>>

\* Mutant: the request is done with the first child that succeeds.
CompleteDoneFirst(t) ==
    LET i == Head(t.todo)
        first == ~reqs[i.req].m_succeeded
    IN  /\ i.op = "good"
        /\ reqs' = [reqs EXCEPT ![i.req].m_succeeded = TRUE,
                                ![i.req].m_outstanding = @ - 1]
        /\ Continue(t, When(reqs[i.req].m_cmpl /\ first, Do("upgood", i.req, i.cp))
                       \o When(first, Do("done", i.req, i.cp))
                       \o Tail(t.todo))
        /\ UNCHANGED <<m_requests, kids, flight, stores, begun, waiters, ops>>

\* A child has done what was asked of it.
Complete(t) ==
    LET i == Head(t.todo)
    IN  /\ i.op = "good"
        /\ reqs' = [reqs EXCEPT ![i.req].m_succeeded = TRUE,
                                ![i.req].m_outstanding = @ - 1]
        /\ Continue(t, AfterGood(i) \o Tail(t.todo))
        /\ UNCHANGED <<m_requests, kids, flight, stores, begun, waiters, ops>>

\* Mutant: an error is not counted as an answer.
FailUncounted(t) ==
    LET i == Head(t.todo)
    IN  /\ i.op \in Answers \ {"good"}
        /\ Continue(t, Tail(t.todo))
        /\ UNCHANGED <<reqs, m_requests, kids, flight, stores, begun, waiters, ops>>

\* A child has not done it, or its get was canceled.
Fail(t) ==
    LET i == Head(t.todo)
    IN  /\ i.op \in Answers \ {"good"}
        /\ reqs' = [reqs EXCEPT ![i.req].m_outstanding = @ - 1]
        /\ Continue(t, AfterError(i) \o Tail(t.todo))
        /\ UNCHANGED <<m_requests, kids, flight, stores, begun, waiters, ops>>

-----------------------------------------------------------------------------
(* ... and what they do after the unlock *)

Upcall(t) ==
    LET i == Head(t.todo)
    IN  /\ i.op \in {"upgood", "upbad"}
        /\ reqs' = [reqs EXCEPT ![i.req].upcalls =
                        Append(@, IF i.op = "upgood" THEN "good" ELSE "bad")]
        /\ begun' = (begun \/ (reqs[i.req].kind = "start" /\ i.op = "upgood"))
        /\ Continue(t, Tail(t.todo))
        /\ UNCHANGED <<m_requests, kids, flight, stores, waiters, ops>>

\* The first get of key k in the queue of c.
Matches(c, k) == {n \in 1..Len(queue[c]["get"]) : reqs[queue[c]["get"][n]].key = k}
FirstMatch(c, k) == CHOOSE n \in Matches(c, k) : \A m \in Matches(c, k) : n <= m
Without(s, n) == [j \in 1..(Len(s) - 1) |-> IF j < n THEN s[j] ELSE s[j + 1]]

\* Mutant: the canceled gets stay in their queues.
cancel_get_keeps(t) ==
    LET i == Head(t.todo)
        k == reqs[i.req].key
        hit == {c \in Children \ {i.cp} : Matches(c, k) # {}}
    IN  /\ i.op = "cancel"
        /\ Continue(t, ForEach(hit, LAMBDA c : Do("canceled", queue[c]["get"][FirstMatch(c, k)], c))
                       \o Tail(t.todo))
        /\ UNCHANGED <<reqs, m_requests, kids, flight, stores, begun, waiters, ops>>

\* "Cancel the get across all the kids.  Skip the kid that had it", then call
\* bg_error on each get that was found.
cancel_get(t) ==
    LET i == Head(t.todo)
        k == reqs[i.req].key
        hit == {c \in Children \ {i.cp} : Matches(c, k) # {}}
    IN  /\ i.op = "cancel"
        /\ queue' = [c \in Children |->
                        IF c \in hit
                        THEN [queue[c] EXCEPT !["get"] = Without(@, FirstMatch(c, k))]
                        ELSE queue[c]]
        /\ Continue(t, ForEach(hit, LAMBDA c : Do("canceled", queue[c]["get"][FirstMatch(c, k)], c))
                       \o Tail(t.todo))
        /\ UNCHANGED <<reqs, m_requests, m_neededkeys, m_notified, loop, flight, stores,
                       begun, waiters, ops>>

\* Mutant: the block that was found is not passed on.
FillNobody(t) ==
    /\ Head(t.todo).op = "fill"
    /\ Continue(t, Tail(t.todo))
    /\ UNCHANGED <<reqs, m_requests, kids, flight, stores, begun, waiters, ops>>

\* "If there were any needy children, setup a put request for them."
Fill(t) ==
    LET i == Head(t.todo)
        q == reqs[i.req]
    IN  /\ i.op = "fill" /\ Free # {}
        /\ reqs' = [reqs EXCEPT ![NewId] =
                        NewRequest("put", q.key, Cardinality(q.m_needy), FALSE, {})]
        /\ m_requests' = m_requests \cup {NewId}
        /\ Continue(t, Sends(NewId, q.m_needy) \o Tail(t.todo))
        /\ UNCHANGED <<kids, flight, stores, begun, waiters, ops>>

needed_keys_append(t) ==
    LET i == Head(t.todo)
    IN  /\ i.op = "need"
        /\ m_neededkeys' = [m_neededkeys EXCEPT ![i.cp] = Append(@, reqs[i.req].key)]
        /\ Continue(t, Tail(t.todo))
        /\ UNCHANGED <<reqs, m_requests, queue, m_notified, loop, flight, stores, begun,
                       waiters, ops>>

\* Mutant: the waiters are not woken.
done_silent(t) ==
    LET i == Head(t.todo)
    IN  /\ i.op = "done" /\ i.req \in m_requests
        /\ m_requests' = m_requests \ {i.req}
        /\ Continue(t, Tail(t.todo))
        /\ UNCHANGED <<reqs, kids, flight, stores, begun, waiters, ops>>

\* remove_req.  It throws InternalError when the request is not in m_requests.
done(t) ==
    LET i == Head(t.todo)
        wake == m_requests = {i.req} /\ m_waiting
    IN  /\ i.op = "done" /\ i.req \in m_requests
        /\ m_requests' = m_requests \ {i.req}
        /\ m_waiting' = (m_waiting /\ ~wake)
        /\ sync' = [s \in Syncers |-> IF wake /\ sync[s].phase = "wait"
                                      THEN [sync[s] EXCEPT !.phase = "woken"] ELSE sync[s]]
        /\ Continue(t, Tail(t.todo))
        /\ UNCHANGED <<reqs, kids, flight, stores, begun, ops>>

-----------------------------------------------------------------------------
(* bs_sync *)

SyncStart(s) ==
    /\ sync[s].phase = "idle"
    /\ sync' = [sync EXCEPT ![s] = [phase |-> "kids", kid |-> 1]]
    /\ UNCHANGED <<reqs, m_requests, kids, flight, threads, stores, begun, m_waiting, ops>>

\* The bs_sync of an S3 child waits until it has no handler left; that of the
\* others returns at once.
HasHandlers(c) == \/ \E r \in Ids : <<r, c>> \in flight /\ ~InLoop(c, r)
                  \/ \E t \in threads : t.by = "store" /\ t.cp = c /\ Head(t.todo).op # "unsat"

SyncKid(s) ==
    /\ sync[s].phase = "kids" /\ sync[s].kid <= NChildren
    /\ ~HasHandlers(sync[s].kid)
    /\ sync' = [sync EXCEPT ![s].kid = @ + 1]
    /\ UNCHANGED <<reqs, m_requests, kids, flight, threads, stores, begun, m_waiting, ops>>

\* "Make sure we have no requests left": bs_sync returns if there were none when
\* it first looked, and starts again if it had to wait.
SyncCheck(s) ==
    /\ \/ sync[s].phase = "kids" /\ sync[s].kid = NChildren + 1
       \/ sync[s].phase = "woken"
    /\ sync' = [sync EXCEPT ![s] =
                  [phase |-> IF m_requests # {} THEN "wait"
                             ELSE IF sync[s].phase = "woken" THEN "kids" ELSE "idle",
                   kid |-> 1]]
    /\ m_waiting' = (m_waiting \/ m_requests # {})
    /\ UNCHANGED <<reqs, m_requests, kids, flight, threads, stores, begun, ops>>

-----------------------------------------------------------------------------
NoRequest == NewRequest("none", AnyKey, 0, FALSE, {})

Init ==
    /\ load \in Loads
    /\ reqs = [r \in Ids |-> NoRequest]
    /\ m_requests = {} /\ flight = {} /\ threads = {}
    /\ queue = [c \in Children |-> [cl \in Classes |-> <<>>]]
    /\ m_neededkeys = [c \in Children |-> <<>>]
    /\ m_notified = [c \in Children |-> FALSE] /\ loop = [c \in Children |-> FALSE]
    /\ \E held \in [Keys -> Holders] : has = [c \in Children |-> {k \in Keys : c \in held[k]}]
    /\ cycle = [c \in Children |-> FALSE]
    /\ begun = FALSE /\ m_waiting = FALSE /\ ops = 0
    /\ sync = [s \in Syncers |-> [phase |-> "idle", kid |-> 1]]

Initiate(c) == initiate_requests(c) \/ initiate_needed(c) \/ initiate_end(c)

Run(t) ==
    \/ Enqueue(t) \/ Complete(t) \/ Fail(t) \/ Upcall(t) \/ cancel_get(t) \/ Fill(t)
    \/ needed_keys_append(t) \/ done(t) \/ uh_unsaturated(t)

Sync(s) == SyncKid(s) \/ SyncCheck(s)

Next ==
    \/ Call
    \/ \E t \in threads : Run(t)
    \/ \E c \in Children : Initiate(c)
    \/ \E r \in Ids, c \in Children : Perform(c, r)
    \/ \E s \in Syncers : SyncStart(s) \/ Sync(s)

Spec == Init /\ [][Next /\ UNCHANGED load]_<<vars, load>>

\* The reactor runs every notified loop, the stores answer, threads that are not
\* waiting go on.
FairSpec ==
    /\ Spec
    /\ \A c \in Children : WF_vars(Initiate(c))
    /\ \A r \in Ids, c \in Children : WF_vars(Perform(c, r))
    /\ \A r \in Ids, c \in 0..NChildren :
           WF_vars(\E t \in threads : t.req = r /\ t.cp = c /\ Run(t))
    /\ \A s \in Syncers : WF_vars(Sync(s))

-----------------------------------------------------------------------------
(* Properties *)

\* A client's completion is called at most once, and at least once before the
\* last reference to its request is gone: no answer is repeated, none is lost.
AnsweredOnce ==
    \A r \in Ids :
        /\ Len(reqs[r].upcalls) <= 1
        /\ Unused(r) /\ reqs[r].m_cmpl => reqs[r].upcalls # <<>>

\* The children r is still to be answered by: it is yet to be enqueued there, or
\* queued, or with the store, or its completion routine is about to be called.
Awaited(r) ==
    {c \in Children :
        \/ QueuedAt(r, c) \/ <<r, c>> \in flight
        \/ \E t \in threads : \E i \in 1..Len(t.todo) :
               t.todo[i].req = r /\ t.todo[i].cp = c /\ t.todo[i].op \in Answers \cup {"send"}}

\* m_outstanding counts the children that have not answered, however answers,
\* cancellations and enqueueing interleave.  (Not so for the get on behalf of a
\* needy child, which is made with 1 whatever the number of the others.)
OutstandingExact ==
    \A r \in Ids : reqs[r].m_needy = {} => reqs[r].m_outstanding = Cardinality(Awaited(r))

DonePending(r) ==
    \E t \in threads : \E i \in 1..Len(t.todo) : t.todo[i].req = r /\ t.todo[i].op = "done"

\* m_requests holds exactly the requests with answers outstanding or with done()
\* about to be called: remove_req always removes one, and none stays behind.
TrackedUntilDone ==
    \A r \in Ids : r \in m_requests <=> reqs[r].m_outstanding > 0 \/ DonePending(r)

\* A child found to lack a block that another one holds is given it.
NeedFilled ==
    \A c \in Children, k \in Keys : k \in Elements(m_neededkeys[c]) ~> k \in has[c]

\* Every call of a client is answered.
AllAnswered == \A r \in Ids : Unanswered(r) ~> ~Unanswered(r)

\* bs_sync returns once the clients have stopped calling.
SyncEnds == \A s \in Syncers : sync[s].phase # "idle" ~> sync[s].phase = "idle"

\* "we need to be sure that *all* blockstores have seen the START before we start
\* sending refresh requests on the RID."
StartMeansAll == begun => \A c \in Children : cycle[c]
=============================================================================
