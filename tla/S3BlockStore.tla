----------------------------- MODULE S3BlockStore -----------------------------
(***************************************************************************)
(* The block store that keeps its blocks as objects of an Amazon S3        *)
(* bucket: modules/S3BlockStore/.                                          *)
(*                                                                         *)
(* The bucket holds the blocks, the SIZE object and MDNDX, an index of the *)
(* entries as they were when a refresh cycle last finished; a copy of the  *)
(* index lies in a local file.  In memory the store keeps the entries, the *)
(* list of them from the most to the least recently touched, and the bytes *)
(* on either side of the MARK.  Unlike FSBlockStore it does not hold its   *)
(* mutex throughout an operation: a put is four critical sections, it lets *)
(* go of the mutex in the middle of a purge, and its block is uploaded by  *)
(* a handler that the reactor runs later and that retries.                 *)
(*                                                                         *)
(* An action is one critical section, one answer of S3, or one round of a  *)
(* loop of blocking requests.  A call that answers without changing        *)
(* anything (a put of a block that is in m_entries, a get or a refresh of  *)
(* one that is not) is no action.                                          *)
(*                                                                         *)
(* Left out: a second bs_refresh_finish while one is under way, which      *)
(* would find its refresh id gone and throw with the MARK removed; and the *)
(* InternalError of reqctxt_reregister when libs3 has no descriptors,      *)
(* which answers a request whose handler is already in m_rsphandlers.      *)
(***************************************************************************)
EXTENDS Integers, Sequences, FiniteSets, FiniteSetsExt, SequencesExt

CONSTANTS
    Keys,       \* block names, numbers in the order of their strings
    Rids,       \* names of refresh cycles, likewise
    MARK,       \* the name of the mark, after all others in that order
    Callers,    \* threads that put and get blocks
    BlockSize,  \* the size of a block
    Capacity,   \* the size the store was created with
    SizeMod,    \* the index keeps sizes modulo this: 2^32 in the code
    MaxRetries, \* MAX_RETRIES
    MaxOut,     \* deletions a BucketDestroyer has under way: 128 in the code
    MaxTime,    \* bound on the clock
    MaxFaults,  \* bound on the failures of S3: of a request, or of all in a loop
    MaxCrashes, \* bound on the deaths of the process
    MaxOps      \* bound on the calls clients make, other than bs_sync and refresh_block

Names == Keys \cup Rids \cup {MARK}

ASSUME S3BlockStoreAssumption ==
    /\ Names \subseteq Nat \ {0} /\ IsFiniteSet(Names)
    /\ Keys \cap Rids = {} /\ \A n \in Keys \cup Rids : n < MARK
    /\ {BlockSize, MaxRetries, MaxOut, MaxTime} \subseteq Nat \ {0}
    /\ {Capacity, MaxFaults, MaxCrashes, MaxOps} \subseteq Nat
    /\ SizeMod \in Nat /\ SizeMod > Capacity

VARIABLES
    bucket,     \* "none", "nosize" (without its SIZE object) or "ok"
    blocks,     \* the keys of the block objects
    mdndx,      \* the MDNDX object
    local,      \* the local file with the index
    now,        \* time(NULL), in seconds
    phase,      \* "down", "open", "ub" or "destroy"
    m_entries,  \* EntrySet: name -> [t |-> m_tstamp, s |-> m_size]
    m_lru,      \* EntryList: names, front = most recent
    m_mark,     \* the time stamp of the entry m_mark points to, 0 = null
    m_committed, m_uncommitted,
    call,       \* the callers and, once they have returned, their handlers
    sync,       \* bs_sync: "no", "asleep" or "woken"
    fin,        \* bs_refresh_finish: "no", "index" or "put"
    kill,       \* BucketDestroyer: queued objects, and retries left of those under way
    vow,        \* history, which no crash forgets: see NoVow
    faults, crashes, ops    \* the bounds used up

stored == <<bucket, blocks, mdndx, local>>
memory == <<m_entries, m_lru, m_mark, m_committed, m_uncommitted>>
world == <<now, faults, crashes, ops>>
vars == <<stored, memory, world, phase, call, sync, fin, kill, vow>>

Drop(f, n) == [m \in DOMAIN f \ {n} |-> f[m]]
Op == ops < MaxOps /\ ops' = ops + 1
Fault == faults < MaxFaults /\ faults' = faults + 1

\* What the store was told to keep.
\*   touched  when blocks were last uploaded or refreshed by a process that is up, and
\*            when the cycles and the last finished cycle (MARK) started;
\*   sworn    the same as the last finished cycle left it: what outlives a process;
\*   stored   MDNDX was uploaded by the last finished cycle;
\*   lapse    a time stamp was lost: the store was opened from an MDNDX older than the
\*            last finished cycle, or a put set a block back to a time before its refresh.
Never == [n \in Names |-> 0]
NoVow == [touched |-> Never, sworn |-> Never, stored |-> TRUE, lapse |-> FALSE]

NoIndex == [st |-> "none", e |-> <<>>]
Idle == [op |-> "none", pc |-> "idle", key |-> 0, vic |-> 0, size |-> 0, left |-> 0, t |-> 0]
NoKill == [queue |-> {}, out |-> <<>>]

\* Requests in m_rsphandlers.
Handlers == {c \in Callers : call[c].pc \in {"sent", "ok", "stamp", "retry", "fail", "stat"}}

-----------------------------------------------------------------------------
(* Entries and counts *)

Sizes(e, S) == MapThenSumSet(LAMBDA n : e[n].s, S)
MarkAt(s) == IF \E i \in 1..Len(s) : s[i] = MARK THEN CHOOSE i \in 1..Len(s) : s[i] = MARK
             ELSE Len(s) + 1

\* The loop that adds up all the committed memory, in bs_open and bs_refresh_finish.
Recount(e, s) ==
    /\ m_committed' = Sizes(e, {s[i] : i \in 1..(MarkAt(s) - 1)})
    /\ m_uncommitted' = Sizes(e, {s[i] : i \in (MarkAt(s) + 1)..Len(s)})
    /\ m_mark' = IF MARK \in ToSet(s) THEN e[MARK].t ELSE m_mark

\* m_listpos of an entry that was popped from the list and left in m_entries.
\* Erasing through it is undefined behaviour; the process is taken to stop there.
Dangling(n) == n \in DOMAIN m_entries /\ n \notin ToSet(m_lru)


\* The entry gets the time t and goes to the front; a size of 0 keeps the old one.
touch_entry(n, t, size) ==
    IF Dangling(n) THEN phase' = "ub" /\ UNCHANGED <<m_entries, m_lru>>
    ELSE LET s == IF size = 0 THEN m_entries[n].s ELSE size
         IN  /\ m_entries' = (n :> [t |-> t, s |-> s]) @@ m_entries
             /\ m_lru' = <<n>> \o Remove(m_lru, n)
             /\ UNCHANGED phase

-----------------------------------------------------------------------------
(* bs_block_put_async *)

To(c, pc) == call' = [call EXCEPT ![c].pc = pc]
Answered(c) == call' = [call EXCEPT ![c] = Idle]

\* The completion was called; the handler is still in m_rsphandlers.
Completed(c) == call' = [call EXCEPT ![c] = [Idle EXCEPT !.pc = "stat"]]

\* "Do we already have this block?"
PutStart(c, k) ==
    /\ Op
    /\ phase = "open" /\ call[c] = Idle /\ k \notin DOMAIN m_entries
    /\ call' = [call EXCEPT ![c] = [Idle EXCEPT !.op = "put", !.pc = "avail", !.key = k]]
    /\ UNCHANGED <<stored, memory, now, faults, crashes, phase, sync, fin, kill, vow>>

\* "How much space will be available for this block?"  NoSpaceError if too little.
PutAvail(c) ==
    /\ phase = "open" /\ call[c].pc = "avail"
    /\ IF BlockSize <= Capacity - m_committed THEN To(c, "room") ELSE Answered(c)
    /\ UNCHANGED <<stored, memory, world, phase, sync, fin, kill, vow>>

\* "Do we need to remove uncommitted blocks to make room for this block?"
MustPurge(u) == m_committed + BlockSize + u > Capacity

\* The three tests of purge_uncommitted.
MayPurge == m_lru # <<>> /\ m_mark # 0 /\ m_entries[Last(m_lru)].t <= m_mark

\* The loop around purge_uncommitted up to the next place where the mutex is
\* released, with u the uncommitted bytes: the put goes on, throws, or pops the
\* oldest entry and asks S3 to delete its object.
PurgeLoop(c, u) ==
    /\ m_uncommitted' = u
    /\ \/ /\ ~MustPurge(u) /\ UNCHANGED m_lru
          /\ call' = [call EXCEPT ![c] = [@ EXCEPT !.pc = "push", !.vic = 0, !.size = 0]]
       \/ MustPurge(u) /\ ~MayPurge /\ Answered(c) /\ UNCHANGED m_lru
       \/ /\ MustPurge(u) /\ MayPurge
          /\ m_lru' = Front(m_lru)
          /\ call' = [call EXCEPT ![c] = [@ EXCEPT !.pc = "delete", !.vic = Last(m_lru),
                                                   !.size = m_entries[Last(m_lru)].s]]
    /\ UNCHANGED <<stored, world, phase, m_entries, m_mark, m_committed, sync, fin, kill, vow>>

PutRoom(c) == phase = "open" /\ call[c].pc = "room" /\ PurgeLoop(c, m_uncommitted)

\* S3 deletes the object (the MARK and refresh ids have none)...
S3Delete(c) ==
    /\ phase = "open" /\ call[c].pc = "delete"
    /\ blocks' = blocks \ {call[c].vic}
    /\ To(c, "deleted")
    /\ UNCHANGED <<bucket, mdndx, local, memory, world, phase, sync, fin, kill, vow>>

\* ... or fails to; the put throws InternalError with the entry off the list and
\* its bytes still counted.
S3DeleteFails(c) ==
    /\ phase = "open" /\ call[c].pc = "delete" /\ Fault
    /\ Answered(c)
    /\ UNCHANGED <<stored, memory, now, crashes, ops, phase, sync, fin, kill, vow>>

\* The mutex is taken again: "Update the accounting", and on with the loop.
PutDeleted(c) ==
    phase = "open" /\ call[c].pc = "deleted" /\ PurgeLoop(c, m_uncommitted - call[c].size)

\* initiate_put_internal, initiate_get_internal: the request is S3's.
initiate_put_internal(c, left) == call' = [call EXCEPT ![c].pc = "sent", ![c].left = left]

initiate_get_internal(c, k) ==
    call' = [call EXCEPT ![c] = [Idle EXCEPT !.op = "get", !.pc = "sent", !.key = k,
                                             !.left = MaxRetries]]

\* "Enqueue in the master list"
PutPush(c) ==
    /\ phase = "open" /\ call[c].pc = "push"
    /\ initiate_put_internal(c, MaxRetries)
    /\ UNCHANGED <<stored, memory, world, phase, sync, fin, kill, vow>>

\* bs_block_get_async: the entry is looked up and the handler enqueued.
GetStart(c, k) ==
    /\ Op
    /\ phase = "open" /\ call[c] = Idle /\ k \in DOMAIN m_entries
    /\ initiate_get_internal(c, k)
    /\ UNCHANGED <<stored, memory, now, faults, crashes, phase, sync, fin, kill, vow>>

\* bs_stat
bss_free == Capacity - m_committed

-----------------------------------------------------------------------------
(* The handlers: S3AsyncPutHandler, S3AsyncGetHandler *)

\* S3 carries out a request and rh_complete notifies the reactor.
S3Answer(c) ==
    /\ phase = "open" /\ call[c].pc = "sent"
    /\ IF call[c].op = "put" THEN
           To(c, "ok") /\ blocks' = blocks \cup {call[c].key}
       ELSE
           To(c, IF call[c].key \in blocks THEN "ok" ELSE "fail") /\ UNCHANGED blocks
    /\ UNCHANGED <<bucket, mdndx, local, memory, world, phase, sync, fin, kill, vow>>

\* S3 fails a request, in a way that may be retried or not.
S3Fails(c) ==
    /\ phase = "open" /\ call[c].pc = "sent" /\ Fault
    /\ \E pc \in {"retry", "fail"} : To(c, pc)
    /\ UNCHANGED <<stored, memory, now, crashes, ops, phase, sync, fin, kill, vow>>

\* A put succeeded: update_put_stats reads the clock...
HandleStamp(c) ==
    /\ phase = "open" /\ call[c].pc = "ok" /\ call[c].op = "put"
    /\ call' = [call EXCEPT ![c].pc = "stamp", ![c].t = now]
    /\ UNCHANGED <<stored, memory, world, phase, sync, fin, kill, vow>>

\* ... and then takes the mutex.
update_put_stats(k, t) ==
    m_committed' = m_committed + BlockSize /\ touch_entry(k, t, BlockSize)

\* "Update the blockstore accounting", and bp_complete.
HandlePut(c) ==
    /\ phase = "open" /\ call[c].pc = "stamp"
    /\ update_put_stats(call[c].key, call[c].t)
    /\ Completed(c)
    /\ vow' = LET k == call[c].key t == call[c].t
              IN  [vow EXCEPT !.touched[k] = Max({@, t}),
                              !.lapse = @ \/ t < vow.touched[k]]
    /\ UNCHANGED <<stored, world, m_mark, m_uncommitted, sync, fin, kill>>

HandleGet(c) ==
    /\ phase = "open" /\ call[c].pc = "ok" /\ call[c].op = "get"
    /\ Completed(c)
    /\ UNCHANGED <<stored, memory, world, phase, sync, fin, kill, vow>>

\* "Retryable failure?": the request is sent again or, after the last of them,
\* answered with an error.
HandleRetry(c) ==
    /\ phase = "open" /\ call[c].pc = "retry"
    /\ IF call[c].left > 1 THEN initiate_put_internal(c, call[c].left - 1) ELSE Completed(c)
    /\ UNCHANGED <<stored, memory, world, phase, sync, fin, kill, vow>>

\* "Permanent failure ... bitter ..."
HandleFail(c) ==
    /\ phase = "open" /\ call[c].pc = "fail"
    /\ Completed(c)
    /\ UNCHANGED <<stored, memory, world, phase, sync, fin, kill, vow>>

\* Mutant: the waiters are woken only by a handler that is not the last.
remove_handler_silent(c) ==
    /\ phase = "open" /\ call[c].pc = "stat"
    /\ Answered(c)
    /\ sync' = IF Handlers # {c} /\ sync = "asleep" THEN "woken" ELSE sync
    /\ UNCHANGED <<stored, memory, world, phase, fin, kill, vow>>

\* "If we've emptied the collection wake any waiters."
remove_handler(c) ==
    /\ phase = "open" /\ call[c].pc = "stat"
    /\ Answered(c)
    /\ sync' = IF Handlers = {c} /\ sync = "asleep" THEN "woken" ELSE sync
    /\ UNCHANGED <<stored, memory, world, phase, fin, kill, vow>>

\* bs_sync: "Make sure we have no requests left."
SyncWait ==
    /\ phase = "open" /\ sync \in {"no", "woken"}
    /\ IF Handlers = {} THEN sync = "woken" /\ sync' = "no" ELSE sync' = "asleep"
    /\ UNCHANGED <<stored, memory, world, phase, call, fin, kill, vow>>

-----------------------------------------------------------------------------
(* The refresh cycle *)

\* A refresh id that already exists is refused with NotUniqueError.
bs_refresh_start(r) ==
    /\ Op
    /\ phase = "open" /\ r \notin DOMAIN m_entries
    /\ touch_entry(r, now, -1)
    /\ vow' = [vow EXCEPT !.touched[r] = now]
    /\ UNCHANGED <<stored, now, faults, crashes, m_mark, m_committed, m_uncommitted, call, sync, fin, kill>>

\* bs_refresh_block, first section: "Do we have the refresh marker?"
RefreshFind(c, r, k) ==
    /\ phase = "open" /\ call[c] = Idle /\ {r, k} \subseteq DOMAIN m_entries
    /\ call' = [call EXCEPT ![c] = [Idle EXCEPT !.op = "refresh", !.pc = "touch", !.key = k]]
    /\ UNCHANGED <<stored, memory, world, phase, sync, fin, kill, vow>>

\* Second section: "Update the entries, don't create new ones."  By now the cycle may
\* have been finished.  "Don't send anything to S3 here."
bs_refresh_block(c) ==
    /\ phase = "open" /\ call[c].pc = "touch"
    /\ Answered(c)
    /\ \E k \in {call[c].key} :
         touch_entry(k, now, 0) /\ vow' = [vow EXCEPT !.touched[k] = now]
    /\ UNCHANGED <<stored, world, m_mark, m_committed, m_uncommitted, sync, fin, kill>>

\* bs_refresh_finish, first half: the old MARK goes, the refresh id takes
\* its name where it is in the list, and the bytes are counted again.
FinishMark(r) ==
    /\ phase = "open" /\ fin = "no" /\ r \in DOMAIN m_entries
    /\ IF Dangling(MARK) THEN phase' = "ub" /\ UNCHANGED <<memory, fin, vow>>
       ELSE \E e \in {(MARK :> m_entries[r]) @@ Drop(m_entries, r)} :
              \E s \in {[i \in 1..Len(Remove(m_lru, MARK)) |->
                           IF Remove(m_lru, MARK)[i] = r THEN MARK ELSE Remove(m_lru, MARK)[i]]} :
                /\ m_entries' = e /\ m_lru' = s
                /\ Recount(e, s)
                /\ fin' = "index"
                /\ \E f \in {[vow.touched EXCEPT ![MARK] = vow.touched[r]]} :
                     vow' = [vow EXCEPT !.touched = f, !.sworn = f]
                /\ UNCHANGED phase
    /\ UNCHANGED <<stored, world, call, sync, kill>>

\* What the index keeps of an entry: sizes are 32 bits without a sign.
Indexed(e) == [n \in DOMAIN e |-> [e[n] EXCEPT !.s = @ % SizeMod]]

\* "Create an mdndx protocol buffer from our entries set", "Write it in a plain file".
FinishIndex ==
    /\ phase = "open" /\ fin = "index"
    /\ local' = [st |-> "ok", e |-> Indexed(m_entries)]
    /\ fin' = "put"
    /\ UNCHANGED <<bucket, blocks, mdndx, memory, world, phase, call, sync, kill, vow>>

\* "Update the MARKNAME file": MDNDX is uploaded and the cycle reported complete...
FinishPut ==
    /\ phase = "open" /\ fin = "put"
    /\ mdndx' = local
    /\ fin' = "no"
    /\ vow' = [vow EXCEPT !.stored = TRUE]
    /\ UNCHANGED <<bucket, blocks, local, memory, world, phase, call, sync, kill>>

\* ... as it is when all uploads have failed: the test for too many retries is
\* inside a loop that ends before it can be true.
FinishPutFails ==
    /\ phase = "open" /\ fin = "put" /\ Fault
    /\ fin' = "no"
    /\ vow' = [vow EXCEPT !.stored = FALSE]
    /\ UNCHANGED <<stored, memory, now, crashes, ops, phase, call, sync, kill>>

-----------------------------------------------------------------------------
(* The life of the process *)

\* A process that is gone keeps nothing in memory.
Forgotten ==
    /\ m_entries' = <<>> /\ m_lru' = <<>> /\ m_mark' = 0
    /\ m_committed' = 0 /\ m_uncommitted' = 0
    /\ call' = [c \in Callers |-> Idle] /\ sync' = "no" /\ fin' = "no"
    /\ phase' = "down"

\* What is owed when the process is gone: f of blocks and MARK; an index may hold a
\* cycle that was started at any time.
Outlives(f) == [n \in Names |-> IF n \in Rids THEN vow.touched[n] ELSE f[n]]

\* bs_close, which its callers call when nothing is under way.
bs_close ==
    /\ phase = "open" /\ fin = "no" /\ sync = "no" /\ \A c \in Callers : call[c] = Idle
    /\ Forgotten
    /\ vow' = [vow EXCEPT !.touched = Outlives(vow.sworn)]
    /\ UNCHANGED <<stored, world, kill>>

\* The process dies.  A deletion or an upload under way may still be carried out, and
\* a local file that was being written is left empty or cut short.  Inside
\* bs_refresh_finish neither the old cycle nor the new one is the last finished one.
Crash ==
    /\ \/ phase = "open" /\ crashes < MaxCrashes /\ crashes' = crashes + 1
       \/ phase = "ub" /\ UNCHANGED crashes
    /\ \E S \in SUBSET {call[c].vic : c \in {d \in Callers : call[d].pc = "delete"}} :
         \E U \in SUBSET {call[c].key : c \in {d \in Callers : call[d].pc = "sent" /\ call[d].op = "put"}} :
           blocks' = (blocks \ S) \cup U
    /\ \/ UNCHANGED local
       \/ fin = "index" /\ local' \in {[NoIndex EXCEPT !.st = "ok"], [NoIndex EXCEPT !.st = "torn"]}
    /\ Forgotten
    /\ \E f \in {Outlives(IF fin = "no" THEN vow.sworn ELSE [Never EXCEPT ![MARK] = vow.sworn[MARK]])} :
         vow' = [vow EXCEPT !.touched = f, !.sworn = f]
    /\ UNCHANGED <<bucket, mdndx, now, faults, ops, kill>>

\* The store is next opened on a machine, or with a directory, without the file.
LoseLocal ==
    /\ phase = "down" /\ local # NoIndex
    /\ local' = NoIndex
    /\ UNCHANGED <<bucket, blocks, mdndx, memory, world, phase, call, sync, fin, kill, vow>>

\* parse_mdndx_entries: the MARK is inserted special, without a size.
Parsed(e) == [n \in DOMAIN e |-> IF n = MARK THEN [e[n] EXCEPT !.s = 0] ELSE e[n]]

\* EntryListHandler: "there is a terrible TZ problem here!" puts the times of
\* S3 seven hours, longer than a run of the model, into the past; which of two
\* uploads is the later is left open.
Enumerated == {[k \in blocks |-> [t |-> f[k], s |-> BlockSize]] :
                 f \in [blocks -> (1 - Cardinality(blocks))..0]}

NoEntries == [NoIndex EXCEPT !.st = "ok"]
Listing == {[NoIndex EXCEPT !.st = "ok", !.e = e] : e \in Enumerated}

\* Where bs_open takes the entries from, and the loops of requests that fail:
\* the local file, else MDNDX, else a listing of the bucket.  A loop of requests
\* that all fail goes on as if the last had succeeded: without the size of MDNDX
\* there is none, its content is zeros and so holds no entries, and a bucket that
\* could not be listed has none.
Sources ==
    IF local.st # "none" THEN {<<local, 0>>}
    ELSE IF mdndx.st # "none"
         THEN {<<mdndx, 0>>, <<NoEntries, 1>>} \cup (Listing \X {1})
         ELSE {<<NoEntries, 1>>} \cup (Listing \X {0})

\* "Unroll the ordered set into the LRU list from recent to oldest": of entries
\* of the same second the last name comes first, so the MARK before the blocks.
Unrolled(e) == SetToSortSeq(DOMAIN e, LAMBDA a, b :
    e[a].t > e[b].t \/ (e[a].t = e[b].t /\ a > b))

\* A bucket without SIZE and an index that does not parse are InternalErrors.
bs_open ==
    /\ Op
    /\ phase = "down" /\ bucket = "ok"
    /\ \E src \in Sources : \E e \in {Parsed(src[1].e)} : \E s \in {Unrolled(e)} :
         /\ src[1].st = "ok"
         /\ faults + src[2] <= MaxFaults /\ faults' = faults + src[2]
         /\ m_entries' = e /\ m_lru' = s
         /\ Recount(e, s)
    /\ vow' = [vow EXCEPT !.lapse = @ \/ (local.st = "none" /\ ~vow.stored)]
    /\ phase' = "open"
    /\ UNCHANGED <<stored, now, crashes, call, sync, fin, kill>>

\* bs_create makes the bucket and leaves the store open...
bs_create ==
    /\ phase = "down" /\ bucket = "none"
    /\ bucket' = "ok" /\ phase' = "open"
    /\ UNCHANGED <<blocks, mdndx, local, memory, world, call, sync, fin, kill, vow>>

\* ... or throws with the SIZE object not written after the last retry.
bs_create_fails ==
    /\ Op
    /\ phase = "down" /\ bucket = "none"
    /\ Fault
    /\ bucket' = "nosize"
    /\ UNCHANGED <<blocks, mdndx, local, memory, now, crashes, phase, call, sync, fin, kill, vow>>

-----------------------------------------------------------------------------
(* destroy, in a process of its own: S3BucketDestroyer *)

SIZE == 0
Objects == blocks \cup (IF bucket = "ok" THEN {SIZE} ELSE {})

\* The keys are listed, or no key is when every attempt fails.
Destroy ==
    /\ Op
    /\ phase = "down" /\ bucket # "none"
    /\ \/ kill' = [queue |-> Objects, out |-> <<>>] /\ UNCHANGED faults
       \/ kill' = NoKill /\ Fault
    /\ phase' = "destroy"
    /\ UNCHANGED <<stored, memory, now, crashes, call, sync, fin, vow>>

\* The requests under way with o among them, n of its retries left.
initiate_delete(o, n) == (o :> n) @@ kill.out

\* service_queue: a limited number of requests at a time.
service_queue(o) ==
    /\ phase = "destroy" /\ o \in kill.queue /\ Cardinality(DOMAIN kill.out) < MaxOut
    /\ kill' = [queue |-> kill.queue \ {o}, out |-> initiate_delete(o, MaxRetries)]
    /\ UNCHANGED <<stored, memory, world, phase, call, sync, fin, vow>>

\* ObjectDestroyer: the object is gone...
Destroyed(o) ==
    /\ phase = "destroy" /\ o \in DOMAIN kill.out
    /\ kill' = [kill EXCEPT !.out = Drop(@, o)]
    /\ bucket' = IF o = SIZE THEN "nosize" ELSE bucket
    /\ blocks' = blocks \ {o}
    /\ UNCHANGED <<mdndx, local, memory, world, phase, call, sync, fin, vow>>

\* ... or S3 failed, and it is tried again or, out of retries or for good, left.
DestroyFails(o) ==
    /\ phase = "destroy" /\ o \in DOMAIN kill.out /\ Fault
    /\ \/ kill.out[o] > 1 /\ kill' = [kill EXCEPT !.out = initiate_delete(o, kill.out[o] - 1)]
       \/ kill' = [kill EXCEPT !.out = Drop(@, o)]
    /\ UNCHANGED <<stored, memory, now, crashes, ops, phase, call, sync, fin, vow>>

\* The bucket is deleted without waiting for the destroyers: S3 refuses to while
\* it holds an object, and destroy throws.  The local file stays.
delete_bucket ==
    /\ phase = "destroy"
    /\ bucket' = IF Objects = {} THEN "none" ELSE bucket
    /\ mdndx' = IF Objects = {} THEN NoIndex ELSE mdndx
    /\ vow' = IF Objects = {} THEN NoVow ELSE vow
    /\ phase' = "down" /\ kill' = NoKill
    /\ UNCHANGED <<blocks, local, memory, world, call, sync, fin>>

-----------------------------------------------------------------------------
(* The specification *)

Tick ==
    /\ now < MaxTime /\ now' = now + 1
    /\ UNCHANGED <<stored, memory, faults, crashes, ops, phase, call, sync, fin, kill, vow>>

Init ==
    /\ bucket = "none" /\ blocks = {} /\ mdndx = NoIndex /\ local = NoIndex
    /\ now = 1 /\ phase = "down"
    /\ m_entries = <<>> /\ m_lru = <<>> /\ m_mark = 0 /\ m_committed = 0 /\ m_uncommitted = 0
    /\ call = [c \in Callers |-> Idle] /\ sync = "no" /\ fin = "no"
    /\ kill = NoKill /\ vow = NoVow /\ faults = 0 /\ crashes = 0 /\ ops = 0

Step(c) ==
    \/ PutAvail(c) \/ PutRoom(c) \/ S3Delete(c) \/ PutDeleted(c) \/ PutPush(c)
    \/ S3Answer(c) \/ HandleStamp(c) \/ HandlePut(c) \/ HandleGet(c) \/ HandleRetry(c) \/ HandleFail(c)
    \/ remove_handler(c) \/ bs_refresh_block(c)

Next ==
    \/ \E c \in Callers :
         \/ Step(c) \/ S3DeleteFails(c) \/ S3Fails(c)
         \/ \E k \in Keys : PutStart(c, k) \/ GetStart(c, k) \/ \E r \in Rids : RefreshFind(c, r, k)
    \/ SyncWait
    \/ \E r \in Rids : bs_refresh_start(r) \/ FinishMark(r)
    \/ FinishIndex \/ FinishPut \/ FinishPutFails
    \/ bs_close \/ Crash \/ LoseLocal \/ bs_open \/ bs_create \/ bs_create_fails
    \/ Destroy \/ delete_bucket
    \/ \E o \in Keys \cup {SIZE} : service_queue(o) \/ Destroyed(o) \/ DestroyFails(o)
    \/ Tick

Spec == Init /\ [][Next]_vars

-----------------------------------------------------------------------------
(* Properties *)


\* bs_sync sleeps only while a request is left whose handler will wake it.
SleeperWoken == sync = "asleep" => Handlers # {}
=============================================================================
