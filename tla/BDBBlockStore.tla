---------------------------- MODULE BDBBlockStore ----------------------------
(***************************************************************************)
(* The block store over Berkeley DB, modules/BDBBlockStore, below the      *)
(* blocking calls.                                                         *)
(*                                                                         *)
(* It has no lock of its own: a job is a sequence of operations on the     *)
(* tables main.db and refresh.db, and jobs interleave between them.  That  *)
(* one operation of the database is atomic is an assumption: the tables    *)
(* are opened without DB_THREAD.  The last head edge of a file system is   *)
(* kept in main.db under the file system's tag, with the routines for      *)
(* blocks.  Nothing is ever purged and a refresh touches nothing.          *)
(*                                                                         *)
(* The database itself is external: what it does to its files in a crash   *)
(* and its errors are left out.                                            *)
(***************************************************************************)
EXTENDS BlockingCalls

CONSTANTS
    Keys,       \* keys of blocks
    Tag,        \* the tag of the file system
    Rids        \* refresh ids, not 0

ASSUME BDBAssumption ==
    /\ Tag \notin Keys /\ 0 \notin Rids
    /\ IsFiniteSet(Keys) /\ MaxCalls \in Nat

VARIABLES
    phase,      \* "none": no such directory; "closed"; "open": m_db_opened
    main,       \* m_db: the keys in it
    ids,        \* m_db_refresh_ids
    kept        \* history: keys of which a put was answered with success

vars == <<blocking, phase, main, ids, kept>>
store == <<phase, main, ids, kept>>

\* The operations that put into main.db, and those that get from it.
Writes == {"put", "insert"}
Reads == {"get", "follow", "furthest"}

Quiet == \A c \in Callers : call[c].pc = "idle"

-----------------------------------------------------------------------------
(* Lifecycle: not while calls are in progress *)

bs_create ==
    /\ phase = "none" /\ phase' = "open"
    /\ UNCHANGED <<blocking, main, ids, kept>>

bs_open ==
    /\ phase = "closed" /\ phase' = "open"
    /\ UNCHANGED <<blocking, main, ids, kept>>

bs_close ==
    /\ phase = "open" /\ Quiet /\ phase' = "closed"
    /\ UNCHANGED <<blocking, main, ids, kept>>

destroy ==
    /\ phase = "closed" /\ Quiet /\ phase' = "none"
    /\ main' = {} /\ ids' = {} /\ kept' = {}
    /\ UNCHANGED blocking

-----------------------------------------------------------------------------
(* The calls: a child of a VBlockStore is open, and a refresh of blocks there is one   *)
(* that was started.  Used directly the store may be asked anything at any time.  The  *)
(* list of blocks to refresh may be empty, as fs_refresh makes it after a failed flush. *)

Call(c) ==
    /\ direct \/ phase = "open"
    /\ \/ \E k \in Keys, op \in {"get", "put"} : Begin(c, op, 0, {k})
       \/ \E op \in {"insert", "follow", "furthest"} : Begin(c, op, 0, {Tag})
       \/ \E r \in Rids, op \in {"start", "finish"} : Begin(c, op, r, {r})
       \/ \E r \in Rids, ks \in SUBSET Keys :
            (direct \/ r \in ids) /\ Begin(c, "block", r, ks)
    /\ UNCHANGED store

-----------------------------------------------------------------------------
(* The jobs *)

Open(j) == phase = "open" /\ j.pc = "start"
Answer(j, good) == Goto(j, IF good THEN "good" ELSE "bad") /\ UNCHANGED <<direct, call, calls>>

\* Not opened: an error for the completion, or an exception.
NotOpened(j) ==
    /\ j.pc = "start" /\ phase # "open"
    /\ IF j.op \in {"start", "block"} THEN Throw(j) ELSE Answer(j, FALSE)
    /\ UNCHANGED store

\* bs_block_get_async, and bs_head_follow_async and bs_head_furthest_async, which use it.
get(j) ==
    /\ Open(j) /\ j.op \in Reads
    /\ Answer(j, j.key \in main)
    /\ UNCHANGED store

\* bs_block_put_async, and bs_head_insert_async, which uses it: "delete key if it
\* exists--necessary for root-node persistence".
exists(j) ==
    /\ Open(j) /\ j.op \in Writes
    /\ Goto(j, IF j.key \in main THEN "del" ELSE "put")
    /\ UNCHANGED <<direct, call, calls, store>>

\* Mutant: a key that is there is not put again.
del_only(j) ==
    /\ j.pc = "del"
    /\ main' = main \ {j.key}
    /\ Goto(j, "good")
    /\ UNCHANGED <<direct, call, calls, phase, ids, kept>>

del(j) ==
    /\ j.pc = "del"
    /\ main' = main \ {j.key}
    /\ Goto(j, "put")
    /\ UNCHANGED <<direct, call, calls, phase, ids, kept>>

\* With DB_NOOVERWRITE.
put(j) ==
    /\ j.pc = "put" /\ j.op \in Writes
    /\ Answer(j, j.key \notin main)
    /\ main' = main \cup {j.key}
    /\ kept' = IF j.key \in main THEN kept ELSE kept \cup {j.key}
    /\ UNCHANGED <<phase, ids>>

\* bs_refresh_start_async: the id is looked for, then put with DB_NOOVERWRITE.
find_rid(j) ==
    /\ Open(j) /\ j.op = "start"
    /\ Goto(j, IF j.key \in ids THEN "bad" ELSE "put")
    /\ UNCHANGED <<direct, call, calls, store>>

put_rid(j) ==
    /\ j.pc = "put" /\ j.op = "start"
    /\ Answer(j, j.key \notin ids)
    /\ ids' = ids \cup {j.key}
    /\ UNCHANGED <<phase, main, kept>>

\* bs_refresh_block_async, which does not look for the block.
refresh_block(j) ==
    /\ Open(j) /\ j.op = "block"
    /\ IF call[j.by].rid \in ids THEN Answer(j, TRUE) ELSE Throw(j)
    /\ UNCHANGED store

\* bs_refresh_finish_async, which leaves the id in the table.
refresh_finish(j) ==
    /\ Open(j) /\ j.op = "finish"
    /\ Answer(j, j.key \in ids)
    /\ UNCHANGED store

Job(j) ==
    \/ NotOpened(j) \/ get(j) \/ exists(j) \/ del(j) \/ put(j)
    \/ find_rid(j) \/ put_rid(j) \/ refresh_block(j) \/ refresh_finish(j)
    \/ (error(j) \/ rb_complete(j) \/ done(j)) /\ UNCHANGED store

Caller(c) == (Issue(c) \/ wait(c)) /\ UNCHANGED store

-----------------------------------------------------------------------------
Init ==
    /\ BlockingInit
    /\ phase = "none" /\ main = {} /\ ids = {} /\ kept = {}

Next ==
    \/ bs_create \/ bs_open \/ bs_close \/ destroy
    \/ \E c \in Callers : Call(c) \/ Caller(c)
    \/ \E j \in jobs : Job(j)

\* A thread in a call goes on unless it waits, and so does a job.
Spec == Init /\ [][Next]_vars
FairSpec ==
    /\ Spec
    /\ \A c \in Callers : WF_vars(Caller(c))
    /\ \A c \in Callers, k \in Keys \cup Rids \cup {Tag} :
         WF_vars(\E j \in jobs : j.by = c /\ j.key = k /\ Job(j))

-----------------------------------------------------------------------------
(* Properties *)

\* The completion is on the caller's stack: while a job has yet to use it the call has not
\* returned, though with several keys the routines of several threads decide under the
\* lock who calls done() and do it after (BSRefreshBlocksCompletion).
NoLateTouch == \A j \in jobs : call[j.by].op = j.op

\* Every blocking call that names a key comes back, whether its answer comes before it
\* waits, while it falls asleep or later (BlockingCompletion::wait and done), after
\* exceptions, and though other callers may be asleep for ever: bs_refresh_blocks of an
\* empty list does not come back (BlockStore.cpp:462).
Returns == \A c \in Callers : call[c].pc = "issue" ~> call[c].pc = "idle"

\* A block, or a head, that was put with success is there as long as nobody is putting
\* it again, however the deleting and putting of several callers interleave
\* (bs_block_put_async): the last of them to delete also puts it.
NotLost == \A k \in kept : k \in main \/ \E j \in jobs : j.key = k /\ j.op \in Writes /\ j.pc = "put"
=============================================================================
