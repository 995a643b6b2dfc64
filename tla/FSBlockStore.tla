----------------------------- MODULE FSBlockStore -----------------------------
(***************************************************************************)
(* The block store that keeps one file per block in a directory:           *)
(* modules/FSBlockStore/FSBlockStore.cpp.                                  *)
(*                                                                         *)
(* The files are blocks, RID-<n> (a refresh cycle under way) and MARK (the *)
(* start of the last finished cycle).  In memory the store keeps an entry  *)
(* per file, a list of the entries from the most to the least recently     *)
(* touched, and the bytes on either side of the MARK.  When the store is   *)
(* full a put makes room by purging from the old end of the list.          *)
(*                                                                         *)
(* Every operation holds m_fsbsmutex; the loops of bs_block_put_async and  *)
(* bs_open are modelled one round per step, so that the process may stop   *)
(* between two rounds.  Time is the file system's: whole seconds.          *)
(***************************************************************************)
EXTENDS Integers, Sequences, FiniteSets

CONSTANTS
    Keys,       \* block keys
    Rids,       \* refresh cycle identifiers, standing for their RID-<n> files
    MARK,       \* the name of the mark
    NoKey,      \* no name
    Sizes,      \* Sizes[k]: the sizes of the blocks clients put under key k
    MaxBlock,   \* bound on the size of a block
    Capacity,   \* the size the store was created with
    MaxTime     \* bound on the clock

Names == Keys \cup Rids \cup {MARK}

ASSUME FSBlockStoreAssumption ==
    /\ IsFiniteSet(Names)
    /\ Keys \cap Rids = {} /\ MARK \notin Keys \cup Rids /\ NoKey \notin Names
    /\ MaxBlock \in Nat /\ Capacity \in Nat /\ MaxTime \in Nat \ {0}
    /\ Sizes \in [Keys -> SUBSET (0..MaxBlock)]

VARIABLES
    disk, fsize, mtime,         \* the files of BLOCKS: names, sizes, mtimes
    now,                        \* the file system's clock
    phase,                      \* what the process is doing
    put,                        \* the local variables of bs_block_put_async
    m_entries, esize, tstamp,   \* EntrySet: names, and their m_size, m_tstamp
    m_lru,                      \* EntryList: names, front = newest
    m_mark,                     \* whether m_mark points to an entry
    m_committed, m_uncommitted, \* bytes before and behind the mark
    resized                     \* history: a listed block was replaced by one of another
                                \* size since the store was created

files == <<disk, fsize, mtime>>
memory == <<m_entries, esize, tstamp, m_lru, m_mark, m_committed, m_uncommitted>>
vars == <<disk, fsize, mtime, now, phase, put, m_entries, esize, tstamp, m_lru,
          m_mark, m_committed, m_uncommitted, resized>>

Phases == {"gone", "down", "opening", "idle", "purging", "ub"}
NoPut == [key |-> NoKey, size |-> 0, prevsize |-> 0, wascommitted |-> TRUE]
Puts == [key : Keys \cup {NoKey}, size : 0..MaxBlock, prevsize : 0..MaxBlock,
         wascommitted : BOOLEAN]

TypeOK ==
    /\ disk \subseteq Names
    /\ fsize \in [Names -> 0..MaxBlock] /\ mtime \in [Names -> 0..MaxTime]
    /\ now \in 1..MaxTime
    /\ phase \in Phases
    /\ put \in Puts /\ (phase = "purging" => put.key \in Keys)
    /\ m_entries \subseteq Names
    /\ esize \in [Names -> 0..MaxBlock] /\ tstamp \in [Names -> 0..MaxTime]
    /\ m_lru \in Seq(Names)
    /\ m_mark \in BOOLEAN
    /\ m_committed \in Int /\ m_uncommitted \in Int
    /\ resized \in BOOLEAN

-----------------------------------------------------------------------------
(* Lists and sums *)

Listed(s) == {s[i] : i \in 1..Len(s)}

\* The list s without n, which occurs in it once: list::erase.
Erase(s, n) ==
    LET p == CHOOSE i \in 1..Len(s) : s[i] = n
    IN  [i \in 1..(Len(s) - 1) |-> IF i < p THEN s[i] ELSE s[i + 1]]

\* The entry n of the list s under the name m, in the same place.
Rename(s, n, m) == [i \in 1..Len(s) |-> IF s[i] = n THEN m ELSE s[i]]

\* The bytes of the files in S, counted one by one.
Bytes(size, S) == Cardinality({b \in S \X (1..MaxBlock) : b[2] <= size[b[1]]})

\* The entries before and behind the mark (all are before it if it is absent).
BeforeMark(s) == {s[i] : i \in {j \in 1..Len(s) : \A l \in 1..j : s[l] # MARK}}
BehindMark(s) == {s[i] : i \in {j \in 1..Len(s) : \E l \in 1..(j - 1) : s[l] = MARK}}

-----------------------------------------------------------------------------
(* touch_entry *)

\* m_listpos of the entry is dangling: the entry was purged from the list and
\* left in m_entries.  Erasing through it is undefined behaviour; the process
\* is taken to stop there.
Dangling(n) == n \in m_entries /\ n \notin Listed(m_lru)

\* Moves the entry of n to the front of the list.  An existing entry keeps its
\* m_size.
touch_entry(n, time, size) ==
    IF Dangling(n) THEN
        /\ phase' = "ub"
        /\ UNCHANGED <<m_entries, esize, tstamp, m_lru>>
    ELSE
        /\ phase' = "idle"
        /\ m_entries' = m_entries \cup {n}
        /\ esize' = [esize EXCEPT ![n] = IF n \in m_entries THEN @ ELSE size]
        /\ tstamp' = [tstamp EXCEPT ![n] = time]
        /\ m_lru' = <<n>> \o (IF n \in m_entries THEN Erase(m_lru, n) ELSE m_lru)

-----------------------------------------------------------------------------
(* bs_block_put_async *)

\* Is this block older then the MARK?  Told by the file's time, not by the list.
WasCommitted(k) == ~(k \in disk /\ m_mark /\ tstamp[MARK] > mtime[k])

PrevSize(k) == IF k \in disk THEN fsize[k] ELSE 0

PrevCommitted(p) == IF p.wascommitted THEN p.prevsize ELSE 0

\* How much space will be available for this block?
Avail(p) == Capacity - m_committed + PrevCommitted(p)

\* The stat and the space check; NoSpaceError leaves everything as it was.
PutStart(k, size) ==
    LET p == [key |-> k, size |-> size, prevsize |-> PrevSize(k),
              wascommitted |-> WasCommitted(k)]
    IN  /\ phase = "idle"
        /\ size <= Avail(p)
        /\ phase' = "purging" /\ put' = p
        /\ UNCHANGED <<files, now, memory, resized>>

\* Mutant: the bytes waiting to be reclaimed are not counted.
MustPurgeCommittedOnly(p) == m_committed + p.size - PrevCommitted(p) > Capacity

\* Do we need to remove uncommitted blocks to make room for this block?
MustPurge(p) == m_committed + p.size + m_uncommitted - PrevCommitted(p) > Capacity

Oldest == m_lru[Len(m_lru)]

\* Mutant: the oldest entry goes even if it is newer than the mark.
MayPurgeAnything == m_lru # <<>> /\ m_mark

\* The three tests purge_uncommitted makes.
MayPurge == m_lru # <<>> /\ m_mark /\ tstamp[Oldest] <= tstamp[MARK]

\* purge_uncommitted: off the list, off the disk, out of the count - and left
\* in m_entries.
Purge ==
    /\ phase = "purging" /\ MustPurge(put) /\ MayPurge
    /\ m_lru' = SubSeq(m_lru, 1, Len(m_lru) - 1)
    /\ disk' = disk \ {Oldest}
    /\ fsize' = [fsize EXCEPT ![Oldest] = 0]
    /\ mtime' = [mtime EXCEPT ![Oldest] = 0]
    /\ m_uncommitted' = m_uncommitted - esize[Oldest]
    /\ UNCHANGED <<now, phase, put, m_entries, esize, tstamp, m_mark,
                   m_committed, resized>>

\* Mutant: the failure is swallowed and the purge tried again.
PurgeFailsRetried ==
    /\ phase = "purging" /\ MustPurge(put) /\ ~MayPurge
    /\ UNCHANGED vars

\* purge_uncommitted throws InternalError, and so does the put.
PurgeFails ==
    /\ phase = "purging" /\ MustPurge(put) /\ ~MayPurge
    /\ phase' = "idle" /\ put' = NoPut
    /\ UNCHANGED <<files, now, memory, resized>>

\* Mutant: the block that is replaced is not taken out of the counts.
AccountForgetsPrevious(p) ==
    /\ m_committed' = m_committed + p.size
    /\ UNCHANGED m_uncommitted

\* First remove the prior block from the stats, then add the new one.
Account(p) ==
    /\ m_committed' = m_committed - PrevCommitted(p) + p.size
    /\ m_uncommitted' = m_uncommitted - (p.prevsize - PrevCommitted(p))

\* The block is written and entered.
PutWrite ==
    /\ phase = "purging" /\ ~MustPurge(put)
    /\ disk' = disk \cup {put.key}
    /\ fsize' = [fsize EXCEPT ![put.key] = put.size]
    /\ mtime' = [mtime EXCEPT ![put.key] = now]
    /\ Account(put)
    /\ touch_entry(put.key, now, put.size)
    /\ put' = NoPut
    /\ resized' = (resized \/ (put.key \in m_entries /\ esize[put.key] # put.size))
    /\ UNCHANGED <<now, m_mark>>

\* bs_block_get_async and bs_stat change nothing: what they answer.
Gettable(k) == phase = "idle" /\ k \in disk
bss_free == Capacity - m_committed

-----------------------------------------------------------------------------
(* The refresh cycle *)

\* A refresh id that already exists is refused with NotUniqueError.
bs_refresh_start(r) ==
    /\ phase = "idle" /\ r \notin disk
    /\ disk' = disk \cup {r}
    /\ mtime' = [mtime EXCEPT ![r] = now]
    /\ touch_entry(r, now, 0)
    /\ UNCHANGED <<fsize, now, put, m_mark, m_committed, m_uncommitted, resized>>

\* An unknown refresh id is refused with NotFoundError, a missing block is
\* reported as missing; neither changes anything.
bs_refresh_block(r, k) ==
    /\ phase = "idle" /\ r \in disk /\ k \in disk
    /\ mtime' = [mtime EXCEPT ![k] = now]
    /\ touch_entry(k, now, fsize[k])
    /\ UNCHANGED <<disk, fsize, now, put, m_mark, m_committed, m_uncommitted, resized>>

\* The RID file becomes the MARK file.
RenameRid(r) ==
    /\ disk' = (disk \ {r}) \cup {MARK}
    /\ mtime' = [mtime EXCEPT ![MARK] = mtime[r], ![r] = 0]
    /\ UNCHANGED fsize

\* Mutant: the mark goes to the recent end of the list.
ListAfterFinishFront(r) ==
    <<MARK>> \o Erase(IF MARK \in m_entries THEN Erase(m_lru, MARK) ELSE m_lru, r)

\* The old mark goes; the entry of r takes its name where it is.
ListAfterFinish(r) ==
    Rename(IF MARK \in m_entries THEN Erase(m_lru, MARK) ELSE m_lru, r, MARK)

\* Add up all the committed memory.
Recount(s) ==
    /\ m_committed' = Bytes(esize, BeforeMark(s))
    /\ m_uncommitted' = Bytes(esize, BehindMark(s))

\* An unknown refresh id is refused with NotFoundError.
bs_refresh_finish(r) ==
    /\ phase = "idle" /\ r \in disk
    /\ RenameRid(r)
    /\ IF Dangling(MARK) THEN
           /\ phase' = "ub"
           /\ UNCHANGED memory
       ELSE IF r \notin m_entries THEN      \* "Missing RID entry"
           /\ m_lru' = IF MARK \in m_entries THEN Erase(m_lru, MARK) ELSE m_lru
           /\ m_entries' = m_entries \ {MARK}
           /\ UNCHANGED <<phase, esize, tstamp, m_mark, m_committed, m_uncommitted>>
       ELSE
           /\ m_lru' = ListAfterFinish(r)
           /\ m_entries' = (m_entries \ {r}) \cup {MARK}
           /\ tstamp' = [tstamp EXCEPT ![MARK] = tstamp[r], ![r] = 0]
           /\ m_mark' = TRUE
           /\ Recount(ListAfterFinish(r))
              /\ UNCHANGED <<phase, esize>>
    /\ UNCHANGED <<now, put, resized>>

-----------------------------------------------------------------------------
(* The life of the process *)

\* A process that is gone keeps nothing in memory.
Forgotten ==
    /\ m_entries' = {} /\ m_lru' = <<>> /\ m_mark' = FALSE
    /\ esize' = [n \in Names |-> 0] /\ tstamp' = [n \in Names |-> 0]
    /\ m_committed' = 0 /\ m_uncommitted' = 0
    /\ put' = NoPut

\* bs_close, or the death of the process at any point.
Stop ==
    /\ phase \in {"opening", "idle", "purging", "ub"}
    /\ phase' = "down"
    /\ Forgotten
    /\ UNCHANGED <<files, now, resized>>

\* The process dies after open truncated the file and before write filled it.
StopInWrite ==
    /\ phase = "purging" /\ ~MustPurge(put)
    /\ disk' = disk \cup {put.key}
    /\ fsize' = [fsize EXCEPT ![put.key] = 0]
    /\ mtime' = [mtime EXCEPT ![put.key] = now]
    /\ phase' = "down"
    /\ Forgotten
    /\ UNCHANGED <<now, resized>>

\* bs_open begins to read the directory.
bs_open ==
    /\ phase = "down"
    /\ phase' = "opening"
    /\ UNCHANGED <<files, now, put, memory, resized>>

\* The most recent files not yet on the list; files of the same second come in
\* the order of the directory, which is any.
UnreadNewest == {n \in disk \ m_entries : \A o \in disk \ m_entries : mtime[n] >= mtime[o]}

\* One round of "Unroll the ordered set into the LRU list".
OpenEntry ==
    /\ phase = "opening"
    /\ \E n \in UnreadNewest :
         /\ m_entries' = m_entries \cup {n}
         /\ esize' = [esize EXCEPT ![n] = fsize[n]]
         /\ tstamp' = [tstamp EXCEPT ![n] = mtime[n]]
         /\ m_lru' = Append(m_lru, n)
         /\ m_mark' = (m_mark \/ n = MARK)
         /\ IF m_mark
            THEN m_uncommitted' = m_uncommitted + fsize[n] /\ UNCHANGED m_committed
            ELSE m_committed' = m_committed + (IF n = MARK THEN 0 ELSE fsize[n])
                 /\ UNCHANGED m_uncommitted
    /\ UNCHANGED <<files, now, phase, put, resized>>

OpenDone ==
    /\ phase = "opening" /\ disk \subseteq m_entries
    /\ phase' = "idle"
    /\ UNCHANGED <<files, now, put, memory, resized>>

\* destroy removes the store of a process that is not running...
destroy ==
    /\ phase = "down"
    /\ phase' = "gone"
    /\ disk' = {}
    /\ fsize' = [n \in Names |-> 0] /\ mtime' = [n \in Names |-> 0]
    /\ resized' = FALSE
    /\ UNCHANGED <<now, put, memory>>

\* ... and bs_create makes an empty one, open for use.
bs_create ==
    /\ phase = "gone"
    /\ phase' = "idle"
    /\ UNCHANGED <<files, now, put, memory, resized>>

Tick ==
    /\ phase \in {"idle", "down"} /\ now < MaxTime
    /\ now' = now + 1
    /\ UNCHANGED <<files, phase, put, memory, resized>>

-----------------------------------------------------------------------------
Init ==
    /\ disk = {} /\ fsize = [n \in Names |-> 0] /\ mtime = [n \in Names |-> 0]
    /\ now = 1 /\ phase = "gone" /\ put = NoPut
    /\ m_entries = {} /\ m_lru = <<>> /\ m_mark = FALSE
    /\ esize = [n \in Names |-> 0] /\ tstamp = [n \in Names |-> 0]
    /\ m_committed = 0 /\ m_uncommitted = 0 /\ resized = FALSE

PutStep == Purge \/ PurgeFails \/ PutWrite

Next ==
    \/ \E k \in Keys : \E size \in Sizes[k] : PutStart(k, size)
    \/ PutStep
    \/ \E r \in Rids : bs_refresh_start(r)
    \/ \E r \in Rids, k \in Keys : bs_refresh_block(r, k)
    \/ \E r \in Rids : bs_refresh_finish(r)
    \/ Stop \/ StopInWrite
    \/ bs_open \/ OpenEntry \/ OpenDone
    \/ destroy \/ bs_create
    \/ Tick

Spec == Init /\ [][Next]_vars

\* The thread that runs a put keeps running: it holds the only lock it needs.
FairSpec == Spec /\ WF_vars(PutStep)

-----------------------------------------------------------------------------
(* Properties *)

Up == phase \in {"idle", "purging"}

\* However puts, purges, refresh cycles, restarts and torn writes interleave, the
\* blocks on disk never take more than the size the store was created with; except
\* that the store loses count once a block is replaced by one of another size,
\* whose entry keeps the old size.
WithinCapacity == ~resized => Bytes(fsize, disk) <= Capacity

\* While the store runs, the list holds the files of the directory and nothing
\* else, each once, and, with the same exception, m_committed and m_uncommitted
\* add up to their bytes.
AccountsBalance ==
    Up => /\ Listed(m_lru) = disk
          /\ Len(m_lru) = Cardinality(disk)
          /\ ~resized => m_committed + m_uncommitted = Bytes(fsize, disk)

\* The list is in the order of the files' times, so that its old end, where
\* purge_uncommitted takes from, is the oldest file.
ListInOrder ==
    Up => \A i, j \in 1..Len(m_lru) : i < j => mtime[m_lru[i]] >= mtime[m_lru[j]]

\* A block written or refreshed in a later second than the one the last finished
\* refresh cycle began in is not purged by any put: only destroy removes it.
NewerThanMarkKept ==
    [][\A k \in Keys :
          k \in disk /\ k \notin disk' /\ phase' # "gone" =>
              m_mark /\ mtime[k] <= tstamp[MARK]]_vars

\* A put ends: purging makes progress until there is room or it throws.
PutEnds == phase = "purging" ~> phase # "purging"
=============================================================================
