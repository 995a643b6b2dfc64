----------------------------- MODULE UTFileSystem -----------------------------
(***************************************************************************)
(* The file system: modules/UTFileSystem.  A tree of blocks (a directory,  *)
(* the inodes of its files, their direct blocks, their indirect block and  *)
(* its blocks), each stored under a reference made of its encrypted        *)
(* contents and a random initialisation vector, so that a block is never   *)
(* rewritten: a change makes a new block and new blocks for everything     *)
(* above it, up to the root, whose reference is published as a head.       *)
(*                                                                         *)
(* Changes stay in memory (the "dirty" objects) until the tree is flushed, *)
(* bottom up, one bs_block_put per dirty object.  A put may find no space, *)
(* and the process may die between two of them.  fs_refresh touches every  *)
(* block of the tree in the block store; what is not touched may be purged *)
(* by a later put.                                                         *)
(*                                                                         *)
(* A block is named by its path: << >> is the root directory, <<f>> the    *)
(* inode of file f, <<f, i>> its i-th direct block, <<f, NDIRECT + 1>> its *)
(* indirect block and <<f, NDIRECT + 1, j>> the j-th block under that.     *)
(* Writes and truncations are of whole blocks.                             *)
(*                                                                         *)
(* Left out: the data inside the inode, double and triple indirect blocks, *)
(* other directories, links, renames and attributes.  A lookup of a block  *)
(* the store has lost never happens here: that is TreeReadable.  Clean     *)
(* objects in the cache are the blocks they were read from.                *)
(***************************************************************************)
EXTENDS Naturals, Sequences, FiniteSets, SequencesExt

CONSTANTS
    NFiles,     \* files 1..NFiles, in the order of their names
    NDIRECT,    \* direct references of an inode
    NUMREF,     \* references of an indirect block
    Values,     \* what is written to a block
    Zero,       \* what a hole reads as
    Capacity,   \* blocks the block store has room for
    MaxRef      \* bound on the blocks of one path in use at a time; four are enough
                \* for a new one always to be told apart

ASSUME UTFileSystemAssumption ==
    /\ NFiles \in Nat /\ NDIRECT \in Nat /\ NUMREF \in Nat \ {0}
    /\ Zero \notin Values
    /\ Capacity \in Nat \ {0} /\ MaxRef \in Nat /\ MaxRef >= 4

Files == 1..NFiles
NBlocks == NDIRECT + NUMREF

\* The indirect block of f, and the n-th block of f's data.
Indirect(f) == <<f, NDIRECT + 1>>
Block(f, n) == IF n <= NDIRECT THEN <<f, n>> ELSE <<f, NDIRECT + 1, n - NDIRECT>>

Paths == {<<>>}
         \cup {<<f>> : f \in Files}
         \cup {Indirect(f) : f \in Files}
         \cup {Block(f, n) : f \in Files, n \in 1..NBlocks}

\* The blocks that are ever stored for a path are told apart by a number.
Refs == Paths \X (1..MaxRef)

\* The reference to no block.
Nil == <<>>

\* The paths on the way to p, and those below it.
Along == [p \in Paths |-> {q \in Paths : IsPrefix(q, p)}]
Under == [p \in Paths |-> {q \in Paths : IsStrictPrefix(p, q)}]

VARIABLES
    lru,        \* the block store: its blocks, least recently touched first; Nil is
                \* a block nothing refers to any more
    marked,     \* how many of them, from the old end, are uncommitted
    body,       \* the blocks, as the objects they are read into
    head,       \* the root of the furthest head in the block store
    mem,        \* the dirty objects by path; the root is there while mounted
    dirty,      \* the root's m_isdirty
    phase,      \* "down", "idle", "flush" (bn_flush), "publish" (rootref) or
                \* "waits" (for ever, in fs_refresh)
    op,         \* the operation that flushes
    gap,        \* fs_refresh has let go of the write lock
    shrunk,     \* history: since the head was inserted, a block was dropped from
                \* the tree or a put failed
    harm        \* history: see Harms

vars == <<lru, marked, body, head, mem, dirty, phase, op, gap, shrunk, harm>>

\* "exposed": a refresh cycle ended after the tree shrunk, and no head was inserted
\* since; "stranded": a refresh cycle passed over blocks of the tree.
Harms == {"none", "exposed", "stranded"}

\* A new object.  A reference that is nil reads as one.
New == [ref |-> Nil, kids |-> <<>>, val |-> Zero]

-----------------------------------------------------------------------------
(* The tree *)

\* The i-th reference of an object.
KidRef(obj, i) == IF i \in DOMAIN obj.kids THEN obj.kids[i] ELSE Nil

\* The object at every path of the tree with this root and the dirty objects m: the
\* dirty object itself, the stored block its parent refers to, or a new one.
Tree(root, m, b) ==
    LET kid(up, p) == IF p \in DOMAIN m THEN m[p] ELSE b[KidRef(up, p[Len(p)])]
        inode(p)   == kid(root, <<p[1]>>)
    IN  [p \in Paths |->
           CASE Len(p) = 0 -> root
             [] Len(p) = 1 -> inode(p)
             [] Len(p) = 2 -> kid(inode(p), p)
             [] Len(p) = 3 -> kid(kid(inode(p), <<p[1], p[2]>>), p)]

RootOf(m) == IF <<>> \in DOMAIN m THEN m[<<>>] ELSE New
NoTree == [p \in {} |-> New]

InMemory(m, b) == Tree(RootOf(m), m, b)
InStore(h, b) == Tree(b[h], NoTree, b)

Here == InMemory(mem, body)
Published == InStore(head, body)

RefsOf(tree) == {tree[p].ref : p \in Paths} \ {Nil}

\* The files of a tree, and what was written to their blocks.
Contents(tree) ==
    LET files == DOMAIN tree[<<>>].kids
        read  == {<<f, n, tree[Block(f, n)].val>> : f \in files, n \in 1..NBlocks}
    IN  [files |-> files, data |-> {d \in read : d[3] # Zero}]

\* The references the tree with the dirty objects m, and the published one, have.
InUse(m, b, h) ==
    RefsOf(InMemory(m, b)) \cup RefsOf(InStore(h, b))
    \cup ((UNION {ToSet(m[p].kids) : p \in DOMAIN m}) \ {Nil})

\* Only the blocks in use are told apart; of the others only the place counts.
Sweep(l, m, b, h) ==
    \E used \in {InUse(m, b, h)} :
        /\ lru' = [i \in DOMAIN l |-> IF l[i] \in used THEN l[i] ELSE Nil]
        /\ body' = [r \in (used \cap DOMAIN b) \cup {Nil} |-> b[r]]

\* A reference to a new block for p: the initialisation vector is random.
Fresh(p) == CHOOSE r \in {p} \X (1..MaxRef) : r \notin InUse(mem, body, head)

-----------------------------------------------------------------------------
(* The block store, as far as the file system sees it *)

NoSpace == Len(lru) - marked >= Capacity

\* bs_block_put of a new block, obj, which leaves the dirty objects m: the oldest
\* uncommitted one makes room.
Put(obj, m) ==
    LET full == Len(lru) >= Capacity
    IN  /\ Sweep(Append(IF full THEN Tail(lru) ELSE lru, obj.ref), m,
                 [r \in DOMAIN body \cup {obj.ref} |-> IF r = obj.ref THEN obj ELSE body[r]],
                 head)
        /\ marked' = IF full THEN marked - 1 ELSE marked

\* The sequence s without the members of S.
Without(s, S) == FlattenSeq([i \in 1..Len(s) |-> IF s[i] \in S THEN <<>> ELSE <<s[i]>>])

\* The list after the blocks keys, those that the store has, were touched in this
\* order.
Touched(keys) == (ToSet(keys) \cap ToSet(lru)) \ {Nil}
Untouched(keys) == Without(lru, Touched(keys))
Touch(keys) == Untouched(keys) \o Without(keys, ToSet(keys) \ Touched(keys))

\* A mutant: the mark is not moved.
CycleUnmarked(keys) == lru' = Touch(keys) /\ UNCHANGED marked

\* A whole refresh cycle: the blocks that were not touched become uncommitted.
Cycle(keys) == lru' = Touch(keys) /\ marked' = Len(Untouched(keys))

\* A cycle that does not finish: the mark stays in front of the same block.
MarkedLeft(keys) == Len(Without(SubSeq(lru, 1, marked), Touched(keys)))

-----------------------------------------------------------------------------
(* Mounting *)

\* The process holds no tree.
Down ==
    /\ phase' = "down" /\ op' = "none" /\ gap' = FALSE
    /\ mem' = NoTree /\ dirty' = FALSE
    /\ shrunk' = FALSE

\* An operation may begin.  A file system whose blocks were stranded is followed to
\* the end of fs_refresh and no further.
Idle == phase = "idle" /\ harm # "stranded"

StartFlush(o) == phase' = "flush" /\ op' = o

fs_mkfs ==
    /\ phase = "down" /\ head = Nil
    /\ mem' = [p \in {<<>>} |-> New] /\ dirty' = TRUE
    /\ StartFlush("mkfs")
    /\ UNCHANGED <<lru, marked, body, head, gap, shrunk, harm>>

\* What a mount makes of a file system that may have lost blocks is not followed.
fs_mount ==
    /\ phase = "down" /\ head # Nil /\ harm = "none"
    /\ mem' = [p \in {<<>>} |-> body[head]]
    /\ phase' = "idle"
    /\ UNCHANGED <<lru, marked, body, head, dirty, op, gap, shrunk, harm>>

fs_umount ==
    /\ Idle
    /\ \/ /\ dirty /\ StartFlush("umount")
          /\ UNCHANGED <<lru, marked, body, head, mem, dirty, gap, shrunk, harm>>
       \/ /\ ~dirty /\ Down
          /\ Sweep(lru, mem', body, head)
          /\ UNCHANGED <<marked, head, harm>>

\* The process dies, in the middle of a flush or not.  (What it leaves of a file
\* system that was not safe from the block store's purges is not followed.)
Crash ==
    /\ phase # "down" /\ harm = "none"
    /\ Down
    /\ Sweep(lru, mem', body, head)
    /\ UNCHANGED <<marked, head, harm>>

-----------------------------------------------------------------------------
(* The operations on files; each holds the write lock *)

Exists(f) == f \in DOMAIN mem[<<>>].kids

\* A mutant: the root is not told.
ChangedQuietly(m) ==
    /\ mem' = m
    /\ Sweep(lru, mem', body, head)
    /\ UNCHANGED <<marked, head, dirty, phase, op, gap, harm>>

\* What every change leaves: the dirty objects m, the root dirty too.
Changed(m) ==
    /\ mem' = m
    /\ dirty' = TRUE
    /\ Sweep(lru, mem', body, head)
    /\ UNCHANGED <<marked, head, phase, op, gap, harm>>

\* The object obj with the references in S only.
Keep(obj, S) == [obj EXCEPT !.kids = [i \in DOMAIN @ \cap S |-> obj.kids[i]]]

\* The new entry has no reference yet.
fs_mknod(f) ==
    /\ Idle /\ ~Exists(f)
    /\ Changed([p \in DOMAIN mem \cup {<<f>>} |->
                  IF p = <<f>> THEN New
                  ELSE IF p = <<>> THEN
                      [mem[p] EXCEPT !.kids = [g \in DOMAIN @ \cup {f} |->
                                                 IF g = f THEN Nil ELSE mem[p].kids[g]]]
                  ELSE mem[p]])
    /\ UNCHANGED shrunk

fs_unlink(f) ==
    /\ Idle /\ Exists(f)
    /\ Changed([p \in DOMAIN mem \ ({<<f>>} \cup Under[<<f>>]) |->
                  IF p = <<>> THEN Keep(mem[p], Files \ {f}) ELSE mem[p]])
    /\ shrunk' = TRUE

\* The objects on the way to the block become dirty objects.
fs_write(f, n, v) ==
    LET p == Block(f, n)
    IN  /\ Idle /\ Exists(f)
        /\ Changed([q \in DOMAIN mem \cup Along[p] |->
                      IF q = p THEN [Here[q] EXCEPT !.val = v] ELSE Here[q]])
        /\ UNCHANGED shrunk

\* Whether f has an indirect block, and which of the blocks under it are among
\* the first n of f.
HasIndirect(f) == Indirect(f) \in DOMAIN mem \/ Here[Indirect(f)].ref # Nil
LeftUnder(f, n) ==
    {j \in 1..NUMREF : /\ NDIRECT + j <= n
                       /\ \/ Block(f, NDIRECT + j) \in DOMAIN mem
                          \/ j \in DOMAIN Here[Indirect(f)].kids}

\* rb_truncate to n blocks: the references after them are dropped.  An indirect
\* block that overlaps the cut is kept if something is left under it.
fs_truncate(f, n) ==
    LET stays == HasIndirect(f) /\ n > NDIRECT /\ LeftUnder(f, n) # {}
        gone  == {Block(f, m) : m \in (n + 1)..NBlocks}
                 \cup (IF stays THEN {} ELSE {Indirect(f)} \cup Under[Indirect(f)])
        inode == {<<>>, <<f>>} \cup (IF stays /\ n < NBlocks THEN {Indirect(f)} ELSE {})
    IN  /\ Idle /\ Exists(f)
        /\ Changed([q \in (DOMAIN mem \cup inode) \ gone |->
                      CASE q = <<f>> ->
                             Keep(Here[q], (1..NDIRECT \cap 1..n)
                                           \cup (IF stays THEN {NDIRECT + 1} ELSE {}))
                        [] q = Indirect(f) -> Keep(Here[q], 1..(n - NDIRECT))
                        [] OTHER -> Here[q]])
        /\ shrunk' = (shrunk \/ n < NBlocks)

-----------------------------------------------------------------------------
(* bn_flush, one bs_block_put per step *)

\* Everything below an object goes first, in the order of the references.
FlushedBefore(p, q) ==
    \/ IsStrictPrefix(q, p)
    \/ \E i \in 1..Len(p) : /\ i <= Len(q) /\ p[i] < q[i]
                            /\ \A j \in 1..(i - 1) : p[j] = q[j]
FlushesNext(p) == p \in DOMAIN mem /\ \A q \in DOMAIN mem \ {p} : FlushedBefore(p, q)

\* A mutant: the parent keeps its old reference.
CleanOrphan(p, obj) ==
    IF p = <<>> THEN [mem EXCEPT ![p] = obj]
    ELSE [q \in DOMAIN mem \ {p} |-> mem[q]]

\* obj, at p, has been stored: its parent refers to it, and it is no longer dirty.
\* The root stays in memory.
Clean(p, obj) ==
    IF p = <<>> THEN [mem EXCEPT ![p] = obj]
    ELSE [q \in DOMAIN mem \ {p} |->
            IF q = Front(p)
            THEN [mem[q] EXCEPT !.kids = [i \in DOMAIN @ \cup {Last(p)} |->
                                            IF i = Last(p) THEN obj.ref ELSE mem[q].kids[i]]]
            ELSE mem[q]]

bn_persist ==
    /\ phase = "flush" /\ ~NoSpace
    /\ \E p \in DOMAIN mem :
           /\ FlushesNext(p)
           /\ \E obj \in {[mem[p] EXCEPT !.ref = Fresh(p)]} :
                  mem' = Clean(p, obj) /\ Put(obj, mem')
           /\ IF p = <<>> THEN dirty' = FALSE /\ phase' = "publish"
              ELSE UNCHANGED <<dirty, phase>>
    /\ UNCHANGED <<head, op, gap, shrunk, harm>>

\* NoSpaceError: m_ref already names the block that was not stored, and what
\* was flushed before stays flushed.  fs_sync and fs_umount throw, the first flush
\* of fs_refresh goes on, and the last is in a function that does not declare the
\* exception: the process ends.
bn_persist_fails ==
    /\ phase = "flush" /\ NoSpace
    /\ IF op \in {"postsync", "mkfs"} THEN
           /\ Down
           /\ Sweep(lru, mem', body, head)
       ELSE
           /\ \E p \in DOMAIN mem : FlushesNext(p) /\ mem' = [mem EXCEPT ![p].ref = Nil]
           /\ phase' = "idle" /\ op' = "none"
           /\ gap' = (gap \/ op = "presync")
           /\ shrunk' = TRUE
           /\ Sweep(lru, mem', body, head)
           /\ UNCHANGED dirty
    /\ UNCHANGED <<marked, head, harm>>

\* The root's new reference becomes a head.
rootref ==
    /\ phase = "publish"
    /\ head' = mem[<<>>].ref
    /\ harm' = IF harm = "exposed" THEN "none" ELSE harm
    /\ IF op = "umount" THEN
           Down
       ELSE
           /\ phase' = "idle" /\ op' = "none"
           /\ gap' = (gap \/ op = "presync")
           /\ shrunk' = FALSE
           /\ UNCHANGED <<mem, dirty>>
    /\ Sweep(lru, mem', body, head')
    /\ UNCHANGED marked

fs_sync ==
    /\ Idle /\ dirty
    /\ StartFlush("sync")
    /\ UNCHANGED <<lru, marked, body, head, mem, dirty, gap, shrunk, harm>>

-----------------------------------------------------------------------------
(* fs_refresh *)

\* "Try and sync first."  Between the two locks anything may happen.
fs_refresh ==
    /\ Idle /\ ~gap
    /\ IF dirty THEN StartFlush("presync") /\ UNCHANGED gap
       ELSE gap' = TRUE /\ UNCHANGED <<phase, op>>
    /\ UNCHANGED <<lru, marked, body, head, mem, dirty, shrunk, harm>>

\* The first n references of an object.
KidSeq(obj, n) == Without([i \in 1..n |-> KidRef(obj, i)], {Nil})

\* The object of the indirect block is looked at if the inode has a reference to
\* it: if (m_sinref).
Descends(f) == NDIRECT + 1 \in DOMAIN Here[<<f>>].kids

\* A mutant: the last reference of the indirect block is passed over.
UnderIndirectButLast(f) ==
    IF Descends(f) THEN KidSeq(Here[Indirect(f)], NUMREF - 1) ELSE <<>>

UnderIndirect(f) == IF Descends(f) THEN KidSeq(Here[Indirect(f)], NUMREF) ELSE <<>>

\* A mutant: the inode's own block is not touched.
FileKeysNoInode(f) == UnderIndirect(f) \o KidSeq(Here[<<f>>], NDIRECT + 1)

\* FileNode::rb_refresh, and DirNode's of the root.
FileKeys(f) == UnderIndirect(f) \o <<Here[<<f>>].ref>> \o KidSeq(Here[<<f>>], NDIRECT + 1)

KeysBefore(f) == FlattenSeq([g \in 1..(f - 1) |-> IF Exists(g) THEN FileKeys(g) ELSE <<>>])

RefreshKeys == KeysBefore(NFiles + 1) \o <<mem[<<>>].ref>>

\* bs_refresh_blocks of no keys waits for a completion that nobody will call, and
\* an indirect block whose blocks were never stored has none.
Waits == {f \in Files : Exists(f) /\ Descends(f) /\ UnderIndirect(f) = <<>>}

\* Blocks under an indirect block the inode does not refer to yet.
Stranded ==
    \E f \in Files : /\ Indirect(f) \in DOMAIN mem /\ ~Descends(f)
                     /\ mem[Indirect(f)].kids # <<>>

\* The refresh cycle, under the read lock; "If we failed to sync earlier try again".
refresh_cycle ==
    /\ Idle /\ gap /\ Waits = {}
    /\ Cycle(RefreshKeys)
    /\ harm' = IF Stranded THEN "stranded"
               ELSE IF shrunk /\ harm = "none" THEN "exposed" ELSE harm
    /\ gap' = FALSE
    /\ IF dirty THEN StartFlush("postsync") ELSE UNCHANGED <<phase, op>>
    /\ UNCHANGED <<body, head, mem, dirty, shrunk>>

\* fs_refresh holds the read lock for ever: readers go on, nothing changes.
refresh_waits ==
    /\ Idle /\ gap /\ Waits # {}
    /\ lru' = Touch(KeysBefore(Min(Waits))) /\ marked' = MarkedLeft(KeysBefore(Min(Waits)))
    /\ phase' = "waits" /\ gap' = FALSE
    /\ UNCHANGED <<body, head, mem, dirty, op, shrunk, harm>>

-----------------------------------------------------------------------------
Init ==
    /\ lru = <<>> /\ marked = 0 /\ body = [r \in {Nil} |-> New] /\ head = Nil
    /\ mem = NoTree /\ dirty = FALSE
    /\ phase = "down" /\ op = "none" /\ gap = FALSE
    /\ shrunk = FALSE /\ harm = "none"

Next ==
    \/ fs_mkfs \/ fs_mount \/ fs_umount \/ Crash
    \/ \E f \in Files : fs_mknod(f) \/ fs_unlink(f)
    \/ \E f \in Files, n \in 1..NBlocks, v \in Values : fs_write(f, n, v)
    \/ \E f \in Files, n \in 0..NBlocks : fs_truncate(f, n)
    \/ fs_sync \/ bn_persist \/ bn_persist_fails \/ rootref
    \/ fs_refresh \/ refresh_cycle \/ refresh_waits

Spec == Init /\ [][Next]_vars

-----------------------------------------------------------------------------
(* Properties *)

TypeOK ==
    /\ lru \in Seq(Refs \cup {Nil}) /\ Len(lru) <= Capacity /\ marked \in 0..Len(lru)
    /\ head \in Refs \cup {Nil}
    /\ DOMAIN mem \subseteq Paths
    /\ \A p \in DOMAIN mem : mem[p].ref \in Refs \cup {Nil} /\ mem[p].val \in Values \cup {Zero}
    /\ dirty \in BOOLEAN /\ gap \in BOOLEAN
    /\ phase \in {"down", "idle", "flush", "publish", "waits"}
    /\ op \in {"none", "mkfs", "sync", "umount", "presync", "postsync"}
    /\ shrunk \in BOOLEAN /\ harm \in Harms

\* A file system that was synced can be read back after a crash at any moment, even
\* in the middle of a later flush that purges blocks for room: every block of the
\* published tree stays in the block store - unless a refresh cycle ended after
\* files were removed or truncated, or a put failed, with no sync in between.
\* (Plain writes between the two locks of fs_refresh do no harm.)
PublishedReadable == harm = "none" => RefsOf(Published) \subseteq ToSet(lru)

\* When the root is not marked dirty, what the users see is what was published, so
\* that fs_sync, fs_refresh and fs_umount are right to do nothing.
CleanIsPublished == Idle /\ ~dirty => Contents(Here) = Contents(Published)

\* A refresh cycle over a clean tree leaves nothing committed but the published
\* tree: all other space can be used again.
CompactionExact ==
    [][refresh_cycle /\ ~dirty /\ harm' = "none" =>
         {lru'[i] : i \in (marked' + 1)..Len(lru')} = RefsOf(Published)]_vars

\* No put ever purges a block that the users still need: while the file system is
\* mounted, every clean block of its tree is in the block store, so that no lookup
\* fails, and no refresh cycle meets "missing blocks" under an indirect block.
TreeReadable ==
    phase # "down" /\ harm # "stranded" =>
        /\ {Here[p].ref : p \in Paths \ DOMAIN mem} \ {Nil} \subseteq ToSet(lru)
        /\ \A f \in Files : Exists(f) => ToSet(UnderIndirect(f)) \subseteq ToSet(lru)

\* What a flush publishes is in the block store, as long as the users could read it:
\* "Flush cached filesystem data to the blockstore."
SyncedReadable ==
    phase = "publish" => RefsOf(Here) \subseteq ToSet(lru)

Abstract == INSTANCE DurableFS WITH
    contents <- IF phase = "down" THEN Contents(Published) ELSE Contents(Here),
    durable <- Contents(Published)

\* However operations, partial flushes, refresh cycles and crashes interleave, the
\* users see their own changes and nothing else, a sync publishes all of them at
\* once, and a crash takes them back to the last sync.
Implements == Abstract!Spec
=============================================================================
