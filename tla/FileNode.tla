------------------------------ MODULE FileNode ------------------------------
(***************************************************************************)
(* The blocks of a file: modules/UTFileSystem, FileNode and the indirect   *)
(* block nodes.                                                            *)
(*                                                                         *)
(* The first INLSZ bytes of a file are in its inode, the next in NDIRECT   *)
(* blocks the inode refers to, then come those below a single, a double    *)
(* and a triple indirect block, each with NUMREF references.  Next to each *)
(* reference is a place for the block as an object, when it was changed    *)
(* since the last flush.  Blocks never written do not exist and read as    *)
(* zeros.                                                                  *)
(*                                                                         *)
(* A stored block stands for its reference: the store is content           *)
(* addressed, and what was stored is what a load returns.  So a flush,     *)
(* which empties the places of objects, leaves what a mount would load.    *)
(* Objects in the clean cache are equal to what is stored and not shown.   *)
(*                                                                         *)
(* bn_flush never fails here; UTFileSystem has flushes that do.  A write   *)
(* beyond what a triple indirect block reaches is not made.                *)
(***************************************************************************)
EXTENDS Naturals, Sequences, FiniteSetsExt, SequencesExt, TLC

CONSTANTS
    INLSZ, BLKSZ, NDIRECT, NUMREF,
    Writes,     \* the ranges that are written, and a byte: <<offset, size, byte>>
    Sizes       \* what files are truncated to

ASSUME FileNodeAssumption ==
    /\ {INLSZ, BLKSZ, NDIRECT, NUMREF} \subseteq Nat \ {0}
    /\ Writes \subseteq Nat \X (Nat \ {0}) \X Nat
    /\ Sizes \subseteq Nat

VARIABLES
    file,       \* the FileNode: see NewFile
    bytes,      \* a function of file: what is read at each offset
    cut         \* history: a truncation has met a double or triple indirect block

vars == <<file, bytes, cut>>

Refs == 0..(NUMREF - 1)
Directs == 0..(NDIRECT - 1)

\* Where each part of a file begins, and where files end.
DirBase == INLSZ
SinBase == DirBase + NDIRECT * BLKSZ
DinBase == SinBase + NUMREF * BLKSZ
TinBase == DinBase + NUMREF * NUMREF * BLKSZ
Cap     == TinBase + NUMREF * NUMREF * NUMREF * BLKSZ

-----------------------------------------------------------------------------
(* Blocks *)

Zeros == [k \in 1..BLKSZ |-> 0]

\* The place of a block in its parent: the reference m_blkref, a stored block or << >>,
\* and m_blkobj_X, << >> or an object.
NoBlock == [ref |-> <<>>, obj |-> <<>>]
Missing(s) == s = NoBlock

\* An indirect block as an object, new and loaded.
NewIndirect == [kid |-> [i \in Refs |-> NoBlock], dirty |-> TRUE]
Load(r) == [kid |-> [i \in Refs |-> [ref |-> r[i + 1], obj |-> <<>>]], dirty |-> FALSE]

\* The data block, or the indirect one, to use for a place.
DataOf(s) == IF s.obj # <<>> THEN s.obj[1] ELSE IF s.ref # <<>> THEN s.ref ELSE Zeros
NodeOf(s) == IF s.obj # <<>> THEN s.obj[1] ELSE IF s.ref # <<>> THEN Load(s.ref) ELSE NewIndirect

NewFile ==
    [inl |-> [k \in 1..INLSZ |-> 0], dir |-> [i \in Directs |-> NoBlock],
     sin |-> NoBlock, din |-> NoBlock, tin |-> NoBlock,
     size |-> 0, blocks |-> 1, dirty |-> TRUE]

-----------------------------------------------------------------------------
(* Traversals that write: w is the range and the byte *)

Overlaps(w, off, n) == w.off < off + n /\ off < w.end

\* WriteBTF::bt_visit of the block d at off.
bt_visit(d, off, w) ==
    [k \in DOMAIN d |-> IF w.off <= off + k - 1 /\ off + k - 1 < w.end THEN w.val ELSE d[k]]

\* A place after the visit of its data block at off: a missing one is made.  The result
\* of a traversal: what it leaves, if it changed it, and how many blocks it made.
WriteData(s, off, w) ==
    LET hit == Overlaps(w, off, BLKSZ)
    IN  [left |-> IF hit \/ Missing(s) THEN [s EXCEPT !.obj = <<bt_visit(DataOf(s), off, w)>>] ELSE s,
         dirty |-> hit,
         made |-> IF Missing(s) THEN 1 ELSE 0]

\* The loop over the references of an indirect block n at base, each of which spans
\* span bytes, with what Child makes of each place.
Loop(n, base, span, w, Child(_, _)) ==
    LET first   == ((IF w.off > base THEN w.off ELSE base) - base) \div span
        visited == IF base > w.end THEN {}
                   ELSE {i \in Refs : first <= i /\ base + i * span < w.end}
        kid     == [i \in visited |-> Child(n.kid[i], base + i * span)]
    IN  [left  |-> [kid   |-> [i \in Refs |-> IF i \in visited THEN kid[i].left ELSE n.kid[i]],
                    dirty |-> n.dirty \/ \E i \in visited : kid[i].dirty],
         made  |-> MapThenSumSet(LAMBDA i : kid[i].made, visited)]

\* Mutant: a new indirect block is not counted.
Keep_uncounted(s, r) ==
    [left |-> IF r.left.dirty THEN [s EXCEPT !.obj = <<r.left>>] ELSE s,
     dirty |-> r.left.dirty,
     made |-> r.made]

\* The place s of an indirect block after a traversal r of it: the object is kept if it
\* is dirty, and a new one is.
Keep(s, r) ==
    [left |-> IF r.left.dirty THEN [s EXCEPT !.obj = <<r.left>>] ELSE s,
     dirty |-> r.left.dirty,
     made |-> r.made + IF Missing(s) THEN 1 ELSE 0]

\* rb_traverse of the three kinds of indirect blocks, in the place s.
WriteSingle(s, base, w) ==
    Keep(s, Loop(NodeOf(s), base, BLKSZ, w, LAMBDA k, off : WriteData(k, off, w)))

WriteDouble(s, base, w) ==
    Keep(s, Loop(NodeOf(s), base, NUMREF * BLKSZ, w, LAMBDA k, off : WriteSingle(k, off, w)))

WriteTriple(s, base, w) ==
    Keep(s, Loop(NodeOf(s), base, NUMREF * NUMREF * BLKSZ, w, LAMBDA k, off : WriteDouble(k, off, w)))

\* A part of the file from base to next is traversed if the range reaches into it.
Reaches(w, base, next) == base < w.end /\ w.off < next
Untouched(s) == [left |-> s, dirty |-> FALSE, made |-> 0]

\* FileNode::rb_traverse
rb_traverse(f, w) ==
    LET inl  == w.off < INLSZ /\ Overlaps(w, 0, INLSZ)
        at   == [i \in Directs |-> DirBase + i * BLKSZ]
        dir  == [i \in Directs |-> IF Reaches(w, at[i], at[i] + BLKSZ) THEN WriteData(f.dir[i], at[i], w)
                                   ELSE Untouched(f.dir[i])]
        sin  == IF Reaches(w, SinBase, DinBase) THEN WriteSingle(f.sin, SinBase, w) ELSE Untouched(f.sin)
        din  == IF Reaches(w, DinBase, TinBase) THEN WriteDouble(f.din, DinBase, w) ELSE Untouched(f.din)
        tin  == IF Reaches(w, TinBase, Cap) THEN WriteTriple(f.tin, TinBase, w) ELSE Untouched(f.tin)
    IN  [f EXCEPT !.inl = IF inl THEN bt_visit(f.inl, 0, w) ELSE f.inl,
                  !.dir = [i \in Directs |-> dir[i].left],
                  !.sin = sin.left, !.din = din.left, !.tin = tin.left,
                  !.blocks = f.blocks + MapThenSumSet(LAMBDA i : dir[i].made, Directs)
                                      + sin.made + din.made + tin.made,
                  !.dirty = f.dirty \/ inl \/ sin.dirty \/ din.dirty \/ tin.dirty
                                    \/ \E i \in Directs : dir[i].dirty]

-----------------------------------------------------------------------------
(* Truncation *)

\* Mutant: the block that size falls into is counted and not zeroed.
CutData_whole(s, off, size) ==
    IF off < size THEN [left |-> s, dirty |-> FALSE, live |-> IF Missing(s) THEN 0 ELSE 1]
    ELSE [left |-> NoBlock, dirty |-> TRUE, live |-> 0]

\* A place of a data block at off when the file is cut at size: it stays, is zeroed
\* from there on, or goes; and how many blocks are left.
CutData(s, off, size) ==
    CASE off + BLKSZ <= size ->
           [left |-> s, dirty |-> FALSE, live |-> IF Missing(s) THEN 0 ELSE 1]
      [] off < size /\ size < off + BLKSZ ->
           IF Missing(s) THEN [left |-> s, dirty |-> FALSE, live |-> 0]
           ELSE [left |-> [s EXCEPT !.obj = <<[k \in 1..BLKSZ |-> IF off + k - 1 >= size THEN 0
                                                                   ELSE DataOf(s)[k]]>>],
                 dirty |-> TRUE, live |-> 1]
      [] OTHER -> [left |-> NoBlock, dirty |-> TRUE, live |-> 0]

\* IndirectBlockNode::rb_truncate of the block n at base.
CutIndirect(n, base, size) ==
    LET kid == [i \in Refs |-> CutData(n.kid[i], base + i * BLKSZ, size)]
    IN  [left |-> [kid |-> [i \in Refs |-> kid[i].left],
                   dirty |-> n.dirty \/ \E i \in Refs : kid[i].dirty],
         live |-> 1 + MapThenSumSet(LAMBDA i : kid[i].live, Refs)]

\* Mutant: an indirect block that size falls into stays, with or without blocks below it.
CutSingle_stays(s, size) ==
    LET r == CutIndirect(NodeOf(s), SinBase, size)
    IN  IF Missing(s) \/ SinBase >= size THEN [left |-> NoBlock, live |-> 0]
        ELSE [left |-> IF r.left.dirty THEN [s EXCEPT !.obj = <<r.left>>] ELSE s, live |-> r.live]

\* The place of the single indirect block: "Did it have child blocks?  If not purge it".
CutSingle(s, size) ==
    LET r == CutIndirect(NodeOf(s), SinBase, size)
    IN  IF Missing(s) \/ SinBase >= size \/ r.live = 1 THEN [left |-> NoBlock, live |-> 0]
        ELSE [left |-> IF r.left.dirty THEN [s EXCEPT !.obj = <<r.left>>] ELSE s, live |-> r.live]

\* FileNode::rb_truncate, which leaves the double and the triple indirect block alone,
\* and the rest of truncate.
rb_truncate(f, size) ==
    LET at  == [i \in Directs |-> (IF size < INLSZ THEN 2 ELSE 1) * INLSZ + i * BLKSZ]
        dir == [i \in Directs |-> CutData(f.dir[i], at[i], size)]
        sin == CutSingle(f.sin, size)
    IN  [f EXCEPT !.inl = [k \in 1..INLSZ |-> IF k > size THEN 0 ELSE f.inl[k]],
                  !.dir = [i \in Directs |-> dir[i].left],
                  !.sin = sin.left,
                  !.blocks = 1 + MapThenSumSet(LAMBDA i : dir[i].live, Directs) + sin.live,
                  !.size = size,
                  !.dirty = TRUE]

-----------------------------------------------------------------------------
(* Flushes: what is stored for a place *)

FlushData(s) == DataOf(s)
FlushSingle(n) == [i \in 1..NUMREF |-> IF Missing(n.kid[i - 1]) THEN <<>> ELSE FlushData(n.kid[i - 1])]

\* The place of a node whose objects flush as F says.
Flushed(s, F(_)) == IF s.obj = <<>> THEN s ELSE [ref |-> F(s.obj[1]), obj |-> <<>>]

FlushDouble(n) == [i \in 1..NUMREF |-> Flushed(n.kid[i - 1], FlushSingle).ref]
FlushTriple(n) == [i \in 1..NUMREF |-> Flushed(n.kid[i - 1], FlushDouble).ref]

bn_flush(f) ==
    [f EXCEPT !.dir = [i \in Directs |-> IF Missing(f.dir[i]) THEN NoBlock
                                         ELSE [ref |-> FlushData(f.dir[i]), obj |-> <<>>]],
              !.sin = Flushed(f.sin, FlushSingle),
              !.din = Flushed(f.din, FlushDouble),
              !.tin = Flushed(f.tin, FlushTriple),
              !.dirty = FALSE]

-----------------------------------------------------------------------------
(* Reads *)

\* The byte at o of the data block of a place that begins at base, ...
ByteOfData(s, base, o) == DataOf(s)[o - base + 1]

\* ... and below the place of an indirect block.  A missing one is the zero node.
Step(s, base, span, o, Byte(_, _, _)) ==
    LET i == (o - base) \div span
    IN  IF Missing(s) THEN 0 ELSE Byte(NodeOf(s).kid[i], base + i * span, o)

ByteOfSingle(s, base, o) == Step(s, base, BLKSZ, o, ByteOfData)
ByteOfDouble(s, base, o) == Step(s, base, NUMREF * BLKSZ, o, ByteOfSingle)
ByteOfTriple(s, base, o) == Step(s, base, NUMREF * NUMREF * BLKSZ, o, ByteOfDouble)

ByteAt(f, o) ==
    CASE o < DirBase -> f.inl[o + 1]
      [] DirBase <= o /\ o < SinBase ->
           LET i == (o - DirBase) \div BLKSZ IN ByteOfData(f.dir[i], DirBase + i * BLKSZ, o)
      [] SinBase <= o /\ o < DinBase -> ByteOfSingle(f.sin, SinBase, o)
      [] DinBase <= o /\ o < TinBase -> ByteOfDouble(f.din, DinBase, o)
      [] OTHER -> ByteOfTriple(f.tin, TinBase, o)

-----------------------------------------------------------------------------
(* Refresh: the lists of keys that rb_refresh hands to the store, by their lengths *)

Stored(s) == IF s.ref = <<>> THEN 0 ELSE 1
StoredIn(n) == MapThenSumSet(LAMBDA i : Stored(n.kid[i]), Refs)

RefreshSingle(n) == <<StoredIn(n)>>
RefreshKids(n, F(_)) ==
    LET lists[i \in 0..NUMREF] ==
          IF i = 0 THEN <<>>
          ELSE lists[i - 1] \o (IF Stored(n.kid[i - 1]) = 0 THEN <<>> ELSE F(NodeOf(n.kid[i - 1])))
    IN  Append(lists[NUMREF], StoredIn(n))
RefreshDouble(n) == RefreshKids(n, RefreshSingle)
RefreshTriple(n) == RefreshKids(n, RefreshDouble)

rb_refresh(f) ==
    LET below(s, r) == IF Stored(s) = 0 THEN <<>> ELSE r
    IN  below(f.sin, RefreshSingle(NodeOf(f.sin))) \o below(f.din, RefreshDouble(NodeOf(f.din)))
        \o below(f.tin, RefreshTriple(NodeOf(f.tin)))
        \o <<1 + MapThenSumSet(LAMBDA i : Stored(f.dir[i]), Directs)
               + Stored(f.sin) + Stored(f.din) + Stored(f.tin)>>

-----------------------------------------------------------------------------
(* The operations *)

\* FileNode::read of all that a file can hold, past its size too.
read(f) == [o \in 0..(Cap - 1) |-> ByteAt(f, o)] @@ <<>>

Init == file = NewFile /\ bytes = read(NewFile) /\ cut = FALSE

write ==
    \E r \in Writes :
        LET w == [off |-> r[1], end |-> r[1] + r[2], val |-> r[3]]
        IN  /\ w.end <= Cap
            /\ file' = [rb_traverse(file, w) EXCEPT !.size = IF @ > w.end THEN @ ELSE w.end]
            /\ bytes' = read(file')
            /\ UNCHANGED cut

truncate ==
    \E s \in Sizes :
        /\ file' = rb_truncate(file, s)
        /\ bytes' = read(file')
        /\ cut' = (cut \/ ~Missing(file.din) \/ ~Missing(file.tin))

flush ==
    /\ file.dirty
    /\ file' = bn_flush(file)
    /\ bytes' = read(file')
    /\ UNCHANGED cut

Next == write \/ truncate \/ flush

Spec == Init /\ [][Next]_vars

-----------------------------------------------------------------------------
(* Properties *)

Promise == INSTANCE FlatFile WITH
    Sure <- DinBase,
    size <- file.size

\* Whatever of the file is in the inode, in blocks at four depths, on both sides of a
\* boundary, changed or stored or never made: it reads as one run of bytes.  Writes
\* change the range they name and nothing else, flushes nothing at all, and truncation
\* (FileNode::rb_truncate) keeps what is below the new size and leaves no byte behind
\* below the double indirect block; above it no byte turns into another.
Implements == Promise!Spec

\* Blocks that are there, below a place.
CountData(s) == IF Missing(s) THEN 0 ELSE 1
CountBelow(s, F(_)) ==
    IF Missing(s) THEN 0 ELSE 1 + MapThenSumSet(LAMBDA i : F(NodeOf(s).kid[i]), Refs)
CountSingle(s) == CountBelow(s, CountData)
CountDouble(s) == CountBelow(s, CountSingle)
CountTriple(s) == CountBelow(s, CountDouble)
Count(f) ==
    1 + MapThenSumSet(LAMBDA i : CountData(f.dir[i]), Directs)
      + CountSingle(f.sin) + CountDouble(f.din) + CountTriple(f.tin)

\* The number of blocks in the inode (st_blocks), which writes add to one at a time at
\* four depths and a truncation counts anew, is the number of blocks the file has, until
\* a truncation passes over a double or triple indirect block.
BlocksExact == ~cut => file.blocks = Count(file)

\* Of a flushed file rb_refresh names every block to the store, and never with an empty
\* list, for which bs_refresh_blocks would wait for ever: an indirect block whose last
\* data was cut off is gone itself.
RefreshExact ==
    ~file.dirty =>
        \E lists \in {rb_refresh(file)} :
            /\ \A i \in DOMAIN lists : lists[i] > 0
            /\ FoldLeft(+, 0, lists) = Count(file)
=============================================================================
