------------------------------ MODULE Namespace ------------------------------
(***************************************************************************)
(* Names in the file system: modules/UTFileSystem, DirNode and the         *)
(* BlockNodeCache.                                                         *)
(*                                                                         *)
(* A directory keeps a list of names with the references of their stored   *)
(* nodes, and a map, m_dirty, of the names whose nodes were changed to the *)
(* objects in memory.  A name is looked up in m_dirty, then its reference  *)
(* in the cache of clean objects, then in the block store.  A change puts  *)
(* every object on the way into the m_dirty of its directory; a flush      *)
(* stores the dirty objects bottom up, under new references, and moves     *)
(* them to the cache.  An object stays in the cache under each reference   *)
(* it ever had.                                                            *)
(*                                                                         *)
(* A rename is a link by reference followed by an unlink, so that for a    *)
(* moment two names share an object; a hard link leaves it so for good.    *)
(*                                                                         *)
(* An operation holds the write lock from start to end and is one action,  *)
(* written as the functions the code calls, from one state of the memory   *)
(* to the next.  A flush always finds room here (UTFileSystem has those    *)
(* that do not).  Files and symbolic links are leaves with a value.  Calls *)
(* that the kernel refuses by itself (a rename of a directory into itself, *)
(* or of a name that is not there) are not made; a call that fails leaves  *)
(* what a walk leaves.                                                     *)
(***************************************************************************)
EXTENDS Naturals, Sequences, FiniteSets, FiniteSetsExt, SequencesExt, TLC

CONSTANTS
    NNames,     \* names 1..NNames
    MaxDepth,   \* bound on the length of paths
    MaxNodes,   \* bound on the nodes of the tree besides the root
    Values,     \* data and attributes of a node, 0 when it is new
    Changing    \* bound: the kinds of nodes that are written or changed

ASSUME NamespaceAssumption ==
    /\ {NNames, MaxDepth, MaxNodes} \subseteq Nat \ {0}
    /\ Values \subseteq Nat /\ 0 \in Values
    /\ Changing \subseteq {"leaf", "dir"}

Names == 1..NNames
Paths == UNION {[1..n -> Names] : n \in 0..MaxDepth}

\* Objects are called by the first path that leads to them, references by a path in
\* memory (1), in the published tree (2), or of the object that has them (4); an
\* operation numbers the new ones: <<0, k>> and <<3, k>>.
None == <<0>>
Nil == <<>>
Root == <<>>
Rank == [p \in Paths |-> FoldLeft(LAMBDA n, x : (NNames + 1) * n + x, 0, p)]
FirstOf(ps) == CHOOSE p \in ps : \A q \in ps : Rank[p] <= Rank[q]

VARIABLES
    obj,        \* the objects: see Object
    cache,      \* m_nodemap: reference -> object
    disk,       \* the block store: reference -> node
    head,       \* the published root
    phase,      \* "down", "up", "crashed", or "ub": stopped by undefined behaviour
    tree,       \* what is looked up at each path: a function of the above
    durable,    \* what would be after a crash: a function of disk and head
    linked      \* history: a hard link was made

vars == <<obj, cache, disk, head, phase, tree, durable, linked>>

Empty == [x \in {} |-> None]
Put(f, x, y) == (x :> y) @@ f
Table(f) == f @@ Empty      \* f, its values computed once
Drop(f, x) == [z \in DOMAIN f \ {x} |-> f[z]]

\* Nodes as they are stored, with the entries of a directory...
NewNode(k, v) == [kind |-> k, val |-> v, ents |-> <<>>]

\* ... and as objects.  inlist: m_lpos is in the cache's list.
Object(n, r, d) == [node |-> n, ref |-> r, dirty |-> d, m_dirty |-> Empty, inlist |-> FALSE]

\* What an operation works on.
Now == [obj |-> obj, cache |-> cache, disk |-> disk, ub |-> FALSE]

-----------------------------------------------------------------------------
(* What a lookup finds, without its effects *)

EntryOf(n, x) == {i \in DOMAIN n.ents : n.ents[i].name = x}
RefIn(n, x) == n.ents[CHOOSE i \in EntryOf(n, x) : TRUE].ref

Missing == [id |-> None, ref |-> Nil, node |-> NewNode("none", 0)]

\* What is at the name x of the directory that is at up.
Place(s, up, x) ==
    LET r    == RefIn(up.node, x)
        kids == IF up.id = None THEN Empty ELSE s.obj[up.id].m_dirty
        id   == IF x \in DOMAIN kids THEN kids[x]
                ELSE IF r \in DOMAIN s.cache THEN s.cache[r] ELSE None
    IN  IF EntryOf(up.node, x) = {} THEN Missing
        ELSE [id |-> id, ref |-> r, node |-> IF id = None THEN s.disk[r] ELSE s.obj[id].node]

\* What is at each path of s, one level after the other; root is what is at << >>.
Places(s, root) ==
    LET level[n \in 0..MaxDepth] ==
          IF n = 0 THEN <<>> :> root
          ELSE LET up == level[n - 1]
               IN  [p \in [1..n -> Names] |-> Place(s, up[Front(p)], Last(p))] @@ up
    IN  level[MaxDepth]

RootPlace(s) == [id |-> Root, ref |-> s.obj[Root].ref, node |-> s.obj[Root].node]
InMemory(s) == Places(s, RootPlace(s))
InStore(d, h) ==
    Places([obj |-> Empty, cache |-> Empty, disk |-> d], [id |-> None, ref |-> h, node |-> d[h]])

\* The tree of names that places make up.
TreeOf(at) == Table([p \in {q \in Paths : at[q].node.kind # "none"} |->
                       [kind |-> at[p].node.kind, val |-> at[p].node.val]])

-----------------------------------------------------------------------------
(* Giving objects and references their names again; what nothing leads to is gone *)

\* The first path that leads to a reference.
RefName(at, pub, s, r) ==
    LET mem == {p \in Paths : at[p].ref = r}
        sto == {p \in Paths : pub[p].ref = r}
        own == {p \in Paths : at[p].id # None /\ s.obj[at[p].id].ref = r}
    IN  CASE mem # {} -> <<1>> \o FirstOf(mem)
          [] mem = {} /\ sto # {} -> <<2>> \o FirstOf(sto)
          [] OTHER -> <<4>> \o FirstOf(own)

\* The state s with the published root h, its names changed by the functions f (of
\* objects) and g (of references).
Renamed(s, h, f, g) ==
    LET ref(r)  == IF r \in DOMAIN g THEN g[r] ELSE Nil
        node(n) == [n EXCEPT !.ents = [i \in DOMAIN @ |-> [@[i] EXCEPT !.ref = ref(@)]]]
        oldo(x) == CHOOSE o \in DOMAIN f : f[o] = x
        oldr(x) == CHOOSE r \in DOMAIN g : g[r] = x
        kept    == {r \in DOMAIN s.cache : r \in DOMAIN g /\ s.cache[r] \in DOMAIN f}
        object(o) ==
          [s.obj[o] EXCEPT !.node = node(@),
                           !.ref = IF s.obj[o].dirty THEN Nil ELSE ref(@),
                           !.m_dirty = [x \in DOMAIN @ |-> f[@[x]]],
                           !.inlist = @ /\ \E r \in kept : s.cache[r] = o]
    IN  /\ obj' = [x \in {f[o] : o \in DOMAIN f} |-> object(oldo(x))]
        /\ cache' = [x \in {g[r] : r \in kept} |-> f[s.cache[oldr(x)]]]
        /\ disk' = [x \in {g[r] : r \in DOMAIN g \cap DOMAIN s.disk} |-> node(s.disk[oldr(x)])]
        /\ head' = ref(h)

\* The process goes on in state s, or stops, with h published.
GoOn(s, h) ==
    \E at \in {InMemory(s)}, pub \in {InStore(s.disk, h)} :
        LET ids  == {at[p].id : p \in Paths} \ {None}
            refs == ({at[p].ref : p \in Paths} \cup {pub[p].ref : p \in Paths}
                     \cup {s.obj[o].ref : o \in {i \in ids : ~s.obj[i].dirty}}) \ {Nil}
        IN  /\ tree' = TreeOf(at)
            /\ durable' = TreeOf(pub)
            /\ Renamed(s, h, Table([o \in ids |-> FirstOf({p \in Paths : at[p].id = o})]),
                             Table([r \in refs |-> RefName(at, pub, s, r)]))

Stop(d, h) ==
    \E pub \in {InStore(d, h)} :
        LET refs == {pub[p].ref : p \in Paths} \ {Nil}
        IN  /\ tree' = TreeOf(pub)
            /\ durable' = TreeOf(pub)
            /\ Renamed([obj |-> Empty, cache |-> Empty, disk |-> d], h, Empty,
                       Table([r \in refs |-> <<2>> \o FirstOf({p \in Paths : pub[p].ref = r})]))

Done(s, h) ==
    IF s.ub THEN phase' = "ub" /\ Stop(s.disk, h) ELSE phase' = "up" /\ GoOn(s, h)

-----------------------------------------------------------------------------
(* BlockNodeCache *)

\* "The handle better already be in the list!"
touch(s, o) == IF s.obj[o].inlist THEN s ELSE [s EXCEPT !.ub = TRUE]

insert(s, o) ==
    LET r == s.obj[o].ref
    IN  IF r \in DOMAIN s.cache THEN touch(s, s.cache[r])
        ELSE [s EXCEPT !.cache = Put(@, r, o), !.obj[o].inlist = TRUE]

\* Mutant: the reference still leads to the object.
cache_remove_half(s, r) ==
    IF r \in DOMAIN s.cache THEN [s EXCEPT !.obj[s.cache[r]].inlist = FALSE] ELSE s

cache_remove(s, r) ==
    IF r \notin DOMAIN s.cache THEN s
    ELSE [touch(s, s.cache[r]) EXCEPT !.cache = Drop(@, r), !.obj[s.cache[r]].inlist = FALSE]

-----------------------------------------------------------------------------
(* DirNode *)

NewId(s) == <<0, Cardinality({o \in DOMAIN s.obj : o # Root /\ o[1] = 0}) + 1>>
NewRef(s) == <<3, Cardinality({r \in DOMAIN s.disk : r[1] = 3}) + 1>>

\* The object of the name x of directory d, loaded if need be, or None.
lookup(s, d, x) ==
    LET dir  == s.obj[d]
        r    == RefIn(dir.node, x)
        load == [s EXCEPT !.obj = Put(@, NewId(s), Object(s.disk[r], r, FALSE))]
    IN  CASE x \in DOMAIN dir.m_dirty  -> [s |-> s, o |-> dir.m_dirty[x]]
          [] EntryOf(dir.node, x) = {} -> [s |-> s, o |-> None]
          [] r \in DOMAIN s.cache      -> [s |-> touch(s, s.cache[r]), o |-> s.cache[r]]
          [] OTHER                     -> [s |-> insert(load, NewId(s)), o |-> NewId(s)]

\* Mutant: the directory itself is not marked.
update_clean(s, d, x, o) ==
    [s EXCEPT !.obj[d].m_dirty = IF o = None \/ x \in DOMAIN @ THEN @ ELSE Put(@, x, o)]

\* update(i_ctxt, i_entry, i_fnh)
update(s, d, x, o) ==
    [s EXCEPT !.obj[d].dirty = TRUE,
              !.obj[d].m_dirty = IF o = None \/ x \in DOMAIN @ THEN @ ELSE Put(@, x, o)]

\* update(i_entry, i_blkref)
set_ref(s, d, x, r) ==
    LET e == s.obj[d].node.ents
        new == [name |-> x, ref |-> r]
        i == EntryOf(s.obj[d].node, x)
    IN  [s EXCEPT !.obj[d].node.ents =
           IF i = {} THEN Append(e, new) ELSE [e EXCEPT ![CHOOSE j \in i : TRUE] = new]]

\* The entry's place is taken by the last one.  The reference is only noted if it
\* is not the last itself.
dir_remove(s, d, x) ==
    LET e == s.obj[d].node.ents
        i == CHOOSE j \in EntryOf(s.obj[d].node, x) : TRUE
        t == [s EXCEPT !.obj[d].node.ents = Front([e EXCEPT ![i] = Last(e)]),
                       !.obj[d].m_dirty = Drop(@, x),
                       !.obj[d].dirty = TRUE]
    IN  IF i = Len(e) THEN t ELSE cache_remove(t, e[i].ref)

unlink(s, d, x) == dir_remove(lookup(s, d, x).s, d, x)

\* A setter that marks the object dirty.
set_val(s, o, v) == [s EXCEPT !.obj[o].node.val = v, !.obj[o].dirty = TRUE]

\* bn_persist: the node is stored under a new reference.
bn_persist(s, o) ==
    [s EXCEPT !.disk = Put(@, NewRef(s), s.obj[o].node),
              !.obj[o].ref = NewRef(s), !.obj[o].dirty = FALSE]

RECURSIVE bn_flush(_, _)

\* One name of m_dirty: "flush them, insert them in the block node cache and remove
\* from the dirty cache."
flush_entry(s, d, x) ==
    LET o == s.obj[d].m_dirty[x]
        t == bn_flush(s, o)
    IN  [insert(set_ref(t, d, x, t.obj[o].ref), o) EXCEPT !.obj[d].m_dirty = Drop(@, x)]

bn_flush(s, o) ==
    IF ~s.obj[o].dirty THEN s
    ELSE bn_persist(FoldLeft(LAMBDA t, x : flush_entry(t, o, x), s,
                             SetToSortSeq(DOMAIN s.obj[o].m_dirty, <)), o)

\* linksrc: a dirty node is flushed to get a valid reference.
find_blkref(s, d, x) == IF x \in DOMAIN s.obj[d].m_dirty THEN flush_entry(s, d, x) ELSE s

\* The caller gives a reference; what was there before goes.
linkdst(s, d, x, r) ==
    LET l == lookup(s, d, x)
        t == IF l.o = None THEN l.s ELSE dir_remove(l.s, d, x)
    IN  [set_ref(t, d, x, r) EXCEPT !.obj[d].dirty = TRUE]

\* mknod, mkdir, symlink: the object goes into m_dirty, a placeholder into the list.
make(s, d, x, n) ==
    LET o == NewId(s)
        t == [s EXCEPT !.obj = Put(@, o, Object(n, Nil, TRUE))]
    IN  [set_ref(t, d, x, Nil) EXCEPT !.obj[d].m_dirty = Put(@, x, o), !.obj[d].dirty = TRUE]

-----------------------------------------------------------------------------
(* node_traverse *)

\* The way down: the objects from the root to the leaf, which may be None.
descend(s, p) ==
    LET way[n \in 0..Len(p)] ==
          IF n = 0 THEN [s |-> s, ids |-> <<Root>>]
          ELSE LET w == way[n - 1]
                   l == lookup(w.s, Last(w.ids), p[n])
               IN  [s |-> l.s, ids |-> Append(w.ids, l.o)]
    IN  way[Len(p)]

\* The way up with NT_UPDATE.
ascend(s, p, ids) ==
    LET way[n \in 0..Len(p)] ==
          IF n = Len(p) THEN s ELSE update(way[n + 1], ids[n + 1], p[n + 1], ids[n + 2])
    IN  way[0]

\* "Need to redo the lookup because it might have changed."
ascend_parent(s, p, ids) ==
    LET l == lookup(s, ids[Len(p)], Last(p))
    IN  ascend(l.s, p, [ids EXCEPT ![Len(p) + 1] = l.o])

\* The parent of a path, of the objects on the way.
Parent(w) == w.ids[Len(w.ids) - 1]

\* The traversals that make, remove and link the name p, with NT_PARENT | NT_UPDATE...
make_at(s, p, n) ==
    LET w == descend(s, p) IN ascend_parent(make(w.s, Parent(w), Last(p), n), p, w.ids)

unlink_at(s, p) ==
    LET w == descend(s, p) IN ascend_parent(unlink(w.s, Parent(w), Last(p)), p, w.ids)

linkdst_at(s, p, r) ==
    LET w == descend(s, p) IN ascend_parent(linkdst(w.s, Parent(w), Last(p), r), p, w.ids)

\* ... and those that set something at the leaf, or nothing that marks it dirty.
set_at(s, p, v) == LET w == descend(s, p) IN ascend(set_val(w.s, Last(w.ids), v), p, w.ids)

touch_at(s, p) == LET w == descend(s, p) IN ascend(w.s, p, w.ids)

-----------------------------------------------------------------------------
(* The operations *)

Up == phase = "up"
Kind(p) == IF p \in DOMAIN tree THEN tree[p].kind ELSE "none"
Room == Cardinality(DOMAIN tree) <= MaxNodes
MayMake(p) == p # <<>> /\ Kind(Front(p)) = "dir" /\ Kind(p) = "none" /\ Room

fs_mkfs ==
    /\ phase = "down" /\ head = Nil
    /\ \E s \in {bn_flush([Now EXCEPT !.obj = Put(Empty, Root, Object(NewNode("dir", 0), Nil, TRUE))],
                          Root)} :
         Done(s, s.obj[Root].ref)
    /\ UNCHANGED linked

\* The root object is the file system's own and not in the cache.
fs_mount ==
    /\ phase \in {"down", "crashed"} /\ head # Nil
    /\ Done([Now EXCEPT !.obj = Put(Empty, Root, Object(disk[head], head, FALSE))], head)
    /\ UNCHANGED linked

fs_umount ==
    /\ Up
    /\ \E s \in {bn_flush(Now, Root)} :
         /\ phase' = IF s.ub THEN "ub" ELSE "down"
         /\ Stop(s.disk, IF s.ub THEN head ELSE s.obj[Root].ref)
    /\ UNCHANGED linked

Crash ==
    /\ phase \in {"up", "ub"}
    /\ phase' = "crashed" /\ Stop(disk, head)
    /\ UNCHANGED linked

fs_sync ==
    /\ Up /\ obj[Root].dirty
    /\ \E s \in {bn_flush(Now, Root)} : Done(s, IF s.ub THEN head ELSE s.obj[Root].ref)
    /\ UNCHANGED linked

\* What only reads walks with the read lock first, which is enough if nothing changes,
\* and if something has to be loaded again with the write lock.
Walked(s) == IF s = Now THEN UNCHANGED vars ELSE Done(s, head) /\ UNCHANGED linked
Walk(p) == \E w \in {descend(Now, p)} : Walked(w.s)

fs_getattr(p)  == Up /\ Walk(p)
fs_readlink(p) == Up /\ Kind(p) = "leaf" /\ Walk(p)
fs_read(p)     == Up /\ Kind(p) = "leaf" /\ Walk(p)
fs_readdir(p)  == Up /\ Kind(p) = "dir" /\ Walk(p)
fs_access(p)   == Up /\ Walk(p)

\* The parent looks the name up again.
fs_open(p) ==
    /\ Up /\ Kind(p) = "leaf"
    /\ \E w \in {descend(Now, p)} : Walked(lookup(w.s, Parent(w), Last(p)).s)

fs_mknod(p) ==
    /\ Up /\ MayMake(p)
    /\ Done(make_at(Now, p, NewNode("leaf", 0)), head)
    /\ UNCHANGED linked

fs_mkdir(p) ==
    /\ Up /\ MayMake(p)
    /\ Done(make_at(Now, p, NewNode("dir", 0)), head)
    /\ UNCHANGED linked

\* The value is the path it stands for.
fs_symlink(p, v) ==
    /\ Up /\ MayMake(p)
    /\ Done(make_at(Now, p, NewNode("leaf", v)), head)
    /\ UNCHANGED linked

fs_unlink(p) ==
    /\ Up /\ Kind(p) = "leaf"
    /\ Done(unlink_at(Now, p), head)
    /\ UNCHANGED linked

fs_rmdir(p) ==
    /\ Up /\ p # <<>> /\ Kind(p) = "dir" /\ ~\E q \in DOMAIN tree \ {p} : IsPrefix(p, q)
    /\ Done(unlink_at(Now, p), head)
    /\ UNCHANGED linked

\* linksrc at p and linkdst at q, for fs_rename and fs_link.
relink(p, q) ==
    LET way == descend(Now, p)
        src == Parent(way)
        now == find_blkref(way.s, src, Last(p))
    IN  linkdst_at(now, q, RefIn(now.obj[src].node, Last(p)))

\* The kernel has looked both names up.  A directory that is not empty is replaced
\* like any other.
fs_rename(p, q) ==
    /\ Up /\ q # <<>> /\ ~IsPrefix(p, q) /\ ~IsPrefix(q, p)
    /\ Kind(p) # "none" /\ Kind(Front(q)) = "dir"
    /\ Kind(q) # "none" => (Kind(p) = "dir" <=> Kind(q) = "dir")
    /\ Kind(p) = "dir" => \A r \in DOMAIN tree :
         IsPrefix(p, r) => Len(q) + Len(r) - Len(p) <= MaxDepth
    /\ \E s \in {relink(p, q)} : Done(unlink_at(s, p), head)
    /\ UNCHANGED linked

fs_link(p, q) ==
    /\ Up /\ Kind(p) = "leaf" /\ MayMake(q)
    /\ Done(relink(p, q), head)
    /\ linked' = TRUE

\* fs_write, and fs_chmod, fs_chown and fs_truncate, which differ in what they set.
fs_write(p, v) ==
    /\ Up /\ p # <<>> /\ Kind(p) \in Changing
    /\ Done(set_at(Now, p, v), head)
    /\ UNCHANGED linked

\* The setters of the times mark nothing: a clean object goes into m_dirty.
fs_utime(p) ==
    /\ Up /\ Kind(p) # "none"
    /\ Done(touch_at(Now, p), head)
    /\ UNCHANGED linked

-----------------------------------------------------------------------------
Init ==
    /\ obj = Empty /\ cache = Empty /\ disk = Empty /\ head = Nil
    /\ phase = "down" /\ tree = Empty /\ durable = Empty /\ linked = FALSE

Next ==
    \/ fs_mkfs \/ fs_mount \/ fs_umount \/ Crash \/ fs_sync
    \/ \E p \in Paths : fs_mknod(p) \/ fs_mkdir(p) \/ \E v \in Values \ {0} : fs_symlink(p, v)
    \/ \E p \in DOMAIN tree :
         \/ fs_getattr(p) \/ fs_readlink(p) \/ fs_open(p) \/ fs_read(p) \/ fs_readdir(p)
         \/ fs_access(p) \/ fs_unlink(p) \/ fs_rmdir(p) \/ fs_utime(p)
         \/ \E v \in Values : fs_write(p, v)
         \/ \E q \in Paths \ {<<>>} : fs_rename(p, q) \/ fs_link(p, q)

Spec == Init /\ [][Next]_vars

\* Bound: behaviours are not followed beyond the first hard link.
LinkFree == ~linked

-----------------------------------------------------------------------------
(* Properties *)

Promise == INSTANCE NameTree WITH
    tree <- IF linked THEN Nil ELSE tree,
    durable <- IF linked THEN Nil ELSE durable,
    mode <- CASE linked -> "linked"
              [] ~linked /\ phase = "up" -> "on"
              [] ~linked /\ phase = "down" -> "off"
              [] OTHER -> "crashed"

\* With what sits in m_dirty, in the cache and in the store changing under every
\* operation, and flushes, crashes and mounts between them, a path leads to what was
\* put there: names are made, changed, moved and removed as asked and no other name
\* changes, a sync (DirNode::bn_flush) makes the whole tree durable, and a mount finds
\* what the last one published.
Implements == Promise!Spec

\* "The handle better already be in the list!" (BlockNodeCache::touch): as long as no
\* hard link was made, no lookup reaches an object whose place in the list is gone,
\* though a rename takes the object it moves out of the cache.
NoDanglingTouch == ~linked => phase # "ub"
=============================================================================
