------------------------------ MODULE HeadGraph ------------------------------
(***************************************************************************)
(* The graph of file-system heads every block store keeps in memory:       *)
(* libutp/src/LameHeadNodeGraph.cpp.                                       *)
(*                                                                         *)
(* A head node is a pair <<fstag, ref>>; an edge says that the head root   *)
(* supersedes the head prev.  insert_head adds edges in whatever order the *)
(* stores receive them; head_follow_async and head_furthest_async walk the *)
(* graph.  The three run under m_lhnmutex, except that a walk releases the *)
(* mutex before it makes its callbacks: the walk's loop is modelled one    *)
(* iteration per step, with the mutex held from StartWalk to EndWalk, and  *)
(* the callbacks are the step Report.                                      *)
(***************************************************************************)
EXTENDS FiniteSets

CONSTANTS
    Tags,       \* file-system tags (HeadNode::first)
    Refs,       \* encrypted root references (HeadNode::second)
    NoRef,      \* the empty reference
    Offered,    \* the edges the clients of the store may insert
    Walkers     \* the threads that walk the graph

HeadNode == Tags \X (Refs \cup {NoRef})

\* LameEdge: both ends carry the tag of the one HeadEdge they are parsed from.
LameEdge == {e \in [prev : HeadNode, root : HeadNode] : e.prev[1] = e.root[1]}

ASSUME HeadGraphAssumption ==
    /\ Tags # {}
    /\ NoRef \notin Refs
    /\ Offered \subseteq LameEdge

VARIABLES
    m_prevmap,  \* multimap from prev to edge, as the set of its edges
    m_rootmap,  \* multimap from root to edge, as the set of its edges
    m_roots,    \* HeadNodeSet: the nodes where walks without a seed begin
    walk,       \* the walk each thread is making
    inserted    \* history: the edges insert_head has returned from normally

graph == <<m_prevmap, m_rootmap, m_roots, inserted>>
vars == <<m_prevmap, m_rootmap, m_roots, walk, inserted>>

NoWalk == [phase |-> "idle", op |-> "none", hn |-> CHOOSE n \in HeadNode : TRUE,
           seeds |-> {}, found |-> {}]

Walk == [phase : {"idle", "expand", "report", "threw"},
         op : {"none", "follow", "furthest"},
         hn : HeadNode,
         seeds : SUBSET HeadNode,
         found : SUBSET LameEdge]

TypeOK ==
    /\ m_prevmap \subseteq LameEdge
    /\ m_rootmap \subseteq LameEdge
    /\ m_roots \subseteq HeadNode
    /\ inserted \subseteq Offered
    /\ walk \in [Walkers -> Walk]

-----------------------------------------------------------------------------
(* Reading the maps. *)

InPrevmap(n) == \E e \in m_prevmap : e.prev = n
InRootmap(n) == \E e \in m_rootmap : e.root = n

\* The edges m_prevmap holds for n, and the nodes they lead to.
EdgesOf(n) == {e \in m_prevmap : e.prev = n}
Kids(n) == {e.root : e \in EdgesOf(n)}

\* The mutex: a thread in the loop of a walk holds it.
Locked == \E w \in Walkers : walk[w].phase = "expand"

-----------------------------------------------------------------------------
(* insert_head *)

\* "Do we already have this edge?": the two ends are looked up one by one.
AlreadyHave(e) == InPrevmap(e.prev) /\ InRootmap(e.root)

\* Mutant: the root set keeps a node that turns out to have a predecessor.
RootsKeepRoot(e) ==
    IF \E f \in m_rootmap \cup {e} : f.root = e.prev
    THEN m_roots
    ELSE m_roots \cup {e.prev}

\* m_roots after e has been put into both maps.
RootsAfter(e) ==
    IF \E f \in m_rootmap \cup {e} : f.root = e.prev
    THEN m_roots \ {e.root}
    ELSE (m_roots \ {e.root}) \cup {e.prev}

\* Mutant: an edge that is new at one end only is taken for a known one.
insert_head_eager(e) ==
    /\ ~Locked
    /\ e.prev # e.root
    /\ inserted' = inserted \cup {e}
    /\ IF InPrevmap(e.prev) \/ InRootmap(e.root)
       THEN UNCHANGED <<m_prevmap, m_rootmap, m_roots>>
       ELSE /\ m_prevmap' = m_prevmap \cup {e}
            /\ m_rootmap' = m_rootmap \cup {e}
            /\ m_roots' = RootsAfter(e)
    /\ UNCHANGED walk

\* A self-loop is refused with InternalError before anything changes.
insert_head(e) ==
    /\ ~Locked
    /\ e.prev # e.root
    /\ inserted' = inserted \cup {e}
    /\ IF AlreadyHave(e)
       THEN UNCHANGED <<m_prevmap, m_rootmap, m_roots>>
       ELSE /\ m_prevmap' = m_prevmap \cup {e}
            /\ m_rootmap' = m_rootmap \cup {e}
            /\ m_roots' = RootsAfter(e)
    /\ UNCHANGED walk

-----------------------------------------------------------------------------
(* head_follow_async and head_furthest_async *)

RootsOfTag(hn) == {n \in m_roots : n[1] = hn[1]}

\* Mutant: the seed is taken as it is, without looking it up.
SeedsUnchecked(hn) == IF hn[2] = NoRef THEN RootsOfTag(hn) ELSE {hn}

\* "Expand the seeds".
Seeds(hn) ==
    IF hn[2] = NoRef THEN RootsOfTag(hn)
    ELSE IF InRootmap(hn) THEN {hn} ELSE Kids(hn)

\* Mutant: the edges from a seed that only occurs as a predecessor are missed.
SeedEdgesNone(op, hn) == {}

\* The edges already found while the seeds were expanded: a follow reports the
\* edges to the children that stand in for a seed that is not in m_rootmap.
SeedEdges(op, hn) ==
    IF op = "follow" /\ hn[2] # NoRef /\ ~InRootmap(hn) THEN EdgesOf(hn) ELSE {}

StartWalk(w, op, hn) ==
    /\ ~Locked
    /\ walk[w].phase = "idle"
    /\ walk' = [walk EXCEPT ![w] = [phase |-> "expand", op |-> op, hn |-> hn,
                                    seeds |-> Seeds(hn),
                                    found |-> SeedEdges(op, hn)]]
    /\ UNCHANGED graph

HasKids(w) == {n \in walk[w].seeds : Kids(n) # {}}

\* Mutant: the parent stays among the seeds.
ExpandKeepParent(w) ==
    /\ walk[w].phase = "expand"
    /\ \E n \in HasKids(w) :
         walk' = [walk EXCEPT
           ![w].seeds = @ \cup Kids(n),
           ![w].found = IF walk[w].op = "follow" THEN @ \cup EdgesOf(n) ELSE @]
    /\ UNCHANGED graph

\* Mutant: only one of the children replaces its parent.
ExpandOneKid(w) ==
    /\ walk[w].phase = "expand"
    /\ \E n \in HasKids(w) : \E e \in EdgesOf(n) :
         walk' = [walk EXCEPT
           ![w].seeds = (@ \ {n}) \cup {e.root},
           ![w].found = IF walk[w].op = "follow" THEN @ \cup {e} ELSE @]
    /\ UNCHANGED graph

\* One round of "Replace elements of the seed set w/ their children".  Which
\* seed comes first depends on the order of the references, which are digests:
\* any may.
Expand(w) ==
    /\ walk[w].phase = "expand"
    /\ \E n \in HasKids(w) :
         walk' = [walk EXCEPT
           ![w].seeds = (@ \ {n}) \cup Kids(n),
           ![w].found = IF walk[w].op = "follow" THEN @ \cup EdgesOf(n) ELSE @]
    /\ UNCHANGED graph

\* The loop ends.  A furthest then looks every remaining node up in m_rootmap,
\* and throws InternalError "missing rootmap entry" if one is not there.
EndWalk(w) ==
    /\ walk[w].phase = "expand"
    /\ HasKids(w) = {}
    /\ walk' = [walk EXCEPT ![w].phase =
                  IF /\ walk[w].op = "furthest"
                     /\ \E n \in walk[w].seeds : ~InRootmap(n)
                  THEN "threw" ELSE "report"]
    /\ UNCHANGED graph

\* The callbacks, made without the mutex.
Report(w) ==
    /\ walk[w].phase \in {"report", "threw"}
    /\ walk' = [walk EXCEPT ![w] = NoWalk]
    /\ UNCHANGED graph

-----------------------------------------------------------------------------
Init ==
    /\ m_prevmap = {}
    /\ m_rootmap = {}
    /\ m_roots = {}
    /\ inserted = {}
    /\ walk = [w \in Walkers |-> NoWalk]

Next ==
    \/ \E e \in Offered : insert_head(e)
    \/ \E w \in Walkers :
         \/ \E op \in {"follow", "furthest"}, hn \in HeadNode : StartWalk(w, op, hn)
         \/ Expand(w)
         \/ EndWalk(w)
         \/ Report(w)

Spec == Init /\ [][Next]_vars

\* A thread inside a walk keeps running: nothing in the loop or in the
\* callbacks waits for another thread.
FairSpec == Spec /\ \A w \in Walkers : WF_vars(Expand(w) \/ EndWalk(w) \/ Report(w))

-----------------------------------------------------------------------------
(* Reference definitions: reachability as the least closed set. *)

Closed(S) == \A e \in m_prevmap : e.prev \in S => e.root \in S

Reach(S) == {n \in HeadNode : \A T \in SUBSET HeadNode : S \subseteq T /\ Closed(T) => n \in T}

EdgesFrom(S) == {e \in m_prevmap : e.prev \in S}

\* The heads nothing supersedes.
Leaves == {n \in HeadNode : InRootmap(n) /\ ~InPrevmap(n)}

\* No chain of edges goes back for ever: each root block refers to the one before it,
\* whose digest had to be known.
Grounded ==
    \A S \in (SUBSET HeadNode) \ {{}} :
        \E n \in S : \A e \in Offered : e.root = n => e.prev \notin S

\* The walk of w has come to the end of its loop and still holds the mutex.
LoopDone(w) == walk[w].phase = "expand" /\ HasKids(w) = {}

\* The nodes a walk from hn has to begin with.
Origin(hn) == IF hn[2] = NoRef THEN RootsOfTag(hn) ELSE {hn}

-----------------------------------------------------------------------------
(* Properties *)

\* However the edges arrive, insert_head keeps both maps in step and m_roots
\* exactly the nodes that have a successor and no predecessor.
RootsExact ==
    /\ m_prevmap = m_rootmap
    /\ m_roots = {n \in HeadNode : InPrevmap(n) /\ ~InRootmap(n)}

\* head_furthest_async never throws InternalError "missing rootmap entry".
NoMissingRootmap == \A w \in Walkers : walk[w].phase # "threw"

\* head_furthest_async reports exactly the leaves that can be reached from its
\* seed, in whichever order the loop replaced the seeds.
FurthestExact ==
    \A w \in Walkers :
        LoopDone(w) /\ walk[w].op = "furthest" =>
            walk[w].seeds = Reach(Origin(walk[w].hn)) \cap Leaves

\* head_follow_async reports exactly the edges the graph holds at or after its
\* seed, in whichever order the loop replaced the seeds.
FollowExact ==
    \A w \in Walkers :
        LoopDone(w) /\ walk[w].op = "follow" =>
            walk[w].found = EdgesFrom(Reach(Origin(walk[w].hn)))

\* What UTFileSystem::rootref asks at mount time, the furthest nodes of a file
\* system with no reference given, is answered with every head that was inserted
\* and not superseded by an inserted edge of that file system, and with nothing
\* else - although insert_head drops some of the edges it is given.
HeadsExact ==
    \A w \in Walkers :
        LoopDone(w) /\ walk[w].op = "furthest" /\ walk[w].hn[2] = NoRef =>
            walk[w].seeds = {n \in HeadNode :
                                /\ n[1] = walk[w].hn[1]
                                /\ \E e \in inserted : e.root = n
                                /\ \A e \in inserted : e.prev # n}

\* Every walk comes to its callbacks: the loop that replaces seeds by their
\* children terminates on the graphs the file systems produce.
WalkEnds ==
    \A w \in Walkers : walk[w].phase = "expand" ~> walk[w].phase \in {"report", "threw"}
=============================================================================
