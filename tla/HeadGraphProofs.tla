-------------------------- MODULE HeadGraphProofs --------------------------
(***************************************************************************)
(* Theorems about HeadGraph, for every set of tags, references, offered    *)
(* edges and walkers; only the last needs that edges do not go in circles. *)
(*                                                                         *)
(* The inductive invariant adds to the type invariant and to RootsExact:   *)
(* at most one walk is in its loop (the mutex), its seeds are nodes of the *)
(* graph, and what it has found together with what its seeds still reach   *)
(* is what its origin reaches.  Since the graph cannot change while the    *)
(* mutex is held, that sum is the loop's invariant.                        *)
(***************************************************************************)
EXTENDS HeadGraph, TLAPS

KnownNodes == {n \in HeadNode : InPrevmap(n) \/ InRootmap(n)}

\* The loop invariant of the walk of w.
LoopInv(w) ==
    walk[w].phase = "expand" =>
        /\ walk[w].op \in {"follow", "furthest"}
        /\ walk[w].seeds \subseteq KnownNodes
        /\ walk[w].op = "furthest" =>
              Reach(walk[w].seeds) \cap Leaves = Reach(Origin(walk[w].hn)) \cap Leaves
        /\ walk[w].op = "follow" =>
              walk[w].found \cup EdgesFrom(Reach(walk[w].seeds))
                = EdgesFrom(Reach(Origin(walk[w].hn)))

Mutex ==
    \A v, w \in Walkers :
        walk[v].phase = "expand" /\ walk[w].phase = "expand" => v = w

IndInv ==
    /\ TypeOK
    /\ RootsExact
    /\ Mutex
    /\ \A w \in Walkers : LoopInv(w)
    /\ NoMissingRootmap

-----------------------------------------------------------------------------
(* Reachability *)

\* A set of nodes is part of what it reaches.
LEMMA ReachContains ==
    ASSUME NEW S \in SUBSET HeadNode
    PROVE  S \subseteq Reach(S)
BY DEF Reach

\* Nothing lies beyond a closed set.
LEMMA ReachClosed ==
    ASSUME NEW S \in SUBSET HeadNode, Closed(S)
    PROVE  Reach(S) = S
BY ReachContains DEF Reach

\* Replacing a node by its children loses nothing but the node itself.
LEMMA ReachExpand ==
    ASSUME TypeOK, NEW S \in SUBSET HeadNode, NEW n \in S
    PROVE  Reach(S) = {n} \cup Reach((S \ {n}) \cup Kids(n))
<1> DEFINE R == (S \ {n}) \cup Kids(n)
<1>0. Kids(n) \subseteq HeadNode
  BY DEF TypeOK, Kids, EdgesOf, LameEdge
<1>1. ASSUME NEW m \in Reach(R) PROVE m \in Reach(S)
  <2> SUFFICES ASSUME NEW T \in SUBSET HeadNode, S \subseteq T, Closed(T) PROVE m \in T
    BY <1>1 DEF Reach
  <2>1. Kids(n) \subseteq T
    BY DEF Closed, Kids, EdgesOf
  <2> QED BY <1>1, <2>1 DEF Reach
<1>2. ASSUME NEW m \in Reach(S), m # n PROVE m \in Reach(R)
  <2> SUFFICES ASSUME NEW T \in SUBSET HeadNode, R \subseteq T, Closed(T) PROVE m \in T
    BY <1>2 DEF Reach
  <2>1. Closed(T \cup {n})
    BY DEF Closed, Kids, EdgesOf
  <2>2. S \subseteq T \cup {n} /\ T \cup {n} \in SUBSET HeadNode
    OBVIOUS
  <2>3. m \in T \cup {n}
    BY <2>1, <2>2, <1>2 DEF Reach
  <2> QED BY <2>3, <1>2
<1>3. n \in Reach(S)
  BY ReachContains
<1> QED BY <1>1, <1>2, <1>3

\* One round of the loop keeps what a furthest and a follow are after.
LEMMA ExpandKeeps ==
    ASSUME TypeOK, NEW S \in SUBSET HeadNode, NEW n \in S, Kids(n) # {}
    PROVE  LET R == (S \ {n}) \cup Kids(n)
           IN  /\ Reach(R) \cap Leaves = Reach(S) \cap Leaves
               /\ EdgesOf(n) \cup EdgesFrom(Reach(R)) = EdgesFrom(Reach(S))
<1> DEFINE R == (S \ {n}) \cup Kids(n)
<1>1. Reach(S) = {n} \cup Reach(R)
  BY ReachExpand
<1>2. n \notin Leaves
  BY DEF Leaves, InPrevmap, Kids, EdgesOf
<1>3. Reach(R) \cap Leaves = Reach(S) \cap Leaves
  BY <1>1, <1>2
<1>4. EdgesOf(n) \cup EdgesFrom(Reach(R)) = EdgesFrom(Reach(S))
  BY <1>1 DEF EdgesOf, EdgesFrom
<1> QED BY <1>3, <1>4

\* A walk begins with its loop invariant.
LEMMA StartKeeps ==
    ASSUME TypeOK, RootsExact, NEW hn \in HeadNode
    PROVE  /\ Seeds(hn) \subseteq KnownNodes
           /\ Reach(Seeds(hn)) \cap Leaves = Reach(Origin(hn)) \cap Leaves
           /\ SeedEdges("follow", hn) \cup EdgesFrom(Reach(Seeds(hn)))
                = EdgesFrom(Reach(Origin(hn)))
<1>0. Kids(hn) \subseteq KnownNodes
  BY DEF TypeOK, RootsExact, KnownNodes, InRootmap, Kids, EdgesOf, LameEdge
<1>1. CASE hn[2] = NoRef
  <2>1. Seeds(hn) = Origin(hn) /\ SeedEdges("follow", hn) = {}
    BY <1>1 DEF Seeds, Origin, SeedEdges
  <2>2. Seeds(hn) \subseteq KnownNodes
    BY <1>1 DEF Seeds, RootsOfTag, RootsExact, KnownNodes
  <2> QED BY <2>1, <2>2
<1>2. CASE hn[2] # NoRef /\ InRootmap(hn)
  <2>1. Seeds(hn) = {hn} /\ Origin(hn) = {hn} /\ SeedEdges("follow", hn) = {}
    BY <1>2 DEF Seeds, Origin, SeedEdges
  <2>2. Seeds(hn) \subseteq KnownNodes
    BY <1>2, <2>1 DEF KnownNodes
  <2> QED BY <2>1, <2>2
<1>3. CASE hn[2] # NoRef /\ ~InRootmap(hn)
  <2>1. /\ Seeds(hn) = Kids(hn) /\ Origin(hn) = {hn}
        /\ SeedEdges("follow", hn) = EdgesOf(hn)
    BY <1>3 DEF Seeds, Origin, SeedEdges
  <2>2. Reach({hn}) = {hn} \cup Reach(Kids(hn))
    <3>1. ({hn} \ {hn}) \cup Kids(hn) = Kids(hn)
      OBVIOUS
    <3> QED BY <3>1, ReachExpand
  <2>3. hn \notin Leaves
    BY <1>3 DEF Leaves
  <2>4. EdgesOf(hn) \cup EdgesFrom(Reach(Kids(hn))) = EdgesFrom(Reach({hn}))
    BY <2>2 DEF EdgesOf, EdgesFrom
  <2> QED BY <1>0, <2>1, <2>2, <2>3, <2>4
<1> QED BY <1>1, <1>2, <1>3

-----------------------------------------------------------------------------
(* The invariant *)

\* insert_head keeps the invariant: it runs only when no walk is in its loop.
LEMMA InsertKeeps ==
    ASSUME IndInv, NEW e \in Offered, insert_head(e)
    PROVE  IndInv'
<1>0. e \in LameEdge /\ e.prev \in HeadNode /\ e.root \in HeadNode
  BY HeadGraphAssumption DEF LameEdge
<1>1. TypeOK'
  BY <1>0 DEF IndInv, TypeOK, insert_head, RootsAfter
<1>2. RootsExact'
  <2>1. CASE AlreadyHave(e)
    BY <2>1 DEF IndInv, insert_head, RootsExact, InPrevmap, InRootmap
  <2>2. CASE ~AlreadyHave(e)
    <3>1. /\ m_prevmap' = m_prevmap \cup {e} /\ m_rootmap' = m_rootmap \cup {e}
          /\ m_roots' = RootsAfter(e)
      BY <2>2 DEF insert_head
    <3>2. m_prevmap' = m_rootmap'
      BY <3>1 DEF IndInv, RootsExact
    <3>3. ASSUME NEW n \in HeadNode
          PROVE  /\ InPrevmap(n)' <=> (InPrevmap(n) \/ n = e.prev)
                 /\ InRootmap(n)' <=> (InRootmap(n) \/ n = e.root)
      BY <3>1 DEF InPrevmap, InRootmap
    <3>4. (\E f \in m_rootmap \cup {e} : f.root = e.prev) <=> InRootmap(e.prev)'
      BY <3>1 DEF InRootmap
    <3>5. m_roots = {n \in HeadNode : InPrevmap(n) /\ ~InRootmap(n)}
      BY DEF IndInv, RootsExact
    <3>6. m_roots' = {n \in HeadNode : InPrevmap(n)' /\ ~InRootmap(n)'}
      BY <1>0, <3>1, <3>3, <3>4, <3>5 DEF RootsAfter
    <3> QED BY <3>2, <3>6 DEF RootsExact
  <2> QED BY <2>1, <2>2
<1>3. walk' = walk /\ \A w \in Walkers : walk[w].phase # "expand"
  BY DEF insert_head, Locked
<1>4. Mutex' /\ NoMissingRootmap' /\ \A w \in Walkers : LoopInv(w)'
  BY <1>3 DEF IndInv, Mutex, NoMissingRootmap, LoopInv
<1> QED BY <1>1, <1>2, <1>4 DEF IndInv

\* A step that leaves the graph alone and changes only the walk of w keeps the
\* invariant if it leaves the walk of w well-formed.
LEMMA WalkStepKeeps ==
    ASSUME IndInv, NEW w \in Walkers, NEW r \in Walk,
           UNCHANGED graph, walk' = [walk EXCEPT ![w] = r],
           r.phase = "expand" => \A v \in Walkers : v # w => walk[v].phase # "expand",
           r.phase # "threw",
           LoopInv(w)'
    PROVE  IndInv'
<1>1. TypeOK'
  BY DEF IndInv, TypeOK, graph
<1>2. RootsExact'
  BY DEF IndInv, RootsExact, graph, InPrevmap, InRootmap
<1>3. walk'[w] = r /\ \A v \in Walkers : v # w => walk'[v] = walk[v]
  BY DEF IndInv, TypeOK
<1>4. Mutex'
  BY <1>3 DEF IndInv, Mutex
<1>5. NoMissingRootmap'
  BY <1>3 DEF IndInv, NoMissingRootmap
<1>6. ASSUME NEW v \in Walkers, v # w PROVE LoopInv(v)'
  <2>1. walk'[v] = walk[v] /\ LoopInv(v)
    BY <1>3, <1>6 DEF IndInv
  <2>2. \A S : Reach(S)' = Reach(S)
    BY DEF graph, Reach, Closed
  <2>3. \A S : EdgesFrom(S)' = EdgesFrom(S)
    BY DEF graph, EdgesFrom
  <2>4. Leaves' = Leaves /\ KnownNodes' = KnownNodes
    BY DEF graph, Leaves, KnownNodes, InPrevmap, InRootmap
  <2>5. \A hn : Origin(hn)' = Origin(hn)
    BY DEF graph, Origin, RootsOfTag
  <2> QED BY <2>1, <2>2, <2>3, <2>4, <2>5 DEF LoopInv
<1> QED BY <1>1, <1>2, <1>4, <1>5, <1>6 DEF IndInv

\* A walk begins with seeds that reach what its origin reaches.
LEMMA StartWalkKeeps ==
    ASSUME IndInv, NEW w \in Walkers, NEW op \in {"follow", "furthest"},
           NEW hn \in HeadNode, StartWalk(w, op, hn)
    PROVE  IndInv'
<1> DEFINE r == [phase |-> "expand", op |-> op, hn |-> hn,
                 seeds |-> Seeds(hn), found |-> SeedEdges(op, hn)]
<1>0. TypeOK /\ RootsExact
  BY DEF IndInv
<1>1. Seeds(hn) \subseteq HeadNode /\ SeedEdges(op, hn) \subseteq LameEdge
  BY <1>0, StartKeeps DEF KnownNodes, TypeOK, SeedEdges, EdgesOf
<1>2. r \in Walk
  BY <1>1 DEF Walk
<1>3. UNCHANGED graph /\ walk' = [walk EXCEPT ![w] = r]
  BY DEF StartWalk
<1>4. \A v \in Walkers : walk[v].phase # "expand"
  BY DEF StartWalk, Locked
<1>5. walk'[w] = r
  BY <1>0, <1>3 DEF TypeOK
<1>6. LoopInv(w)'
  <2>1. /\ r.seeds \subseteq KnownNodes
        /\ op = "furthest" => Reach(r.seeds) \cap Leaves = Reach(Origin(hn)) \cap Leaves
        /\ op = "follow" => r.found \cup EdgesFrom(Reach(r.seeds))
                               = EdgesFrom(Reach(Origin(hn)))
    BY <1>0, StartKeeps
  <2>2. r.op = op /\ r.hn = hn
    OBVIOUS
  <2> QED BY <1>3, <1>5, <2>1, <2>2
          DEF LoopInv, graph, Reach, Closed, EdgesFrom, Leaves, KnownNodes,
              InPrevmap, InRootmap, Origin, RootsOfTag
<1> HIDE DEF r
<1>7. r.phase = "expand"
  BY DEF r
<1> QED BY <1>2, <1>3, <1>4, <1>6, <1>7, WalkStepKeeps

\* One round of the loop, in which a seed is replaced by its children.
LEMMA ExpandWalkKeeps ==
    ASSUME IndInv, NEW w \in Walkers, Expand(w)
    PROVE  IndInv'
<1>0. TypeOK /\ RootsExact /\ LoopInv(w) /\ Mutex
  BY DEF IndInv
<1>1. walk[w] \in Walk /\ walk[w].phase = "expand"
  BY <1>0 DEF TypeOK, Expand
<1>2. PICK n \in HasKids(w) :
         walk' = [walk EXCEPT
           ![w].seeds = (@ \ {n}) \cup Kids(n),
           ![w].found = IF walk[w].op = "follow" THEN @ \cup EdgesOf(n) ELSE @]
  BY DEF Expand
<1> DEFINE S == walk[w].seeds
           R == (S \ {n}) \cup Kids(n)
           F == IF walk[w].op = "follow" THEN walk[w].found \cup EdgesOf(n)
                                         ELSE walk[w].found
           r == [walk[w] EXCEPT !.seeds = R, !.found = F]
<1>3. n \in S /\ Kids(n) # {} /\ S \in SUBSET HeadNode
  BY <1>1 DEF HasKids, Walk
<1>4. Kids(n) \subseteq KnownNodes /\ EdgesOf(n) \subseteq LameEdge
  BY <1>0 DEF TypeOK, RootsExact, KnownNodes, InRootmap, Kids, EdgesOf, LameEdge
<1>5. r \in Walk
  BY <1>1, <1>3, <1>4 DEF Walk, KnownNodes
<1>6. UNCHANGED graph /\ walk' = [walk EXCEPT ![w] = r]
  BY <1>0, <1>1, <1>2 DEF Expand, TypeOK, Walk
<1>7. walk'[w] = r
  BY <1>0, <1>6 DEF TypeOK
<1>8. /\ r.phase = "expand" /\ r.op = walk[w].op /\ r.hn = walk[w].hn
      /\ r.seeds = R /\ r.found = F
  BY <1>1 DEF Walk
<1>9. /\ r.op \in {"follow", "furthest"}
      /\ r.seeds \subseteq KnownNodes
      /\ r.op = "furthest" => Reach(r.seeds) \cap Leaves = Reach(Origin(r.hn)) \cap Leaves
      /\ r.op = "follow" => r.found \cup EdgesFrom(Reach(r.seeds))
                              = EdgesFrom(Reach(Origin(r.hn)))
  <2>1. /\ Reach(R) \cap Leaves = Reach(S) \cap Leaves
        /\ EdgesOf(n) \cup EdgesFrom(Reach(R)) = EdgesFrom(Reach(S))
    BY <1>0, <1>3, ExpandKeeps
  <2> QED BY <1>0, <1>1, <1>4, <1>8, <2>1 DEF LoopInv
<1> HIDE DEF r
<1>10. LoopInv(w)'
  BY <1>6, <1>7, <1>9 DEF LoopInv, graph, Reach, Closed, EdgesFrom, Leaves, KnownNodes,
              InPrevmap, InRootmap, Origin, RootsOfTag
<1>11. \A v \in Walkers : v # w => walk[v].phase # "expand"
  BY <1>0, <1>1 DEF Mutex
<1> QED BY <1>5, <1>6, <1>8, <1>10, <1>11, WalkStepKeeps

\* At the end of the loop every seed is a leaf, and nothing lies beyond it.
LEMMA LoopEnd ==
    ASSUME IndInv, NEW w \in Walkers, LoopDone(w)
    PROVE  /\ walk[w].seeds \subseteq Leaves
           /\ Reach(walk[w].seeds) = walk[w].seeds
           /\ EdgesFrom(Reach(walk[w].seeds)) = {}
<1> DEFINE S == walk[w].seeds
<1>1. S \in SUBSET HeadNode /\ S \subseteq KnownNodes
  BY DEF IndInv, TypeOK, Walk, LoopInv, LoopDone
<1>2. \A n \in S : EdgesOf(n) = {}
  BY DEF LoopDone, HasKids, Kids
<1>3. EdgesFrom(S) = {} /\ \A n \in S : ~InPrevmap(n)
  BY <1>2 DEF EdgesFrom, EdgesOf, InPrevmap
<1>4. S \subseteq Leaves
  BY <1>1, <1>3 DEF Leaves, KnownNodes
<1>5. Reach(S) = S
  <2>1. Closed(S)
    BY <1>3 DEF Closed, EdgesFrom
  <2> QED BY <1>1, <2>1, ReachClosed
<1> QED BY <1>3, <1>4, <1>5

\* The loop ends with nothing but leaves to expand.
LEMMA EndWalkKeeps ==
    ASSUME IndInv, NEW w \in Walkers, EndWalk(w)
    PROVE  IndInv'
<1> DEFINE r == [walk[w] EXCEPT !.phase = "report"]
<1>0. walk \in [Walkers -> Walk]
  BY DEF IndInv, TypeOK
<1>1. walk[w].seeds \subseteq Leaves
  BY LoopEnd DEF LoopDone, EndWalk
<1>2. UNCHANGED graph /\ walk' = [walk EXCEPT ![w] = r]
  BY <1>0, <1>1 DEF EndWalk, Leaves
<1>3. r \in Walk /\ r.phase = "report"
  BY <1>0 DEF Walk
<1>4. walk'[w] = r
  BY <1>0, <1>2
<1> HIDE DEF r
<1>5. LoopInv(w)'
  BY <1>3, <1>4 DEF LoopInv
<1> QED BY <1>2, <1>3, <1>5, WalkStepKeeps

\* The answer is handed over and the walker is free again.
LEMMA ReportKeeps ==
    ASSUME IndInv, NEW w \in Walkers, Report(w)
    PROVE  IndInv'
<1>0. walk \in [Walkers -> Walk]
  BY DEF IndInv, TypeOK
<1>1. walk[w].hn \in HeadNode
  BY <1>0 DEF Walk
<1>2. NoWalk \in Walk /\ NoWalk.phase = "idle"
  BY <1>1 DEF NoWalk, Walk
<1>3. UNCHANGED graph /\ walk' = [walk EXCEPT ![w] = NoWalk]
  BY DEF Report
<1>4. walk'[w] = NoWalk
  BY <1>0, <1>3
<1>5. LoopInv(w)'
  BY <1>2, <1>4 DEF LoopInv
<1> QED BY <1>2, <1>3, <1>5, WalkStepKeeps

\* IndInv is an invariant of LameHeadNodeGraph, whatever edges are inserted.
THEOREM Invariance == Spec => []IndInv
<1>1. Init => IndInv
  <2> SUFFICES ASSUME Init PROVE IndInv
    OBVIOUS
  <2>0. HeadNode # {}
    <3>1. PICK t \in Tags : TRUE
      BY HeadGraphAssumption
    <3>2. <<t, NoRef>> \in HeadNode
      BY DEF HeadNode
    <3> QED BY <3>2
  <2>1. NoWalk \in Walk /\ NoWalk.phase = "idle"
    BY <2>0 DEF NoWalk, Walk
  <2>2. \A w \in Walkers : walk[w] = NoWalk
    BY DEF Init
  <2>3. TypeOK
    BY <2>1 DEF Init, TypeOK
  <2>4. RootsExact
    BY DEF Init, RootsExact, InPrevmap
  <2> QED BY <2>1, <2>2, <2>3, <2>4 DEF IndInv, Mutex, LoopInv, NoMissingRootmap
<1>2. IndInv /\ [Next]_vars => IndInv'
  <2> SUFFICES ASSUME IndInv, [Next]_vars PROVE IndInv'
    OBVIOUS
  <2>1. ASSUME NEW e \in Offered, insert_head(e) PROVE IndInv'
    BY <2>1, InsertKeeps
  <2>2. ASSUME NEW w \in Walkers, NEW op \in {"follow", "furthest"}, NEW hn \in HeadNode,
               StartWalk(w, op, hn)
        PROVE  IndInv'
    BY <2>2, StartWalkKeeps
  <2>3. ASSUME NEW w \in Walkers, Expand(w) PROVE IndInv'
    BY <2>3, ExpandWalkKeeps
  <2>4. ASSUME NEW w \in Walkers, EndWalk(w) PROVE IndInv'
    BY <2>4, EndWalkKeeps
  <2>5. ASSUME NEW w \in Walkers, Report(w) PROVE IndInv'
    BY <2>5, ReportKeeps
  <2>6. CASE UNCHANGED vars
    BY <2>6 DEF vars, IndInv, TypeOK, RootsExact, Mutex, LoopInv, NoMissingRootmap,
                Reach, Closed, EdgesFrom, Leaves, KnownNodes, InPrevmap, InRootmap,
                Origin, RootsOfTag
  <2> QED BY <2>1, <2>2, <2>3, <2>4, <2>5, <2>6 DEF Next
<1> QED BY <1>1, <1>2, PTL DEF Spec

-----------------------------------------------------------------------------
(* The results *)

\* insert_head keeps m_prevmap and m_rootmap in step and m_roots exactly the
\* nodes with a successor and no predecessor, in every order of arrival.
THEOREM RootsExactHolds == Spec => [](TypeOK /\ RootsExact)
BY Invariance, PTL DEF IndInv

\* head_furthest_async never throws "missing rootmap entry".
THEOREM NoMissingRootmapHolds == Spec => []NoMissingRootmap
BY Invariance, PTL DEF IndInv

\* When the loop of head_furthest_async ends, the nodes it will report are
\* exactly the leaves its seed reaches: the loop is partially correct on every
\* graph and for every order of replacement.
THEOREM FurthestExactHolds == Spec => []FurthestExact
<1>1. IndInv => FurthestExact
  <2> SUFFICES ASSUME IndInv, NEW w \in Walkers, LoopDone(w), walk[w].op = "furthest"
               PROVE  walk[w].seeds = Reach(Origin(walk[w].hn)) \cap Leaves
    BY DEF FurthestExact
  <2>1. LoopInv(w) /\ walk[w].phase = "expand"
    BY DEF IndInv, LoopDone
  <2> QED BY <2>1, LoopEnd DEF LoopInv
<1> QED BY <1>1, Invariance, PTL

\* When the loop of head_follow_async ends, the edges it will report are
\* exactly those the graph holds at or after its seed.
THEOREM FollowExactHolds == Spec => []FollowExact
<1>1. IndInv => FollowExact
  <2> SUFFICES ASSUME IndInv, NEW w \in Walkers, LoopDone(w), walk[w].op = "follow"
               PROVE  walk[w].found = EdgesFrom(Reach(Origin(walk[w].hn)))
    BY DEF FollowExact
  <2>1. LoopInv(w) /\ walk[w].phase = "expand"
    BY DEF IndInv, LoopDone
  <2> QED BY <2>1, LoopEnd DEF LoopInv
<1> QED BY <1>1, Invariance, PTL

-----------------------------------------------------------------------------
(* The heads of a file system *)

\* The edges that insert_head dropped have each end in common with one it kept.
EndsKept ==
    /\ m_prevmap \subseteq inserted
    /\ \A e \in inserted : InPrevmap(e.prev) /\ InRootmap(e.root)

\* insert_head puts an edge in the maps or finds both of its ends there.
LEMMA EndsKeptStep ==
    ASSUME IndInv, EndsKept, [Next]_vars
    PROVE  EndsKept'
<1>1. ASSUME NEW e \in Offered, insert_head(e) PROVE EndsKept'
  <2>1. CASE AlreadyHave(e)
    BY <1>1, <2>1 DEF insert_head, AlreadyHave, EndsKept, InPrevmap, InRootmap
  <2>2. CASE ~AlreadyHave(e)
    BY <1>1, <2>2 DEF insert_head, EndsKept, InPrevmap, InRootmap
  <2> QED BY <2>1, <2>2
<1>2. CASE UNCHANGED graph
  BY <1>2 DEF graph, EndsKept, InPrevmap, InRootmap
<1> QED BY <1>1, <1>2 DEF Next, StartWalk, Expand, EndWalk, Report, vars, graph

\* Going back from a node one comes to a root of its file system.
LEMMA ReachedFromRoots ==
    ASSUME Grounded, IndInv, EndsKept, NEW hn \in HeadNode, NEW n \in KnownNodes, n[1] = hn[1]
    PROVE  n \in Reach(RootsOfTag(hn))
<1> DEFINE R == Reach(RootsOfTag(hn))
           S == {m \in KnownNodes : m[1] = hn[1] /\ m \notin R}
<1> SUFFICES ASSUME S # {} PROVE FALSE
  OBVIOUS
<1>1. S \in (SUBSET HeadNode) \ {{}}
  BY DEF KnownNodes
<1>2. PICK m \in S : \A e \in Offered : e.root = m => e.prev \notin S
  BY <1>1 DEF Grounded
<1>3. /\ m_prevmap = m_rootmap /\ m_prevmap \subseteq LameEdge /\ m_prevmap \subseteq Offered
      /\ m_roots = {k \in HeadNode : InPrevmap(k) /\ ~InRootmap(k)}
  BY DEF IndInv, TypeOK, RootsExact, EndsKept
<1>4. CASE InRootmap(m)
  <2>1. PICK e \in m_prevmap : e.root = m
    BY <1>3, <1>4 DEF InRootmap
  <2>2. e.prev \in HeadNode /\ e.prev[1] = hn[1] /\ InPrevmap(e.prev)
    BY <1>3, <2>1 DEF LameEdge, InPrevmap
  <2>3. e.prev \in R
    BY <1>2, <1>3, <2>1, <2>2 DEF KnownNodes
  <2>4. m \in R
    BY <2>1, <2>3 DEF Reach, Closed, KnownNodes
  <2> QED BY <2>4
<1>5. CASE ~InRootmap(m)
  <2>1. m \in RootsOfTag(hn) /\ RootsOfTag(hn) \in SUBSET HeadNode
    BY <1>3, <1>5 DEF KnownNodes, RootsOfTag
  <2> QED BY <2>1, ReachContains
<1> QED BY <1>4, <1>5

\* A walk stays in its file system.
LEMMA ReachInTag ==
    ASSUME IndInv, NEW hn \in HeadNode, NEW n \in Reach(RootsOfTag(hn))
    PROVE  n[1] = hn[1]
<1> DEFINE T == {m \in HeadNode : m[1] = hn[1]}
<1>1. Closed(T) /\ RootsOfTag(hn) \subseteq T
  BY DEF Closed, IndInv, TypeOK, LameEdge, RootsOfTag
<1> QED BY <1>1 DEF Reach

\* Unless the offered edges go round in a circle, a furthest of a file system reports
\* every head that was inserted and not superseded, and nothing else, although
\* insert_head drops an edge when it knows its two ends from others.
THEOREM HeadsExactHolds ==
    ASSUME Grounded
    PROVE  Spec => []HeadsExact
<1>1. Init => EndsKept
  BY DEF Init, EndsKept
<1>2. IndInv /\ FurthestExact /\ EndsKept => HeadsExact
  <2> SUFFICES ASSUME IndInv, FurthestExact, EndsKept, NEW w \in Walkers, LoopDone(w),
                      walk[w].op = "furthest", walk[w].hn[2] = NoRef
               PROVE  walk[w].seeds = {n \in HeadNode :
                                          /\ n[1] = walk[w].hn[1]
                                          /\ \E e \in inserted : e.root = n
                                          /\ \A e \in inserted : e.prev # n}
    BY DEF HeadsExact
  <2> DEFINE hn == walk[w].hn
  <2>1. hn \in HeadNode /\ m_prevmap = m_rootmap
    BY DEF IndInv, TypeOK, Walk, RootsExact
  <2>2. walk[w].seeds = Reach(RootsOfTag(hn)) \cap Leaves
    BY DEF FurthestExact, Origin
  <2>3. Leaves = {n \in HeadNode : (\E e \in inserted : e.root = n)
                                   /\ \A e \in inserted : e.prev # n}
    BY <2>1 DEF Leaves, EndsKept, InPrevmap, InRootmap
  <2>4. \A n \in Leaves : n \in Reach(RootsOfTag(hn)) <=> n[1] = hn[1]
    BY <2>1, ReachedFromRoots, ReachInTag DEF Leaves, KnownNodes
  <2> QED BY <2>2, <2>3, <2>4
<1>3. IndInv /\ EndsKept /\ [Next]_vars => EndsKept'
  BY EndsKeptStep
<1> QED BY <1>1, <1>2, <1>3, Invariance, FurthestExactHolds, PTL DEF Spec
=============================================================================
