---------------------------- MODULE HeadFurthest ----------------------------
(***************************************************************************)
(* How the virtual block store finds the furthest heads of a file system   *)
(* when its children know different edges: VBSHeadFurthestTopReq.cpp,      *)
(* VBSHeadFurthestSubReq.cpp and VBSHeadFollowFillReq.cpp of               *)
(* modules/VBlockStore.                                                    *)
(*                                                                         *)
(* The children are surveyed for their furthest heads.  If they differ,    *)
(* each child that has a head of its own is filled with the edges the      *)
(* others have beyond it, and there is a second survey; if they still      *)
(* differ, every child is filled with all the edges of the others, and     *)
(* there is a last survey.  Other clients may insert edges meanwhile.      *)
(*                                                                         *)
(* The graph of a child is the set of its edges, all of one file system:   *)
(* HeadGraph shows that its walks report what Furthest and Follow define.  *)
(***************************************************************************)
EXTENDS Integers, Sequences, FiniteSets

CONSTANTS
    NChildren,  \* the children are numbered in the order of their names
    Nodes,      \* the heads of the file system
    NoRef,      \* the empty reference, which stands for all the roots
    Hns,        \* the head nodes the client may ask about
    Known,      \* the edges the children may know at the start
    Late        \* the edges other clients insert meanwhile

Children == 1..NChildren
Edges == [prev : Nodes, root : Nodes]

ASSUME HeadFurthestAssumption ==
    /\ NChildren \in Nat \ {0} /\ IsFiniteSet(Nodes) /\ NoRef \notin Nodes
    /\ Hns \subseteq Nodes \cup {NoRef}
    /\ Known \subseteq Edges /\ Late \subseteq Edges

VARIABLES
    edges,          \* per child: the edges its store has
    start,          \* history: the edges some child had at the start
    queue,          \* per child: m_shereqs
    walking,        \* per child: the follow-fill whose callbacks its loop makes
    m_hn,           \* what the client asked for
    phase,          \* what the top request waits for, or how it ended
    val,            \* the survey it is at: 0, 1 or 2
    m_cnsm,         \* the answers to the survey, by child
    m_outstanding,  \* the number of answers yet to come
    m_ffout,        \* the number of follow-fills that are not complete
    fills,          \* the follow-fills of this round
    issue, issuer,  \* what a thread is still to enqueue, and whose loop it is in
    unsent,         \* what the other clients are still to enqueue
    answer          \* the heads the client was given

graphs == <<edges, start>>
top == <<m_hn, phase, val, m_ffout, answer>>
survey == <<m_cnsm, m_outstanding>>
vars == <<edges, start, queue, walking, m_hn, phase, val, m_cnsm, m_outstanding, m_ffout,
          fills, issue, issuer, unsent, answer>>

\* A follow-fill copies to the target what the others have beyond hn.
FillId == [targcp : Children, hn : Nodes \cup {NoRef}]
Fill == [m_outstanding : Nat, m_travdone : BOOLEAN, m_fillsout : Nat, completed : Nat]

\* What children have queued; by says which follow-fill an insert is for.
NoFill == [targcp |-> 0, hn |-> NoRef]
SurveyReq == [op |-> "survey"]
FollowReq(f) == [op |-> "follow", by |-> f]
InsertReq(f, e) == [op |-> "insert", by |-> f, edge |-> e]
HeadRequest ==
    {SurveyReq} \cup {FollowReq(f) : f \in FillId}
                \cup {InsertReq(f, e) : f \in FillId \cup {NoFill}, e \in Edges}

TypeOK ==
    /\ edges \in [Children -> SUBSET (Known \cup Late)] /\ start \subseteq Known
    /\ \A c \in Children : \A i \in 1..Len(queue[c]) : queue[c][i] \in HeadRequest
    /\ \A c \in Children : walking[c].by \in FillId \cup {NoFill} /\ walking[c].left \subseteq Edges
    /\ m_hn \in Hns \cup {NoRef} /\ val \in 0..2
    /\ phase \in {"idle", "survey", "fill", "good", "threw"}
    /\ DOMAIN m_cnsm \subseteq Children /\ \A c \in DOMAIN m_cnsm : m_cnsm[c] \subseteq Nodes
    /\ m_outstanding \in 0..NChildren /\ m_ffout \in Nat
    /\ DOMAIN fills \subseteq FillId /\ \A f \in DOMAIN fills : fills[f] \in Fill
    /\ issue \subseteq HeadRequest \X Children /\ issuer \in 0..NChildren
    /\ unsent \subseteq Late \X Children
    /\ answer \subseteq Nodes

-----------------------------------------------------------------------------
(* The graph of a child *)

Kids(E, n) == {e.root : e \in {d \in E : d.prev = n}}
HasPrev(E, n) == \E e \in E : e.root = n

\* The nodes the edges of E lead to from the nodes in S: those in every set that holds S
\* and all that its members lead to.
Reach(E, S) ==
    {n \in Nodes : \A T \in SUBSET Nodes :
        S \subseteq T /\ (\A e \in E : e.prev \in T => e.root \in T) => n \in T}

\* "Expand the seeds."
Seeds(E, hn) ==
    IF hn = NoRef THEN {e.prev : e \in {d \in E : ~HasPrev(E, d.prev)}}
    ELSE IF HasPrev(E, hn) THEN {hn} ELSE Kids(E, hn)

Furthest(E, hn) == {n \in Reach(E, Seeds(E, hn)) : Kids(E, n) = {}}

Follow(E, hn) ==
    {e \in E : e.prev \in Reach(E, Seeds(E, hn)) \/ (e.prev = hn /\ ~HasPrev(E, hn))}

\* insert_head, which looks the two ends of the edge up one by one.
insert_head(E, e) ==
    IF Kids(E, e.prev) # {} /\ HasPrev(E, e.root) THEN E ELSE E \cup {e}

-----------------------------------------------------------------------------
(* The top request *)

\* Enqueueing is left to the thread that is in the loop of child c (0: a client).
Issue(reqs, c) == issue' = reqs /\ issuer' = c

\* A new subrequest, to be enqueued with all the children.
StartSurvey(n, c) ==
    /\ phase' = "survey" /\ val' = n
    /\ m_cnsm' = [d \in {} |-> {}] /\ m_outstanding' = NChildren
    /\ Issue({SurveyReq} \X Children, c)

init(c) == StartSurvey(0, c)
second_check(c) == StartSurvey(1, c)
last_check(c) == StartSurvey(2, c)

bs_head_furthest_async(hn) ==
    /\ phase = "idle"
    /\ m_hn' = hn
    /\ init(0)
    /\ UNCHANGED <<graphs, queue, walking, m_ffout, fills, unsent, answer>>

\* A thread enqueues a request it has made, in any order; the code goes
\* through the fills by the addresses of their targets, through the others by name.
Enqueue(r, c) ==
    /\ <<r, c>> \in issue
    /\ issue' = issue \ {<<r, c>>}
    /\ queue' = [queue EXCEPT ![c] = Append(@, r)]
    /\ UNCHANGED <<graphs, walking, top, survey, fills, issuer, unsent>>

\* "we need to make sure the outstanding count is correctly set before we issue
\* any of them": each follow-fill is submitted to all the children but its target.
StartFills(ids, c) ==
    /\ phase' = "fill"
    /\ fills' = [f \in ids |-> [m_outstanding |-> NChildren - 1, m_travdone |-> FALSE,
                                m_fillsout |-> 0, completed |-> 0]]
    /\ m_ffout' = Cardinality(ids)
    /\ Issue({<<FollowReq(f), d>> : f \in ids, d \in Children}
             \ {<<FollowReq(f), f.targcp>> : f \in ids}, c)

\* Mutant: a head counts as common when some child has it.
CommonUnion(cnsm) == {n \in Nodes : \E c \in Children : n \in cnsm[c]}

\* complete of the survey: the heads all children have, and those a child has
\* besides.
Common(cnsm) == {n \in Nodes : \A c \in Children : n \in cnsm[c]}
Unique(cnsm) == {f \in FillId : f.hn \in cnsm[f.targcp] \ Common(cnsm)}

directed_follow_fill(cnsm, c) == StartFills(Unique(cnsm), c)

\* Mutant: the last child is not filled.
full_follow_fill_but_last(c) == StartFills({f \in FillId : f.hn = NoRef /\ f.targcp # NChildren}, c)

full_follow_fill(c) == StartFills({f \in FillId : f.hn = NoRef}, c)

\* hnt_complete of the top request, called by the last child back.
hnt_complete(cnsm, c) ==
    \/ /\ Unique(cnsm) = {}
       /\ phase' = "good" /\ answer' = Common(cnsm)
       /\ UNCHANGED <<m_ffout, fills, issue, issuer>>
    \/ /\ Unique(cnsm) # {} /\ val = 0
       /\ directed_follow_fill(cnsm, c)
       /\ UNCHANGED answer
    \/ /\ Unique(cnsm) # {} /\ val = 1
       /\ full_follow_fill(c)
       /\ UNCHANGED answer
    \/ /\ Unique(cnsm) # {} /\ val = 2
       /\ phase' = "threw"
       /\ UNCHANGED <<m_ffout, fills, issue, issuer, answer>>

\* The fills are those of full_follow_fill.
m_lasttry == val = 1

\* het_complete and het_error of the top request: a follow-fill is complete.
FillBack(c) ==
    IF m_ffout = 1
    THEN /\ m_ffout' = 0
         /\ IF m_lasttry THEN last_check(c) ELSE second_check(c)
    ELSE /\ m_ffout' = m_ffout - 1
         /\ UNCHANGED <<phase, val, survey, issue, issuer>>

-----------------------------------------------------------------------------
(* The loop of child c, which handles its head requests one after the other *)

NotWalking == [by |-> NoFill, left |-> {}]

\* The loop is between two requests.
AtTop(c) == walking[c] = NotWalking /\ (issuer = c => issue = {}) /\ queue[c] # <<>>

Survey(c) ==
    LET cnsm == [d \in DOMAIN m_cnsm \cup {c} |->
                    IF d = c THEN Furthest(edges[c], m_hn) ELSE m_cnsm[d]]
    IN  /\ AtTop(c) /\ Head(queue[c]).op = "survey"
        /\ queue' = [queue EXCEPT ![c] = Tail(@)]
        /\ m_cnsm' = cnsm
        /\ m_outstanding' = m_outstanding - 1
        /\ IF m_outstanding = 1
           THEN hnt_complete(cnsm, c)
           ELSE UNCHANGED <<phase, m_ffout, fills, issue, issuer, answer>>
        /\ UNCHANGED <<graphs, walking, m_hn, val, unsent>>

\* The walk of the graph; its callbacks are yet to come.
FollowStart(c) ==
    LET r == Head(queue[c])
    IN  /\ AtTop(c) /\ r.op = "follow"
        /\ queue' = [queue EXCEPT ![c] = Tail(@)]
        /\ walking' = [walking EXCEPT ![c] = [by |-> r.by, left |-> Follow(edges[c], r.by.hn)]]
        /\ UNCHANGED <<graphs, top, survey, fills, issue, issuer, unsent>>

\* The walk reports an edge, in whatever order it found them.
het_edge(c) ==
    LET f == walking[c].by
    IN  \E e \in walking[c].left :
          /\ walking' = [walking EXCEPT ![c].left = @ \ {e}]
          /\ fills' = [fills EXCEPT ![f].m_fillsout = @ + 1]
          /\ queue' = [queue EXCEPT ![f.targcp] = Append(@, InsertReq(f, e))]
          /\ UNCHANGED <<graphs, top, survey, issue, issuer, unsent>>

\* Mutant: a traversal that ends with fills outstanding is complete.
TravDoneEarly(q) == q.m_outstanding = 1

\* "But we're only complete when all of the fills are complete as well."
TravDone(q) == q.m_outstanding = 1 /\ q.m_fillsout = 0

\* het_complete and het_error of the follow-fill
het_complete(c) ==
    LET f == walking[c].by
        q == fills[f]
        last == q.m_outstanding = 1
    IN  /\ walking[c] # NotWalking /\ walking[c].left = {}
        /\ walking' = [walking EXCEPT ![c] = NotWalking]
        /\ fills' = [fills EXCEPT ![f] = [q EXCEPT !.m_outstanding = @ - 1, !.m_travdone = @ \/ last,
                                          !.completed = @ + (IF TravDone(q) THEN 1 ELSE 0)]]
        /\ IF TravDone(q) THEN FillBack(c)
                          ELSE UNCHANGED <<phase, val, m_ffout, survey, issue, issuer>>
        /\ UNCHANGED <<graphs, queue, m_hn, unsent, answer>>

\* Mutant: m_fillsout is looked at before it is decremented.
FillsDoneLate(q) == q.m_travdone /\ q.m_fillsout = 0

FillsDone(q) == q.m_travdone /\ q.m_fillsout = 1

\* An insert, and hei_complete of the follow-fill it was made for.
Insert(c) ==
    LET r == Head(queue[c])
        q == fills[r.by]
    IN  /\ AtTop(c) /\ r.op = "insert"
        /\ queue' = [queue EXCEPT ![c] = Tail(@)]
        /\ edges' = [edges EXCEPT ![c] = insert_head(@, r.edge)]
        /\ IF r.by = NoFill
           THEN UNCHANGED <<fills, phase, val, m_ffout, survey, issue, issuer>>
           ELSE /\ fills' = [fills EXCEPT ![r.by] = [q EXCEPT !.m_fillsout = @ - 1,
                                              !.completed = @ + (IF FillsDone(q) THEN 1 ELSE 0)]]
                /\ IF FillsDone(q)
                   THEN FillBack(c)
                   ELSE UNCHANGED <<phase, val, m_ffout, survey, issue, issuer>>
        /\ UNCHANGED <<start, walking, m_hn, unsent, answer>>

\* bs_head_insert_async of another client: it enqueues with one child after the
\* other.
ClientInsert(e, c) ==
    /\ <<e, c>> \in unsent /\ \A d \in Children : d < c => <<e, d>> \notin unsent
    /\ unsent' = unsent \ {<<e, c>>}
    /\ queue' = [queue EXCEPT ![c] = Append(@, InsertReq(NoFill, e))]
    /\ UNCHANGED <<graphs, walking, top, survey, fills, issue, issuer>>

-----------------------------------------------------------------------------
Init ==
    /\ edges \in [Children -> SUBSET Known]
    /\ start = UNION {edges[c] : c \in Children}
    /\ queue = [c \in Children |-> <<>>] /\ walking = [c \in Children |-> NotWalking]
    /\ m_hn = NoRef /\ phase = "idle" /\ val = 0
    /\ m_cnsm = [d \in {} |-> {}] /\ m_outstanding = 0 /\ m_ffout = 0
    /\ fills = [f \in {} |-> {}]
    /\ issue = {} /\ issuer = 0 /\ unsent = Late \X Children /\ answer = {}

Loop(c) == Survey(c) \/ FollowStart(c) \/ het_edge(c) \/ het_complete(c) \/ Insert(c)

Next ==
    \/ \E hn \in Hns : bs_head_furthest_async(hn)
    \/ \E i \in issue : Enqueue(i[1], i[2])
    \/ \E c \in Children : Loop(c)
    \/ \E e \in Late, c \in Children : ClientInsert(e, c)

Spec == Init /\ [][Next]_vars

\* A thread enqueues what it has made, and the children's loops go on.
FairSpec ==
    /\ Spec
    /\ WF_vars(\E i \in issue : Enqueue(i[1], i[2]))
    /\ \A c \in Children : WF_vars(Loop(c))

-----------------------------------------------------------------------------
(* Properties *)

\* The edges other clients have begun to insert.
Submitted == {e \in Late : \E c \in Children : <<e, c>> \notin unsent}

\* The heads the client is given are the furthest of all that the children knew
\* together, and some of the edges that were inserted meanwhile: no head is
\* reported that an edge known at the start supersedes, and none is left out.
AnswerExact ==
    phase = "good" =>
        \E L \in SUBSET Submitted : answer = Furthest(start \cup L, m_hn)

\* Some child is yet to look for edges for f, or to report or insert one.
Busy(f) ==
    \E c \in Children :
        \/ walking[c].by = f \/ <<FollowReq(f), c>> \in issue
        \/ \E i \in 1..Len(queue[c]) : queue[c][i].op # "survey" /\ queue[c][i].by = f

\* The follow-fills that are not complete are the ones m_ffout counts, and each
\* completes once, after all the edges that were found have been inserted.
FillsCounted ==
    phase = "fill" =>
        /\ m_ffout = Cardinality({f \in DOMAIN fills : fills[f].completed = 0})
        /\ \A f \in DOMAIN fills :
             /\ fills[f].completed <= 1
             /\ fills[f].completed = 1 => ~Busy(f)

\* "This is expensive but it is guranteed to work": the children agree in the
\* last survey, as long as no other client inserts an edge meanwhile.
FullFillWorksAlone == Submitted = {} => phase # "threw"

\* The client is answered, or the request throws; it never waits for a count
\* that nobody brings to zero.
Settles == phase = "survey" ~> phase \in {"good", "threw"}
=============================================================================
