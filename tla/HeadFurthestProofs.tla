-------------------------- MODULE HeadFurthestProofs --------------------------
(***************************************************************************)
(* The counts of the furthest-heads protocol are right for any number of   *)
(* children, any graphs and any edges inserted meanwhile: the answers of a *)
(* survey, the traversals of each follow-fill, the edges it has yet to     *)
(* insert and the follow-fills that are not complete.                      *)
(*                                                                         *)
(* Each count is compared with the requests it counts, wherever they are:  *)
(* still to be enqueued by the thread that made them, in a child's queue,  *)
(* or in its loop.  A child has each of them at most once, and there are   *)
(* none but those of the round the top request is at.                      *)
(***************************************************************************)
EXTENDS HeadFurthest, FiniteSetTheorems, TLAPS

\* What is counted by the answers it gets: the surveys and the walks.
Jobs == {SurveyReq} \cup {FollowReq(f) : f \in FillId}

\* The request r is in the queue q, and is there once at most.
Has(q, r) == \E i \in 1..Len(q) : q[i] = r
Single(q, r) == \A i, j \in 1..Len(q) : q[i] = r /\ q[j] = r => i = j

\* The places in q of the inserts that f has asked for.
IsInsert(x, f) == x.op = "insert" /\ x.by = f
InsertsIn(q, f) == {i \in 1..Len(q) : IsInsert(q[i], f)}

\* The loop of c makes the callbacks of r.
Doing(r, c) == walking[c].by \in FillId /\ r = FollowReq(walking[c].by)

\* The children that have yet to answer r, and the edges f has yet to insert.
Waiting(r) == {c \in Children : <<r, c>> \in issue \/ Has(queue[c], r) \/ Doing(r, c)}
Inserts(f) == InsertsIn(queue[f.targcp], f)

-----------------------------------------------------------------------------
(* The inductive invariant *)

Types ==
    /\ edges \in [Children -> SUBSET Edges]
    /\ queue \in [Children -> Seq(HeadRequest)]
    /\ walking \in [Children -> [by : FillId \cup {NoFill}, left : SUBSET Edges]]
    /\ \A c \in Children : walking[c].by = NoFill => walking[c].left = {}
    /\ issue \subseteq Jobs \X Children
    /\ m_outstanding \in Nat /\ m_ffout \in Nat
    /\ DOMAIN fills \subseteq FillId /\ fills \in [DOMAIN fills -> Fill]
    /\ phase \in {"idle", "survey", "fill", "good", "threw"}

\* A child has a request once, in one place, and edges are inserted at the target.
OnceEach ==
    \A c \in Children :
        /\ \A r \in Jobs :
             /\ Single(queue[c], r)
             /\ <<r, c>> \in issue => ~Has(queue[c], r) /\ ~Doing(r, c)
             /\ Doing(r, c) => ~Has(queue[c], r)
        /\ \A f \in FillId : f.targcp # c => InsertsIn(queue[c], f) = {}

\* The surveys are counted, and there are none in another phase.
SurveyCounted ==
    IF phase = "survey" THEN m_outstanding = Cardinality(Waiting(SurveyReq))
    ELSE Waiting(SurveyReq) = {}

\* There is nothing to do for f.
Nothing(f) == Waiting(FollowReq(f)) = {} /\ Inserts(f) = {}

\* The two counts of a follow-fill, and when it was complete.
FillOK(f) ==
    /\ fills[f].m_outstanding = Cardinality(Waiting(FollowReq(f)))
    /\ fills[f].m_fillsout = Cardinality(Inserts(f))
    /\ fills[f].m_travdone <=> fills[f].m_outstanding = 0
    /\ fills[f].completed = IF fills[f].m_outstanding = 0 /\ fills[f].m_fillsout = 0
                            THEN 1 ELSE 0

Incomplete == {f \in DOMAIN fills : fills[f].completed = 0}

RoundCounted ==
    \A f \in FillId : IF phase = "fill" /\ f \in DOMAIN fills THEN FillOK(f) ELSE Nothing(f)

FillsLeft == phase = "fill" => m_ffout = Cardinality(Incomplete)

Inv == Types /\ OnceEach /\ SurveyCounted /\ RoundCounted /\ FillsLeft

-----------------------------------------------------------------------------
(* The requests *)

\* What tells the three kinds of request apart.
LEMMA Kinds ==
    ASSUME NEW x \in HeadRequest
    PROVE  \/ x = SurveyReq /\ x.op = "survey"
           \/ \E f \in FillId : x = FollowReq(f) /\ x.op = "follow" /\ x.by = f
           \/ \E f \in FillId \cup {NoFill}, e \in Edges :
                x = InsertReq(f, e) /\ x.op = "insert" /\ x.by = f /\ x.edge = e
BY DEF HeadRequest, SurveyReq, FollowReq, InsertReq

\* The requests of different fills differ, and none is an insert.
LEMMA Apart ==
    /\ \A f, g : FollowReq(f) = FollowReq(g) => f = g
    /\ \A f : FollowReq(f) # SurveyReq
    /\ \A f, g : ~IsInsert(FollowReq(f), g)
    /\ \A g : ~IsInsert(SurveyReq, g)
    /\ \A f, e, g : IsInsert(InsertReq(f, e), g) <=> f = g
    /\ \A f, e, g : InsertReq(f, e) # FollowReq(g) /\ InsertReq(f, e) # SurveyReq
    /\ NoFill \notin FillId
    /\ Jobs \subseteq HeadRequest
<1>1. \A f, g : FollowReq(f) = FollowReq(g) => f = g
  BY DEF FollowReq
<1>2. \A f : FollowReq(f).op = "follow"
  BY DEF FollowReq
<1>3. \A f, e : InsertReq(f, e).op = "insert" /\ InsertReq(f, e).by = f
  BY DEF InsertReq
<1>4. SurveyReq.op = "survey"
  BY DEF SurveyReq
<1>5. NoFill \notin FillId
  BY DEF NoFill, FillId, Children
<1>6. Jobs \subseteq HeadRequest
  BY DEF Jobs, HeadRequest
<1> QED
  BY <1>1, <1>2, <1>3, <1>4, <1>5, <1>6 DEF IsInsert

-----------------------------------------------------------------------------
(* The queues *)

\* What one more request at the end changes.
LEMMA AppendHas ==
    ASSUME NEW q \in Seq(HeadRequest), NEW x \in HeadRequest, NEW p, p = Append(q, x)
    PROVE  /\ p \in Seq(HeadRequest)
           /\ \A r : Has(p, r) <=> Has(q, r) \/ x = r
           /\ \A r : Single(q, r) /\ (x = r => ~Has(q, r)) => Single(p, r)
<1>1. /\ p \in Seq(HeadRequest) /\ Len(p) = Len(q) + 1 /\ Len(q) \in Nat
      /\ p[Len(q) + 1] = x
      /\ \A i \in 1..Len(q) : p[i] = q[i]
  OBVIOUS
<1> QED
  BY <1>1 DEF Has, Single

\* A request at the end of a queue is one more insert if it is one.
LEMMA AppendInserts ==
    ASSUME NEW q \in Seq(HeadRequest), NEW x, NEW p, NEW f,
           Len(p) = Len(q) + 1, p[Len(q) + 1] = x, \A i \in 1..Len(q) : p[i] = q[i]
    PROVE  /\ IsFiniteSet(InsertsIn(q, f)) /\ IsFiniteSet(InsertsIn(p, f))
           /\ IsInsert(x, f) => Cardinality(InsertsIn(p, f)) = Cardinality(InsertsIn(q, f)) + 1
           /\ ~IsInsert(x, f) => InsertsIn(p, f) = InsertsIn(q, f)
<1>1. Len(q) \in Nat
  OBVIOUS
<1> DEFINE S == InsertsIn(q, f)
<1>2. IsFiniteSet(S) /\ S \subseteq 1..Len(q)
  <2>1. S \subseteq 1..Len(q)
    BY DEF InsertsIn
  <2>2. IsFiniteSet(1..Len(q))
    BY <1>1, FS_Interval
  <2> QED
    BY <2>1, <2>2, FS_Subset
<1>3. InsertsIn(p, f) = IF IsInsert(x, f) THEN S \cup {Len(q) + 1} ELSE S
  BY <1>1 DEF InsertsIn
<1>4. Len(q) + 1 \notin S
  BY <1>1, <1>2
<1>5. IsFiniteSet(S \cup {Len(q) + 1}) /\ Cardinality(S \cup {Len(q) + 1}) = Cardinality(S) + 1
  BY <1>2, <1>4, FS_AddElement
<1> HIDE DEF S
<1>6. IsFiniteSet(S) /\ IsFiniteSet(InsertsIn(p, f))
  BY <1>2, <1>3, <1>5
<1>7. IsInsert(x, f) => Cardinality(InsertsIn(p, f)) = Cardinality(S) + 1
  BY <1>3, <1>5
<1> QED
  BY <1>3, <1>6, <1>7 DEF S

\* What taking the first one changes.
LEMMA TailHas ==
    ASSUME NEW q \in Seq(HeadRequest), q # <<>>, NEW p, p = Tail(q)
    PROVE  /\ p \in Seq(HeadRequest) /\ Head(q) \in HeadRequest
           /\ \A r : Has(q, r) <=> Has(p, r) \/ Head(q) = r
           /\ \A r : Single(q, r) => Single(p, r) /\ (Head(q) = r => ~Has(p, r))
<1>1. /\ p \in Seq(HeadRequest) /\ Len(q) = Len(p) + 1 /\ Len(p) \in Nat
      /\ Head(q) = q[1] /\ q[1] \in HeadRequest
      /\ \A i \in 1..Len(p) : p[i] = q[i + 1]
  OBVIOUS
<1>2. \A i \in 2..Len(q) : i - 1 \in 1..Len(p) /\ q[i] = p[i - 1]
  BY <1>1
<1>3. \A r : Has(q, r) <=> Has(p, r) \/ q[1] = r
  BY <1>1, <1>2 DEF Has
<1>4. ASSUME NEW r, Single(q, r) PROVE Single(p, r) /\ (q[1] = r => ~Has(p, r))
  <2>1. Single(p, r)
    <3> SUFFICES ASSUME NEW i \in 1..Len(p), NEW j \in 1..Len(p), p[i] = r, p[j] = r PROVE i = j
      BY DEF Single
    <3>1. i + 1 \in 1..Len(q) /\ j + 1 \in 1..Len(q) /\ q[i + 1] = r /\ q[j + 1] = r
      BY <1>1
    <3> QED
      BY <1>4, <3>1 DEF Single
  <2>2. ASSUME q[1] = r, NEW i \in 1..Len(p), p[i] = r PROVE FALSE
    <3>1. i + 1 \in 1..Len(q) /\ q[i + 1] = r /\ 1 \in 1..Len(q)
      BY <2>2, <1>1
    <3> QED
      BY <1>4, <2>2, <3>1 DEF Single
  <2> QED
    BY <2>1, <2>2 DEF Has
<1> QED
  BY <1>1, <1>3, <1>4

\* A request taken from the front of a queue is one insert less if it was one.
LEMMA TailInserts ==
    ASSUME NEW q \in Seq(HeadRequest), q # <<>>, NEW p, p = Tail(q), NEW f
    PROVE  /\ IsFiniteSet(InsertsIn(q, f)) /\ IsFiniteSet(InsertsIn(p, f))
           /\ IsInsert(Head(q), f) => Cardinality(InsertsIn(q, f)) = Cardinality(InsertsIn(p, f)) + 1
           /\ ~IsInsert(Head(q), f) => Cardinality(InsertsIn(q, f)) = Cardinality(InsertsIn(p, f))
           /\ InsertsIn(q, f) = {} => InsertsIn(p, f) = {}
<1>1. /\ Len(q) = Len(p) + 1 /\ Len(p) \in Nat
      /\ Head(q) = q[1]
      /\ \A i \in 1..Len(p) : p[i] = q[i + 1]
  OBVIOUS
<1> DEFINE S == InsertsIn(p, f)
           T == InsertsIn(q, f) \ {1}
           shift == [i \in S |-> i + 1]
<1>2. IsFiniteSet(S) /\ IsFiniteSet(InsertsIn(q, f))
  <2>1. S \subseteq 1..Len(p) /\ InsertsIn(q, f) \subseteq 1..Len(q)
    BY DEF InsertsIn
  <2>2. IsFiniteSet(1..Len(p)) /\ IsFiniteSet(1..Len(q))
    BY <1>1, FS_Interval
  <2> QED
    BY <2>1, <2>2, FS_Subset
<1>3. shift \in Bijection(S, T)
  <2>1. \A i \in S : i \in 1..Len(p) /\ i + 1 \in T
    BY <1>1 DEF InsertsIn
  <2>2. \A j \in T : j - 1 \in S /\ (j - 1) + 1 = j
    BY <1>1 DEF InsertsIn
  <2>3. shift \in [S -> T]
    BY <2>1
  <2>4. \A i, j \in S : shift[i] = shift[j] => i = j
    BY <2>1
  <2>5. \A j \in T : \E i \in S : shift[i] = j
    BY <2>2
  <2> QED
    BY <2>3, <2>4, <2>5 DEF Bijection, Injection, Surjection, IsInjective
<1>4. IsFiniteSet(T) /\ Cardinality(T) = Cardinality(S)
  <2>1. ExistsBijection(S, T)
    BY <1>3 DEF ExistsBijection
  <2> HIDE DEF S, T
  <2> QED
    BY <2>1, <1>2, FS_Bijection
<1>5. 1 \in InsertsIn(q, f) <=> IsInsert(Head(q), f)
  BY <1>1 DEF InsertsIn
<1>6. ASSUME IsInsert(Head(q), f) PROVE Cardinality(InsertsIn(q, f)) = Cardinality(S) + 1
  <2>1. Cardinality(T) = Cardinality(InsertsIn(q, f)) - 1
    BY <1>2, <1>5, <1>6, FS_RemoveElement
  <2> QED
    BY <2>1, <1>2, <1>4, FS_CardinalityType
<1>7. ASSUME ~IsInsert(Head(q), f) PROVE Cardinality(InsertsIn(q, f)) = Cardinality(S)
  <2>1. T = InsertsIn(q, f)
    BY <1>5, <1>7
  <2> QED
    BY <2>1, <1>4
<1>8. InsertsIn(q, f) = {} => S = {}
  BY <1>1 DEF InsertsIn
<1> QED
  BY <1>2, <1>6, <1>7, <1>8
-----------------------------------------------------------------------------
(* Steps of the queues *)

\* A request is put in the queue of c.
LEMMA PushQueue ==
    ASSUME Types, NEW c \in Children, NEW x \in HeadRequest,
           queue' = [queue EXCEPT ![c] = Append(@, x)]
    PROVE  /\ queue' \in [Children -> Seq(HeadRequest)]
           /\ \A d \in Children : \A r : Has(queue'[d], r) <=> Has(queue[d], r) \/ (d = c /\ x = r)
           /\ \A d \in Children : \A r : Single(queue[d], r) /\ (d = c /\ x = r => ~Has(queue[d], r))
                                          => Single(queue'[d], r)
           /\ \A d \in Children : \A f : d = c /\ IsInsert(x, f) =>
                 Cardinality(InsertsIn(queue'[d], f)) = Cardinality(InsertsIn(queue[d], f)) + 1
           /\ \A d \in Children : \A f : ~(d = c /\ IsInsert(x, f)) =>
                 InsertsIn(queue'[d], f) = InsertsIn(queue[d], f)
<1>1. PICK q, p : q = queue[c] /\ p = Append(q, x)
  OBVIOUS
<1>2. q \in Seq(HeadRequest) /\ queue \in [Children -> Seq(HeadRequest)]
  BY <1>1 DEF Types
<1>3. /\ p \in Seq(HeadRequest)
      /\ \A r : Has(p, r) <=> Has(q, r) \/ x = r
      /\ \A r : Single(q, r) /\ (x = r => ~Has(q, r)) => Single(p, r)
  BY <1>1, <1>2, AppendHas
<1>4. ASSUME NEW f
      PROVE  /\ IsInsert(x, f) => Cardinality(InsertsIn(p, f)) = Cardinality(InsertsIn(q, f)) + 1
             /\ ~IsInsert(x, f) => InsertsIn(p, f) = InsertsIn(q, f)
  <2>1. Len(p) = Len(q) + 1 /\ p[Len(q) + 1] = x /\ \A i \in 1..Len(q) : p[i] = q[i]
    BY <1>1, <1>2
  <2>2. q \in Seq(HeadRequest)
    BY <1>2
  <2>3. IsInsert(x, f) => Cardinality(InsertsIn(p, f)) = Cardinality(InsertsIn(q, f)) + 1
    BY <2>1, <2>2, AppendInserts
  <2>4. ~IsInsert(x, f) => InsertsIn(p, f) = InsertsIn(q, f)
    BY <2>1, <2>2, AppendInserts
  <2> QED
    BY <2>3, <2>4
<1>5. queue'[c] = p /\ \A d \in Children : d # c => queue'[d] = queue[d]
  BY <1>1, <1>2
<1>6. queue' \in [Children -> Seq(HeadRequest)]
  BY <1>1, <1>2, <1>3
<1> QED
  BY <1>1, <1>3, <1>4, <1>5, <1>6

\* The loop of c takes the first request of its queue.
LEMMA PopQueue ==
    ASSUME Types, NEW c \in Children, queue[c] # <<>>,
           queue' = [queue EXCEPT ![c] = Tail(@)]
    PROVE  /\ queue' \in [Children -> Seq(HeadRequest)] /\ Head(queue[c]) \in HeadRequest
           /\ \A d \in Children : \A r :
                 Has(queue[d], r) <=> Has(queue'[d], r) \/ (d = c /\ Head(queue[c]) = r)
           /\ \A d \in Children : \A r : Single(queue[d], r) =>
                 Single(queue'[d], r) /\ (d = c /\ Head(queue[c]) = r => ~Has(queue'[d], r))
           /\ \A d \in Children : \A f : d = c /\ IsInsert(Head(queue[c]), f) =>
                 Cardinality(InsertsIn(queue[d], f)) = Cardinality(InsertsIn(queue'[d], f)) + 1
           /\ \A d \in Children : \A f : ~(d = c /\ IsInsert(Head(queue[c]), f)) =>
                 Cardinality(InsertsIn(queue[d], f)) = Cardinality(InsertsIn(queue'[d], f))
           /\ \A d \in Children : \A f : InsertsIn(queue[d], f) = {} => InsertsIn(queue'[d], f) = {}
<1>1. PICK q, p : q = queue[c] /\ p = Tail(q)
  OBVIOUS
<1>2. q \in Seq(HeadRequest) /\ q # <<>> /\ queue \in [Children -> Seq(HeadRequest)]
  BY <1>1 DEF Types
<1>3. /\ p \in Seq(HeadRequest) /\ Head(q) \in HeadRequest
      /\ \A r : Has(q, r) <=> Has(p, r) \/ Head(q) = r
      /\ \A r : Single(q, r) => Single(p, r) /\ (Head(q) = r => ~Has(p, r))
  BY <1>1, <1>2, TailHas
<1>4. \A f : /\ IsInsert(Head(q), f) => Cardinality(InsertsIn(q, f)) = Cardinality(InsertsIn(p, f)) + 1
             /\ ~IsInsert(Head(q), f) => Cardinality(InsertsIn(q, f)) = Cardinality(InsertsIn(p, f))
             /\ InsertsIn(q, f) = {} => InsertsIn(p, f) = {}
  BY <1>1, <1>2, TailInserts
<1>5. queue'[c] = p /\ \A d \in Children : d # c => queue'[d] = queue[d]
  BY <1>1, <1>2
<1>6. queue' \in [Children -> Seq(HeadRequest)]
  BY <1>1, <1>2, <1>3
<1> QED
  BY <1>1, <1>3, <1>4, <1>5, <1>6

\* A set of children, and the inserts of a fill, are finite.
LEMMA Finite ==
    /\ \A S \in SUBSET Children : IsFiniteSet(S) /\ Cardinality(S) \in Nat
    /\ Cardinality(Children) = NChildren
    /\ IsFiniteSet(FillId) /\ \A S \in SUBSET FillId : IsFiniteSet(S) /\ Cardinality(S) \in Nat
<1>1. IsFiniteSet(Children) /\ Cardinality(Children) = NChildren
  BY HeadFurthestAssumption, FS_Interval DEF Children
<1>2. IsFiniteSet(Nodes \cup {NoRef})
  BY HeadFurthestAssumption, FS_AddElement
<1>3. IsFiniteSet(Children \X (Nodes \cup {NoRef}))
  BY <1>1, <1>2, FS_Product
<1> DEFINE P == Children \X (Nodes \cup {NoRef})
           mk == [x \in P |-> [targcp |-> x[1], hn |-> x[2]]]
<1>4. mk \in Surjection(P, FillId)
  <2>1. mk \in [P -> FillId]
    BY DEF FillId
  <2>2. ASSUME NEW f \in FillId PROVE \E x \in P : mk[x] = f
    <3>1. <<f.targcp, f.hn>> \in P
      BY DEF FillId
    <3>2. mk[<<f.targcp, f.hn>>] = f
      BY <3>1 DEF FillId
    <3> QED
      BY <3>1, <3>2
  <2> QED
    BY <2>1, <2>2 DEF Surjection
<1>5. IsFiniteSet(FillId)
  <2> HIDE DEF P, mk
  <2> QED
    BY <1>3, <1>4, FS_Surjection DEF P
<1> QED
  BY <1>1, <1>5, FS_Subset, FS_CardinalityType

\* The places of a fill's inserts.
LEMMA InsertsFinite ==
    ASSUME Types, NEW f \in FillId
    PROVE  f.targcp \in Children /\ IsFiniteSet(Inserts(f)) /\ Cardinality(Inserts(f)) \in Nat
<1>1. f.targcp \in Children
  BY DEF FillId
<1>2. Len(queue[f.targcp]) \in Nat
  BY <1>1 DEF Types
<1>3. IsFiniteSet(1..Len(queue[f.targcp]))
  BY <1>2, FS_Interval
<1>4. Inserts(f) \subseteq 1..Len(queue[f.targcp])
  BY DEF Inserts, InsertsIn
<1> QED
  BY <1>1, <1>3, <1>4, FS_Subset, FS_CardinalityType
-----------------------------------------------------------------------------
(* Between two rounds *)

\* No child has a request of the protocol.
Quiet ==
    \A c \in Children :
        /\ \A r \in Jobs : ~Has(queue[c], r) /\ ~Doing(r, c)
        /\ \A f \in FillId : InsertsIn(queue[c], f) = {}

\* There is nothing to do before the call and after the answer.
LEMMA RestIsQuiet ==
    ASSUME Inv, phase \notin {"survey", "fill"}
    PROVE  Quiet /\ issue = {}
<1>1. ASSUME NEW r \in Jobs PROVE Waiting(r) = {}
  BY DEF Inv, SurveyCounted, RoundCounted, Nothing, Jobs
<1>2. ASSUME NEW c \in Children, NEW f \in FillId PROVE InsertsIn(queue[c], f) = {}
  <2>1. Inserts(f) = {}
    BY DEF Inv, RoundCounted, Nothing
  <2> QED
    BY <2>1 DEF Inserts, Inv, OnceEach
<1>3. Quiet
  BY <1>1, <1>2 DEF Quiet, Waiting
<1>4. issue = {}
  BY <1>1 DEF Waiting, Inv, Types
<1> QED
  BY <1>3, <1>4

\* What the rounds have in common when they start from rest.
LEMMA QuietStarts ==
    ASSUME Types', Quiet'
    PROVE  /\ OnceEach'
           /\ \A r \in Jobs : Waiting(r)' = {c \in Children : <<r, c>> \in issue'}
           /\ \A f \in FillId : Inserts(f)' = {}
<1>1. OnceEach'
  BY DEF OnceEach, Quiet, Has, Single
<1>2. \A r \in Jobs : Waiting(r)' = {c \in Children : <<r, c>> \in issue'}
  BY DEF Waiting, Quiet
<1>3. \A f \in FillId : Inserts(f)' = {}
  BY DEF Quiet, Inserts, FillId
<1> QED
  BY <1>1, <1>2, <1>3

\* A survey that starts when there is nothing else counts its own requests.
LEMMA SurveyStarts ==
    ASSUME Types', Quiet', phase' = "survey", m_outstanding' = NChildren,
           issue' = {SurveyReq} \X Children
    PROVE  Inv'
<1>1. SurveyReq \in Jobs /\ \A f \in FillId : FollowReq(f) \in Jobs
  BY DEF Jobs
<1>2. Waiting(SurveyReq)' = Children
  BY <1>1, QuietStarts
<1>3. ASSUME NEW f \in FillId PROVE Waiting(FollowReq(f))' = {}
  <2>1. \A c : <<FollowReq(f), c>> \notin issue'
    BY Apart
  <2>2. Waiting(FollowReq(f))' = {c \in Children : <<FollowReq(f), c>> \in issue'}
    BY <1>1, QuietStarts
  <2> QED
    BY <2>1, <2>2
<1>4. SurveyCounted'
  BY <1>2, Finite DEF SurveyCounted
<1>5. RoundCounted'
  BY <1>3, QuietStarts DEF RoundCounted, Nothing
<1>6. FillsLeft'
  BY DEF FillsLeft
<1> QED
  BY <1>4, <1>5, <1>6, QuietStarts DEF Inv

\* So do follow-fills, each of which waits for all the children but its target.
LEMMA FillsStart ==
    ASSUME Types', Quiet', NEW ids \in SUBSET FillId, NEW c, StartFills(ids, c), NChildren > 1
    PROVE  Inv'
<1>1. SurveyReq \in Jobs /\ \A f \in FillId : FollowReq(f) \in Jobs
  BY DEF Jobs
<1>2. \A r, d : <<r, d>> \in issue' <=> \E f \in ids : r = FollowReq(f) /\ d \in Children /\ d # f.targcp
  BY Apart DEF StartFills, Issue
<1>3. Waiting(SurveyReq)' = {}
  <2>1. \A d : <<SurveyReq, d>> \notin issue'
    BY <1>2, Apart
  <2>2. Waiting(SurveyReq)' = {d \in Children : <<SurveyReq, d>> \in issue'}
    BY <1>1, QuietStarts
  <2> QED
    BY <2>1, <2>2
<1>4. ASSUME NEW f \in FillId
      PROVE  Waiting(FollowReq(f))' = IF f \in ids THEN Children \ {f.targcp} ELSE {}
  <2>1. \A d : <<FollowReq(f), d>> \in issue' <=> f \in ids /\ d \in Children /\ d # f.targcp
    BY <1>2, Apart
  <2>2. Waiting(FollowReq(f))' = {d \in Children : <<FollowReq(f), d>> \in issue'}
    BY <1>1, QuietStarts
  <2> QED
    BY <2>1, <2>2
<1>5. ASSUME NEW f \in ids PROVE FillOK(f)'
  <2>1. fills'[f] = [m_outstanding |-> NChildren - 1, m_travdone |-> FALSE,
                     m_fillsout |-> 0, completed |-> 0]
    BY DEF StartFills
  <2>2. Cardinality(Children \ {f.targcp}) = NChildren - 1
    BY Finite, FS_RemoveElement DEF FillId
  <2>3. Cardinality(Waiting(FollowReq(f))') = NChildren - 1
    BY <1>4, <2>2
  <2>4. Inserts(f)' = {} /\ Cardinality(Inserts(f)') = 0
    BY QuietStarts, FS_EmptySet
  <2>5. NChildren - 1 # 0
    BY HeadFurthestAssumption
  <2> QED
    BY <2>1, <2>3, <2>4, <2>5 DEF FillOK
<1>6. phase' = "fill" /\ DOMAIN fills' = ids
  BY DEF StartFills
<1>7. RoundCounted'
  BY <1>4, <1>5, <1>6, QuietStarts DEF RoundCounted, Nothing
<1>8. SurveyCounted'
  BY <1>3, <1>6 DEF SurveyCounted
<1>9. FillsLeft'
  <2>1. Incomplete' = ids
    BY DEF Incomplete, StartFills
  <2> QED
    BY <2>1 DEF FillsLeft, StartFills
<1> QED
  BY <1>7, <1>8, <1>9, QuietStarts DEF Inv

\* Nothing is left once the client has its answer.
LEMMA RestStays ==
    ASSUME Types', Quiet', phase' \notin {"survey", "fill"}, issue' = {}
    PROVE  Inv'
<1>1. SurveyReq \in Jobs /\ \A f \in FillId : FollowReq(f) \in Jobs
  BY DEF Jobs
<1>2. \A r \in Jobs : Waiting(r)' = {}
  BY QuietStarts
<1> QED
  BY <1>1, <1>2, QuietStarts DEF Inv, SurveyCounted, RoundCounted, Nothing, FillsLeft
-----------------------------------------------------------------------------
(* Steps within a round *)

\* A step that moves requests about, and completes none.
LEMMA CountsStay ==
    ASSUME Inv, Types', OnceEach',
           \A r \in Jobs : Waiting(r)' = Waiting(r),
           \A f \in FillId : /\ Cardinality(Inserts(f)') = Cardinality(Inserts(f))
                             /\ Inserts(f) = {} => Inserts(f)' = {},
           UNCHANGED <<phase, m_outstanding, m_ffout, fills>>
    PROVE  Inv'
<1>1. SurveyReq \in Jobs /\ \A f \in FillId : FollowReq(f) \in Jobs
  BY DEF Jobs
<1>2. SurveyCounted'
  BY <1>1 DEF Inv, SurveyCounted
<1>3. ASSUME NEW f \in FillId
      PROVE  IF phase' = "fill" /\ f \in DOMAIN fills' THEN FillOK(f)' ELSE Nothing(f)'
  <2>1. Waiting(FollowReq(f))' = Waiting(FollowReq(f))
    BY <1>1
  <2>2. FillOK(f) => FillOK(f)'
    BY <2>1 DEF FillOK
  <2>3. Nothing(f) => Nothing(f)'
    BY <2>1 DEF Nothing
  <2> QED
    BY <2>2, <2>3 DEF Inv, RoundCounted
<1>4. FillsLeft'
  BY DEF Inv, FillsLeft, Incomplete
<1> QED
  BY <1>2, <1>3, <1>4 DEF Inv, RoundCounted

\* A new furthest request has counted the surveys that are about to be enqueued.
LEMMA SubmitKeeps == ASSUME Inv, NEW hn, bs_head_furthest_async(hn) PROVE Inv'
<1>1. Quiet
  BY RestIsQuiet DEF bs_head_furthest_async
<1>2. UNCHANGED <<edges, queue, walking, m_ffout, fills>> /\ phase' = "survey"
      /\ m_outstanding' = NChildren /\ issue' = {SurveyReq} \X Children
  BY DEF bs_head_furthest_async, init, StartSurvey, Issue, graphs
<1>3. Quiet'
  BY <1>1, <1>2 DEF Quiet, Doing
<1>4. Types'
  BY <1>2, HeadFurthestAssumption DEF Inv, Types, Jobs
<1> QED
  BY <1>2, <1>3, <1>4, SurveyStarts

\* A request leaves the thread that made it for the queue.
LEMMA EnqueueKeeps == ASSUME Inv, NEW i \in issue, Enqueue(i[1], i[2]) PROVE Inv'
<1>1. PICK r \in Jobs, c \in Children : i = <<r, c>>
  BY DEF Inv, Types
<1>2. /\ <<r, c>> \in issue /\ issue' = issue \ {<<r, c>>}
      /\ queue' = [queue EXCEPT ![c] = Append(@, r)]
      /\ UNCHANGED <<edges, walking, phase, m_outstanding, m_ffout, fills>>
  BY <1>1 DEF Enqueue, graphs, top, survey
<1>3. r \in HeadRequest /\ \A f : ~IsInsert(r, f)
  BY Apart DEF Jobs
<1>4. /\ queue' \in [Children -> Seq(HeadRequest)]
      /\ \A d \in Children : \A x : Has(queue'[d], x) <=> Has(queue[d], x) \/ (d = c /\ r = x)
      /\ \A d \in Children : \A x : Single(queue[d], x) /\ (d = c /\ r = x => ~Has(queue[d], x))
                                     => Single(queue'[d], x)
      /\ \A d \in Children : \A f : InsertsIn(queue'[d], f) = InsertsIn(queue[d], f)
  BY <1>2, <1>3, PushQueue DEF Inv
<1>5. Types'
  BY <1>2, <1>4 DEF Inv, Types
<1>6. OnceEach'
  BY <1>2, <1>4 DEF Inv, OnceEach, Doing
<1>7. \A x \in Jobs : Waiting(x)' = Waiting(x)
  BY <1>2, <1>4 DEF Waiting, Doing
<1>8. \A f \in FillId : Inserts(f)' = Inserts(f)
  BY <1>4 DEF Inserts, FillId
<1> QED
  BY <1>2, <1>5, <1>6, <1>7, <1>8, CountsStay

\* Another client's insert is no work of this protocol.
LEMMA ClientInsertKeeps ==
    ASSUME Inv, NEW e \in Late, NEW c \in Children, ClientInsert(e, c) PROVE Inv'
<1> DEFINE r == InsertReq(NoFill, e)
<1>2. /\ queue' = [queue EXCEPT ![c] = Append(@, r)]
      /\ UNCHANGED <<edges, walking, phase, m_outstanding, m_ffout, fills, issue>>
  BY DEF ClientInsert, graphs, top, survey
<1>3. r \in HeadRequest /\ r \notin Jobs /\ \A f \in FillId : ~IsInsert(r, f)
  BY Apart, HeadFurthestAssumption DEF Jobs, HeadRequest
<1> HIDE DEF r
<1>4. /\ queue' \in [Children -> Seq(HeadRequest)]
      /\ \A d \in Children : \A x : Has(queue'[d], x) <=> Has(queue[d], x) \/ (d = c /\ r = x)
      /\ \A d \in Children : \A x : Single(queue[d], x) /\ (d = c /\ r = x => ~Has(queue[d], x))
                                     => Single(queue'[d], x)
      /\ \A d \in Children : \A f \in FillId : InsertsIn(queue'[d], f) = InsertsIn(queue[d], f)
  BY <1>2, <1>3, PushQueue DEF Inv
<1>5. Types'
  BY <1>2, <1>4 DEF Inv, Types
<1>6. OnceEach'
  BY <1>2, <1>3, <1>4 DEF Inv, OnceEach, Doing
<1>7. \A x \in Jobs : Waiting(x)' = Waiting(x)
  BY <1>2, <1>3, <1>4 DEF Waiting, Doing
<1>8. \A f \in FillId : Inserts(f)' = Inserts(f)
  BY <1>4 DEF Inserts, FillId
<1> QED
  BY <1>2, <1>5, <1>6, <1>7, <1>8, CountsStay

\* A walk is in the loop instead of the queue.
LEMMA FollowStartKeeps == ASSUME Inv, NEW c \in Children, FollowStart(c) PROVE Inv'
<1> DEFINE r == Head(queue[c])
<1>1. queue[c] # <<>> /\ r.op = "follow" /\ walking[c] = NotWalking
  BY DEF FollowStart, AtTop
<1>2. /\ queue' = [queue EXCEPT ![c] = Tail(@)]
      /\ walking' = [walking EXCEPT ![c] = [by |-> r.by, left |-> Follow(edges[c], r.by.hn)]]
      /\ UNCHANGED <<edges, phase, m_outstanding, m_ffout, fills, issue>>
  BY DEF FollowStart, graphs, top, survey
<1>3. /\ queue' \in [Children -> Seq(HeadRequest)] /\ r \in HeadRequest
      /\ \A d \in Children : \A x : Has(queue[d], x) <=> Has(queue'[d], x) \/ (d = c /\ r = x)
      /\ \A d \in Children : \A x : Single(queue[d], x) =>
            Single(queue'[d], x) /\ (d = c /\ r = x => ~Has(queue'[d], x))
      /\ \A d \in Children : \A f : ~(d = c /\ IsInsert(r, f)) =>
            Cardinality(InsertsIn(queue[d], f)) = Cardinality(InsertsIn(queue'[d], f))
      /\ \A d \in Children : \A f : InsertsIn(queue[d], f) = {} => InsertsIn(queue'[d], f) = {}
  BY <1>1, <1>2, PopQueue DEF Inv
<1>4. PICK f \in FillId : r = FollowReq(f) /\ r.by = f
  BY <1>1, <1>3, Kinds
<1>5. r \in Jobs /\ \A g : ~IsInsert(r, g)
  BY <1>4, Apart DEF Jobs
<1> HIDE DEF r
<1>6. /\ walking'[c].by = f /\ walking'[c].left \subseteq Edges
      /\ \A d \in Children : d # c => walking'[d] = walking[d]
      /\ walking' \in [Children -> [by : FillId \cup {NoFill}, left : SUBSET Edges]]
  BY <1>2, <1>4 DEF Inv, Types, Follow
<1>7. Types'
  BY <1>2, <1>3, <1>6, Apart DEF Inv, Types
<1>8. \A x \in Jobs : \A d \in Children :
        Doing(x, d)' <=> Doing(x, d) \/ (d = c /\ r = x)
  BY <1>1, <1>4, <1>6, Apart DEF Doing, NotWalking
<1>9. ~\E x \in Jobs : Doing(x, c)
  BY <1>1, Apart DEF Doing, NotWalking
<1>10. OnceEach'
  <2> SUFFICES ASSUME NEW d \in Children
               PROVE  /\ \A x \in Jobs :
                           /\ Single(queue'[d], x)
                           /\ <<x, d>> \in issue' => ~Has(queue'[d], x) /\ ~Doing(x, d)'
                           /\ Doing(x, d)' => ~Has(queue'[d], x)
                      /\ \A g \in FillId : g.targcp # d => InsertsIn(queue'[d], g) = {}
    BY DEF OnceEach
  <2>1. ASSUME NEW x \in Jobs
        PROVE  /\ Single(queue'[d], x)
               /\ <<x, d>> \in issue' => ~Has(queue'[d], x) /\ ~Doing(x, d)'
               /\ Doing(x, d)' => ~Has(queue'[d], x)
    BY <1>2, <1>3, <1>8 DEF Inv, OnceEach
  <2>2. \A g \in FillId : g.targcp # d => InsertsIn(queue'[d], g) = {}
    BY <1>3 DEF Inv, OnceEach
  <2> QED
    BY <2>1, <2>2
<1>11. \A x \in Jobs : Waiting(x)' = Waiting(x)
  BY <1>2, <1>3, <1>8 DEF Waiting
<1>12. \A g \in FillId : /\ Cardinality(Inserts(g)') = Cardinality(Inserts(g))
                         /\ Inserts(g) = {} => Inserts(g)' = {}
  BY <1>3, <1>5 DEF Inserts, FillId
<1> QED
  BY <1>2, <1>7, <1>10, <1>11, <1>12, CountsStay
-----------------------------------------------------------------------------
(* The answers to a survey *)

\* The heads of a child are nodes, and one child alone has none of its own.
LEMMA OneAgrees ==
    ASSUME NEW c \in Children, NEW cnsm, NEW E, NEW hn, cnsm[c] = Furthest(E, hn),
           Unique(cnsm) # {}
    PROVE  NChildren > 1
<1>1. cnsm[c] \subseteq Nodes
  BY DEF Furthest, Reach
<1> SUFFICES ASSUME NChildren = 1 PROVE FALSE
  BY HeadFurthestAssumption
<1>2. Children = {c}
  BY DEF Children
<1>3. PICK f \in FillId : f.hn \in cnsm[f.targcp] /\ f.hn \notin Common(cnsm)
  BY DEF Unique
<1>4. f.targcp = c
  BY <1>2 DEF FillId
<1> QED
  BY <1>1, <1>2, <1>3, <1>4 DEF Common

\* What the start of follow-fills writes has its type.
LEMMA FillTypes ==
    ASSUME NEW ids \in SUBSET FillId, NEW c, StartFills(ids, c)
    PROVE  /\ DOMAIN fills' = ids /\ fills' \in [ids -> Fill]
           /\ m_ffout' \in Nat /\ phase' = "fill" /\ issue' \subseteq Jobs \X Children
<1>1. NChildren - 1 \in Nat
  BY HeadFurthestAssumption
<1>2. [m_outstanding |-> NChildren - 1, m_travdone |-> FALSE, m_fillsout |-> 0, completed |-> 0] \in Fill
  BY <1>1 DEF Fill
<1>3. m_ffout' \in Nat
  BY Finite DEF StartFills
<1>4. issue' \subseteq Jobs \X Children
  BY DEF StartFills, Issue, Jobs
<1> QED
  BY <1>2, <1>3, <1>4 DEF StartFills

\* A child's answer to a survey is counted; the last one starts the follow-fills.
LEMMA SurveyKeeps == ASSUME Inv, NEW c \in Children, Survey(c) PROVE Inv'
<1> DEFINE r == Head(queue[c])
           cnsm == [d \in DOMAIN m_cnsm \cup {c} |->
                      IF d = c THEN Furthest(edges[c], m_hn) ELSE m_cnsm[d]]
<1>1. queue[c] # <<>> /\ r.op = "survey"
  BY DEF Survey, AtTop
<1>2. /\ queue' = [queue EXCEPT ![c] = Tail(@)]
      /\ m_outstanding' = m_outstanding - 1
      /\ UNCHANGED <<edges, walking>>
      /\ IF m_outstanding = 1 THEN hnt_complete(cnsm, c)
         ELSE UNCHANGED <<phase, m_ffout, fills, issue>>
  BY DEF Survey, graphs
<1>3. /\ queue' \in [Children -> Seq(HeadRequest)] /\ r \in HeadRequest
      /\ \A d \in Children : \A x : Has(queue[d], x) <=> Has(queue'[d], x) \/ (d = c /\ r = x)
      /\ \A d \in Children : \A x : Single(queue[d], x) =>
            Single(queue'[d], x) /\ (d = c /\ r = x => ~Has(queue'[d], x))
      /\ \A d \in Children : \A f : InsertsIn(queue[d], f) = {} => InsertsIn(queue'[d], f) = {}
  BY <1>1, <1>2, PopQueue DEF Inv
<1>4. r = SurveyReq /\ SurveyReq \in Jobs
  BY <1>1, <1>3, Kinds DEF Jobs
<1> HIDE DEF r, cnsm
<1>5. c \in Waiting(SurveyReq) /\ <<SurveyReq, c>> \notin issue
  BY <1>3, <1>4 DEF Waiting, Inv, OnceEach
<1>6. phase = "survey" /\ m_outstanding = Cardinality(Waiting(SurveyReq))
  BY <1>5 DEF Inv, SurveyCounted
<1>7. \A f \in FillId : Waiting(FollowReq(f)) = {} /\ Inserts(f) = {}
  BY <1>6 DEF Inv, RoundCounted, Nothing
<1>8. \A d \in Children : \A f \in FillId : InsertsIn(queue'[d], f) = {}
  BY <1>3, <1>7 DEF Inserts, Inv, OnceEach
<1>9. \A d \in Children : /\ ~Doing(SurveyReq, d) /\ ~Doing(SurveyReq, d)'
                          /\ ~Has(queue'[c], SurveyReq)
                          /\ d # c => (Has(queue'[d], SurveyReq) <=> Has(queue[d], SurveyReq))
  BY <1>3, <1>4, Apart DEF Doing, Inv, OnceEach
<1>10. ASSUME NEW d \in Children, NEW f \in FillId
       PROVE  /\ <<FollowReq(f), d>> \notin issue
              /\ ~Has(queue'[d], FollowReq(f)) /\ ~Doing(FollowReq(f), d) /\ ~Doing(FollowReq(f), d)'
  BY <1>2, <1>3, <1>7 DEF Waiting, Doing
<1>11. Cardinality(Waiting(SurveyReq) \ {c}) = Cardinality(Waiting(SurveyReq)) - 1
       /\ Cardinality(Waiting(SurveyReq)) \in Nat \ {0}
  <2>1. Waiting(SurveyReq) \subseteq Children
    BY DEF Waiting
  <2>2. IsFiniteSet(Waiting(SurveyReq)) /\ Cardinality(Waiting(SurveyReq)) \in Nat
    BY <2>1, Finite
  <2>3. Cardinality(Waiting(SurveyReq)) # 0
    BY <1>5, <2>2, FS_EmptySet
  <2> QED
    BY <1>5, <2>2, <2>3, FS_RemoveElement
<1>12. CASE m_outstanding # 1
  <2>1. UNCHANGED <<phase, m_ffout, fills, issue>>
    BY <1>2, <1>12
  <2>2. Types'
    BY <2>1, <1>2, <1>3, <1>6, <1>11 DEF Inv, Types
  <2>3. Waiting(SurveyReq)' = Waiting(SurveyReq) \ {c}
    BY <2>1, <1>5, <1>9 DEF Waiting
  <2>4. SurveyCounted'
    BY <2>1, <2>3, <1>2, <1>6, <1>11 DEF SurveyCounted
  <2>5. OnceEach'
    <3>1. ASSUME NEW d \in Children, NEW x \in Jobs
          PROVE  /\ Single(queue'[d], x)
                 /\ <<x, d>> \in issue' => ~Has(queue'[d], x) /\ ~Doing(x, d)'
                 /\ Doing(x, d)' => ~Has(queue'[d], x)
      BY <2>1, <1>2, <1>3 DEF Inv, OnceEach, Doing
    <3> QED
      BY <3>1, <1>8 DEF OnceEach
  <2>6. \A f \in FillId : Nothing(f)'
    BY <2>1, <1>8, <1>10 DEF Nothing, Waiting, Inserts, FillId
  <2>7. RoundCounted' /\ FillsLeft'
    BY <2>1, <2>6, <1>6 DEF RoundCounted, FillsLeft
  <2> QED
    BY <2>2, <2>4, <2>5, <2>7 DEF Inv
<1>13. CASE m_outstanding = 1
  <2>1. hnt_complete(cnsm, c)
    BY <1>2, <1>13
  <2>2. Waiting(SurveyReq) = {c}
    <3>1. Cardinality(Waiting(SurveyReq) \ {c}) = 0
      BY <1>6, <1>11, <1>13
    <3>2. IsFiniteSet(Waiting(SurveyReq) \ {c})
      BY Finite DEF Waiting
    <3>3. Waiting(SurveyReq) \ {c} = {}
      BY <3>1, <3>2, FS_EmptySet
    <3> QED
      BY <3>3, <1>5
  <2>3. issue = {}
    <3> SUFFICES ASSUME NEW i \in issue PROVE FALSE
      OBVIOUS
    <3>1. PICK x \in Jobs, d \in Children : i = <<x, d>>
      BY DEF Inv, Types
    <3>2. x # SurveyReq
      BY <3>1, <2>2, <1>5 DEF Waiting
    <3> QED
      BY <3>1, <3>2, <1>10 DEF Jobs
  <2>4. Quiet'
    <3>1. ASSUME NEW d \in Children, NEW x \in Jobs PROVE ~Has(queue'[d], x) /\ ~Doing(x, d)'
      <4>1. CASE x = SurveyReq
        BY <4>1, <2>2, <1>9 DEF Waiting
      <4>2. CASE \E f \in FillId : x = FollowReq(f)
        BY <4>2, <1>10
      <4> QED
        BY <4>1, <4>2 DEF Jobs
    <3> QED
      BY <3>1, <1>8 DEF Quiet
  <2>5. m_outstanding' = 0
    BY <1>2, <1>13
  <2>6. cnsm[c] = Furthest(edges[c], m_hn)
    BY DEF cnsm
  <2>7. ASSUME NEW ids \in SUBSET FillId, StartFills(ids, c), Unique(cnsm) # {}
        PROVE  Inv'
    <3>0. /\ DOMAIN fills' = ids /\ fills' \in [ids -> Fill]
          /\ m_ffout' \in Nat /\ phase' = "fill" /\ issue' \subseteq Jobs \X Children
      BY <2>7, FillTypes
    <3>1. Types'
      BY <3>0, <2>5, <1>2, <1>3 DEF Inv, Types
    <3>2. NChildren > 1
      BY <2>6, <2>7, OneAgrees
    <3> QED
      BY <2>4, <2>7, <3>1, <3>2, FillsStart
  <2>8. CASE Unique(cnsm) # {} /\ val = 0 /\ directed_follow_fill(cnsm, c)
    <3>1. Unique(cnsm) \in SUBSET FillId
      BY DEF Unique
    <3> QED
      BY <2>7, <2>8, <3>1 DEF directed_follow_fill
  <2>9. CASE Unique(cnsm) # {} /\ val = 1 /\ full_follow_fill(c)
    <3>1. {f \in FillId : f.hn = NoRef} \in SUBSET FillId
      OBVIOUS
    <3> QED
      BY <2>7, <2>9, <3>1 DEF full_follow_fill
  <2>10. CASE phase' \in {"good", "threw"} /\ UNCHANGED <<m_ffout, fills, issue>>
    <3>1. Types'
      BY <2>5, <2>10, <1>2, <1>3 DEF Inv, Types
    <3> QED
      BY <2>3, <2>4, <2>10, <3>1, RestStays
  <2> QED
    BY <2>1, <2>8, <2>9, <2>10 DEF hnt_complete
<1> QED
  BY <1>12, <1>13
-----------------------------------------------------------------------------
(* The follow-fills *)

\* A fill with something left to do is one of this round, and not complete.
LEMMA FillAtWork ==
    ASSUME Inv, NEW f \in FillId, Waiting(FollowReq(f)) # {} \/ Inserts(f) # {}
    PROVE  /\ phase = "fill" /\ f \in DOMAIN fills /\ fills[f] \in Fill
           /\ FillOK(f) /\ fills[f].completed = 0
<1>1. phase = "fill" /\ f \in DOMAIN fills /\ FillOK(f)
  BY DEF Inv, RoundCounted, Nothing
<1>2. fills[f] \in Fill
  BY <1>1 DEF Inv, Types
<1>3. IsFiniteSet(Waiting(FollowReq(f))) /\ IsFiniteSet(Inserts(f))
  BY Finite, InsertsFinite DEF Inv, Waiting
<1>4. Cardinality(Waiting(FollowReq(f))) # 0 \/ Cardinality(Inserts(f)) # 0
  BY <1>3, FS_EmptySet
<1> QED
  BY <1>1, <1>2, <1>4 DEF FillOK

\* When one fill is left, there is nothing to do for the others.
LEMMA OneLeft ==
    ASSUME Inv, phase = "fill", NEW f \in DOMAIN fills, fills[f].completed = 0, m_ffout = 1,
           NEW g \in FillId, g # f
    PROVE  Nothing(g)
<1>1. CASE g \in DOMAIN fills
  <2>1. f \in Incomplete /\ Cardinality(Incomplete) = 1 /\ IsFiniteSet(Incomplete)
    BY Finite DEF Incomplete, Inv, FillsLeft, Types
  <2>2. Cardinality(Incomplete \ {f}) = 0
    <3>1. Cardinality(Incomplete \ {f}) = Cardinality(Incomplete) - 1
      BY <2>1, FS_RemoveElement
    <3> QED
      BY <2>1, <3>1
  <2>3. IsFiniteSet(Incomplete \ {f})
    BY <2>1, FS_Subset
  <2>4. g \notin Incomplete
    BY <2>2, <2>3, FS_EmptySet
  <2>5. FillOK(g) /\ fills[g].completed # 0
    BY <1>1, <2>4 DEF Incomplete, Inv, RoundCounted
  <2>6. Cardinality(Waiting(FollowReq(g))) = 0 /\ Cardinality(Inserts(g)) = 0
    BY <2>5 DEF FillOK
  <2>7. IsFiniteSet(Waiting(FollowReq(g))) /\ IsFiniteSet(Inserts(g))
    BY Finite, InsertsFinite DEF Inv, Waiting
  <2> QED
    BY <2>6, <2>7, FS_EmptySet DEF Nothing
<1>2. CASE g \notin DOMAIN fills
  BY <1>2 DEF Inv, RoundCounted
<1> QED
  BY <1>1, <1>2

\* A step that concerns one fill leaves the others alone.
LEMMA OneFillSteps ==
    ASSUME Inv, phase = "fill", phase' = "fill", NEW f \in DOMAIN fills, fills[f].completed = 0,
           Types', OnceEach', FillOK(f)',
           DOMAIN fills' = DOMAIN fills,
           \A g \in DOMAIN fills : g # f => fills'[g] = fills[g],
           \A x \in Jobs : x # FollowReq(f) => Waiting(x)' = Waiting(x),
           \A g \in FillId : g # f => /\ Cardinality(Inserts(g)') = Cardinality(Inserts(g))
                                      /\ Inserts(g) = {} => Inserts(g)' = {},
           m_ffout' = IF fills'[f].completed = 0 THEN m_ffout ELSE m_ffout - 1
    PROVE  Inv'
<1>1. SurveyReq \in Jobs /\ \A g \in FillId : FollowReq(g) \in Jobs
  BY DEF Jobs
<1>2. SurveyCounted'
  BY <1>1, Apart DEF Inv, SurveyCounted
<1>3. ASSUME NEW g \in FillId
      PROVE  IF phase' = "fill" /\ g \in DOMAIN fills' THEN FillOK(g)' ELSE Nothing(g)'
  <2>1. CASE g = f
    BY <2>1
  <2>2. CASE g # f
    <3>1. Waiting(FollowReq(g))' = Waiting(FollowReq(g))
      BY <1>1, <2>2, Apart
    <3>2. g \in DOMAIN fills /\ FillOK(g) => FillOK(g)'
      BY <2>2, <3>1 DEF FillOK
    <3>3. Nothing(g) => Nothing(g)'
      BY <2>2, <3>1 DEF Nothing
    <3> QED
      BY <3>2, <3>3 DEF Inv, RoundCounted
  <2> QED
    BY <2>1, <2>2
<1>4. FillsLeft'
  <2>1. f \in Incomplete /\ IsFiniteSet(Incomplete) /\ m_ffout = Cardinality(Incomplete)
    BY Finite DEF Incomplete, Inv, FillsLeft, Types
  <2>2. Incomplete' = IF fills'[f].completed = 0 THEN Incomplete ELSE Incomplete \ {f}
    BY DEF Incomplete
  <2>3. Cardinality(Incomplete \ {f}) = Cardinality(Incomplete) - 1
    BY <2>1, FS_RemoveElement
  <2> QED
    BY <2>1, <2>2, <2>3 DEF FillsLeft
<1> QED
  BY <1>2, <1>3, <1>4 DEF Inv, RoundCounted

\* A walk reports an edge: the insert is counted when it is enqueued.
LEMMA EdgeKeeps == ASSUME Inv, NEW c \in Children, het_edge(c) PROVE Inv'
<1>0. PICK f : f = walking[c].by
  OBVIOUS
<1>1. PICK e \in walking[c].left :
        /\ walking' = [walking EXCEPT ![c].left = @ \ {e}]
        /\ fills' = [fills EXCEPT ![f].m_fillsout = @ + 1]
        /\ queue' = [queue EXCEPT ![f.targcp] = Append(@, InsertReq(f, e))]
        /\ UNCHANGED <<edges, phase, m_outstanding, m_ffout, issue>>
  BY <1>0 DEF het_edge, graphs, top, survey
<1>2. f \in FillId /\ e \in Edges
  BY <1>0, <1>1 DEF Inv, Types
<1>3. Doing(FollowReq(f), c) /\ c \in Waiting(FollowReq(f))
  BY <1>0, <1>2 DEF Doing, Waiting
<1>4. /\ phase = "fill" /\ f \in DOMAIN fills /\ fills[f] \in Fill
      /\ FillOK(f) /\ fills[f].completed = 0
  BY <1>2, <1>3, FillAtWork
<1>5. PICK r : r = InsertReq(f, e)
  OBVIOUS
<1>6. r \in HeadRequest /\ r \notin Jobs /\ \A g : IsInsert(r, g) <=> g = f
  BY <1>2, <1>5, Apart DEF Jobs, HeadRequest
<1>7. f.targcp \in Children
  BY <1>2 DEF FillId
<1>8. /\ queue' \in [Children -> Seq(HeadRequest)]
      /\ \A d \in Children : \A x : Has(queue'[d], x) <=> Has(queue[d], x) \/ (d = f.targcp /\ r = x)
      /\ \A d \in Children : \A x : Single(queue[d], x) /\ (d = f.targcp /\ r = x => ~Has(queue[d], x))
                                     => Single(queue'[d], x)
      /\ Cardinality(InsertsIn(queue'[f.targcp], f)) = Cardinality(InsertsIn(queue[f.targcp], f)) + 1
      /\ \A d \in Children : \A g : ~(d = f.targcp /\ g = f) =>
            InsertsIn(queue'[d], g) = InsertsIn(queue[d], g)
  <2>1. PICK t \in Children : t = f.targcp
    BY <1>7
  <2>2. Types /\ queue' = [queue EXCEPT ![t] = Append(@, r)]
    BY <1>1, <1>5, <2>1 DEF Inv
  <2>3. /\ queue' \in [Children -> Seq(HeadRequest)]
        /\ \A d \in Children : \A x : Has(queue'[d], x) <=> Has(queue[d], x) \/ (d = t /\ r = x)
        /\ \A d \in Children : \A x : Single(queue[d], x) /\ (d = t /\ r = x => ~Has(queue[d], x))
                                       => Single(queue'[d], x)
        /\ \A d \in Children : \A g : d = t /\ IsInsert(r, g) =>
              Cardinality(InsertsIn(queue'[d], g)) = Cardinality(InsertsIn(queue[d], g)) + 1
        /\ \A d \in Children : \A g : ~(d = t /\ IsInsert(r, g)) =>
              InsertsIn(queue'[d], g) = InsertsIn(queue[d], g)
    BY <1>6, <2>2, PushQueue
  <2> QED
    BY <1>6, <2>1, <2>3
<1>9. /\ walking' \in [Children -> [by : FillId \cup {NoFill}, left : SUBSET Edges]]
      /\ \A d \in Children : walking'[d].by = walking[d].by /\ walking'[d].left \subseteq walking[d].left
  BY <1>1 DEF Inv, Types
<1>10. /\ DOMAIN fills' = DOMAIN fills /\ fills' \in [DOMAIN fills -> Fill]
       /\ fills'[f] = [fills[f] EXCEPT !.m_fillsout = @ + 1]
       /\ \A g \in DOMAIN fills : g # f => fills'[g] = fills[g]
  <2>1. [fills[f] EXCEPT !.m_fillsout = @ + 1] \in Fill
    BY <1>4 DEF Fill
  <2>2. fills' = [fills EXCEPT ![f] = [fills[f] EXCEPT !.m_fillsout = @ + 1]]
    BY <1>1
  <2> QED
    BY <1>4, <2>1, <2>2 DEF Inv, Types
<1>11. Types'
  BY <1>1, <1>8, <1>9, <1>10 DEF Inv, Types
<1>12. \A x \in Jobs : \A d \in Children : Doing(x, d)' <=> Doing(x, d)
  BY <1>9 DEF Doing
<1>13. OnceEach'
  <2>1. ASSUME NEW d \in Children, NEW x \in Jobs
        PROVE  /\ Single(queue'[d], x)
               /\ <<x, d>> \in issue' => ~Has(queue'[d], x) /\ ~Doing(x, d)'
               /\ Doing(x, d)' => ~Has(queue'[d], x)
    BY <1>1, <1>6, <1>8, <1>12 DEF Inv, OnceEach
  <2>2. ASSUME NEW d \in Children, NEW g \in FillId, g.targcp # d
        PROVE  InsertsIn(queue'[d], g) = {}
    BY <1>8, <2>2 DEF Inv, OnceEach
  <2> QED
    BY <2>1, <2>2 DEF OnceEach
<1>14. \A x \in Jobs : Waiting(x)' = Waiting(x)
  BY <1>1, <1>6, <1>8, <1>12 DEF Waiting
<1>15. /\ Cardinality(Inserts(f)') = Cardinality(Inserts(f)) + 1
       /\ \A g \in FillId : g # f => Inserts(g)' = Inserts(g)
  BY <1>2, <1>8 DEF Inserts, FillId
<1>16. FillOK(f)' /\ fills'[f].completed = 0
  <2>1. FollowReq(f) \in Jobs
    BY <1>2 DEF Jobs
  <2>2. Cardinality(Waiting(FollowReq(f))) # 0
    <3>1. IsFiniteSet(Waiting(FollowReq(f)))
      BY Finite DEF Waiting
    <3> QED
      BY <1>3, <3>1, FS_EmptySet
  <2>3. Waiting(FollowReq(f))' = Waiting(FollowReq(f))
    BY <1>14, <2>1
  <2>4. /\ fills'[f].m_outstanding = fills[f].m_outstanding /\ fills'[f].completed = 0
        /\ fills'[f].m_travdone = fills[f].m_travdone
        /\ fills'[f].m_fillsout = fills[f].m_fillsout + 1
    BY <1>4, <1>10 DEF Fill
  <2> QED
    BY <1>4, <1>15, <2>2, <2>3, <2>4 DEF FillOK
<1> QED
  BY <1>1, <1>4, <1>10, <1>11, <1>13, <1>14, <1>15, <1>16, OneFillSteps

\* What the top request writes when a follow-fill is complete has its type.
LEMMA BackTypes ==
    ASSUME Inv, NEW c, m_ffout # 0,
           FillBack(c) \/ UNCHANGED <<phase, val, m_ffout, survey, issue, issuer>>
    PROVE  /\ issue' \subseteq Jobs \X Children /\ m_outstanding' \in Nat /\ m_ffout' \in Nat
           /\ phase' \in {"idle", "survey", "fill", "good", "threw"}
<1>1. CASE UNCHANGED <<phase, val, m_ffout, survey, issue, issuer>>
  BY <1>1 DEF Inv, Types, survey
<1>2. CASE FillBack(c) /\ m_ffout = 1
  <2>1. m_ffout' = 0 /\ \E n : StartSurvey(n, c)
    BY <1>2 DEF FillBack, last_check, second_check
  <2> QED
    BY <2>1, HeadFurthestAssumption DEF StartSurvey, Issue, Jobs
<1>3. CASE FillBack(c) /\ m_ffout # 1
  BY <1>3 DEF FillBack, Inv, Types, survey
<1> QED
  BY <1>1, <1>2, <1>3

\* The last follow-fill of a round is complete: nothing is left, and a survey starts.
LEMMA LastBack ==
    ASSUME Inv, phase = "fill", NEW f \in DOMAIN fills, fills[f].completed = 0, m_ffout = 1,
           Types', NEW c, FillBack(c),
           \A d \in Children : ~Has(queue'[d], FollowReq(f)) /\ ~Doing(FollowReq(f), d)',
           \A d \in Children : \A x \in Jobs : Has(queue'[d], x) => Has(queue[d], x),
           \A d \in Children : \A x \in Jobs : Doing(x, d)' => Doing(x, d),
           \A d \in Children : InsertsIn(queue'[d], f) = {},
           \A d \in Children : \A g \in FillId : InsertsIn(queue[d], g) = {} => InsertsIn(queue'[d], g) = {}
    PROVE  Inv'
<1>1. ASSUME NEW d \in Children, NEW x \in Jobs PROVE ~Has(queue'[d], x) /\ ~Doing(x, d)'
  <2>1. CASE x = SurveyReq
    <3>1. Waiting(SurveyReq) = {}
      BY DEF Inv, SurveyCounted
    <3> QED
      BY <2>1, <3>1 DEF Waiting
  <2>2. CASE \E g \in FillId : x = FollowReq(g) /\ g # f
    <3>1. PICK g \in FillId : x = FollowReq(g) /\ g # f
      BY <2>2
    <3>2. Waiting(x) = {}
      BY <3>1, OneLeft DEF Nothing
    <3> QED
      BY <3>2 DEF Waiting
  <2>3. CASE x = FollowReq(f)
    BY <2>3
  <2> QED
    BY <2>1, <2>2, <2>3 DEF Jobs
<1>2. ASSUME NEW d \in Children, NEW g \in FillId PROVE InsertsIn(queue'[d], g) = {}
  <2>1. CASE g = f
    BY <2>1
  <2>2. CASE g # f
    <3>1. Inserts(g) = {}
      BY <2>2, OneLeft DEF Nothing
    <3>2. InsertsIn(queue[d], g) = {}
      BY <3>1 DEF Inserts, Inv, OnceEach
    <3> QED
      BY <3>2
  <2> QED
    BY <2>1, <2>2
<1>3. Quiet'
  BY <1>1, <1>2 DEF Quiet
<1>4. \E n : StartSurvey(n, c)
  BY DEF FillBack, last_check, second_check
<1> QED
  BY <1>3, <1>4, SurveyStarts DEF StartSurvey, Issue

\* A walk ends: one answer less to come.
LEMMA WalkEndKeeps == ASSUME Inv, NEW c \in Children, het_complete(c) PROVE Inv'
<1>0. PICK f : f = walking[c].by
  OBVIOUS
<1>1. PICK q : q = fills[f]
  OBVIOUS
<1>2. /\ walking[c] # NotWalking /\ walking[c].left = {}
      /\ walking' = [walking EXCEPT ![c] = NotWalking]
      /\ fills' = [fills EXCEPT ![f] = [q EXCEPT !.m_outstanding = @ - 1,
                                                 !.m_travdone = @ \/ q.m_outstanding = 1,
                                                 !.completed = @ + (IF TravDone(q) THEN 1 ELSE 0)]]
      /\ IF TravDone(q) THEN FillBack(c)
                        ELSE UNCHANGED <<phase, val, m_ffout, survey, issue, issuer>>
      /\ UNCHANGED <<edges, queue>>
  BY <1>0, <1>1 DEF het_complete, graphs
<1>3. f \in FillId
  <2>1. walking[c] \in [by : FillId \cup {NoFill}, left : SUBSET Edges]
    BY DEF Inv, Types
  <2>2. f = NoFill => walking[c] = NotWalking
    BY <1>0, <1>2, <2>1 DEF NotWalking
  <2> QED
    BY <1>0, <1>2, <2>1, <2>2
<1>4. Doing(FollowReq(f), c) /\ c \in Waiting(FollowReq(f)) /\ FollowReq(f) \in Jobs
  BY <1>0, <1>3 DEF Doing, Waiting, Jobs
<1>5. <<FollowReq(f), c>> \notin issue /\ ~Has(queue[c], FollowReq(f))
  BY <1>4 DEF Inv, OnceEach
<1>6. /\ phase = "fill" /\ f \in DOMAIN fills /\ q \in Fill
      /\ FillOK(f) /\ q.completed = 0 /\ fills[f].completed = 0
  BY <1>1, <1>3, <1>4, FillAtWork
<1>7. /\ walking' \in [Children -> [by : FillId \cup {NoFill}, left : SUBSET Edges]]
      /\ walking'[c] = NotWalking
      /\ \A d \in Children : d # c => walking'[d] = walking[d]
  BY <1>2 DEF Inv, Types, NotWalking
<1>8. \A d \in Children : \A x \in Jobs : Doing(x, d)' <=> Doing(x, d) /\ d # c
  BY <1>7, Apart DEF Doing, NotWalking
<1>9. \A x : Doing(x, c) => x = FollowReq(f)
  BY <1>0 DEF Doing
<1>10. /\ Cardinality(Waiting(FollowReq(f)) \ {c}) = q.m_outstanding - 1
       /\ q.m_outstanding - 1 \in Nat /\ IsFiniteSet(Waiting(FollowReq(f)) \ {c})
  <2>1. IsFiniteSet(Waiting(FollowReq(f))) /\ Cardinality(Waiting(FollowReq(f))) \in Nat
        /\ IsFiniteSet(Waiting(FollowReq(f)) \ {c})
    BY Finite DEF Waiting
  <2>2. Cardinality(Waiting(FollowReq(f))) # 0
    BY <1>4, <2>1, FS_EmptySet
  <2>3. q.m_outstanding = Cardinality(Waiting(FollowReq(f)))
    BY <1>1, <1>6 DEF FillOK
  <2> QED
    BY <1>4, <2>1, <2>2, <2>3, FS_RemoveElement
<1>11. /\ DOMAIN fills' = DOMAIN fills /\ fills' \in [DOMAIN fills -> Fill]
       /\ fills'[f].m_outstanding = q.m_outstanding - 1
       /\ fills'[f].m_travdone = (q.m_travdone \/ q.m_outstanding = 1)
       /\ fills'[f].m_fillsout = q.m_fillsout
       /\ fills'[f].completed = (IF TravDone(q) THEN 1 ELSE 0)
       /\ \A g \in DOMAIN fills : g # f => fills'[g] = fills[g]
  <2>1. PICK n \in {0, 1} : n = IF TravDone(q) THEN 1 ELSE 0
    OBVIOUS
  <2>2. PICK b \in BOOLEAN : b = (q.m_travdone \/ q.m_outstanding = 1)
    OBVIOUS
  <2>3. PICK p : p = [q EXCEPT !.m_outstanding = q.m_outstanding - 1, !.m_travdone = b, !.completed = n]
    OBVIOUS
  <2>4. fills' = [fills EXCEPT ![f] = p]
    <3>1. q.completed + (IF TravDone(q) THEN 1 ELSE 0) = n
      BY <1>6, <2>1
    <3>2. p = [q EXCEPT !.m_outstanding = @ - 1, !.m_travdone = @ \/ q.m_outstanding = 1,
                        !.completed = @ + (IF TravDone(q) THEN 1 ELSE 0)]
      BY <2>2, <2>3, <3>1
    <3> QED
      BY <1>2, <3>2
  <2>5. p \in Fill
    BY <1>6, <1>10, <2>1, <2>2, <2>3 DEF Fill
  <2>6. /\ p.m_outstanding = q.m_outstanding - 1 /\ p.m_travdone = b
        /\ p.m_fillsout = q.m_fillsout /\ p.completed = n
    BY <1>6, <2>3 DEF Fill
  <2> QED
    BY <1>6, <2>1, <2>2, <2>4, <2>5, <2>6 DEF Inv, Types
<1>12. m_ffout # 0
  <2>1. f \in Incomplete /\ IsFiniteSet(Incomplete) /\ m_ffout = Cardinality(Incomplete)
    BY <1>6, Finite DEF Incomplete, Inv, FillsLeft, Types
  <2> QED
    BY <2>1, FS_EmptySet
<1>13. Types'
  <2>1. /\ issue' \subseteq Jobs \X Children /\ m_outstanding' \in Nat /\ m_ffout' \in Nat
        /\ phase' \in {"idle", "survey", "fill", "good", "threw"}
    BY <1>2, <1>12, BackTypes
  <2>2. ASSUME NEW d \in Children, walking'[d].by = NoFill PROVE walking'[d].left = {}
    <3>1. NotWalking.left = {}
      BY DEF NotWalking
    <3>2. d # c => walking'[d].by = walking[d].by /\ walking'[d].left = walking[d].left
      BY <1>7
    <3>3. walking[d].by = NoFill => walking[d].left = {}
      BY DEF Inv, Types
    <3> QED
      BY <2>2, <3>1, <3>2, <3>3, <1>7
  <2> QED
    BY <2>1, <2>2, <1>2, <1>7, <1>11 DEF Inv, Types
<1>14. CASE TravDone(q) /\ m_ffout = 1
  <2>1. q.m_outstanding = 1 /\ q.m_fillsout = 0
    BY <1>14 DEF TravDone
  <2>2. Waiting(FollowReq(f)) \ {c} = {}
    BY <2>1, <1>10, FS_EmptySet
  <2>3. \A d \in Children : ~Has(queue'[d], FollowReq(f)) /\ ~Doing(FollowReq(f), d)'
    BY <2>2, <1>2, <1>4, <1>5, <1>8 DEF Waiting
  <2>4. Inserts(f) = {}
    <3>1. Cardinality(Inserts(f)) = 0 /\ IsFiniteSet(Inserts(f))
      BY <2>1, <1>1, <1>3, <1>6, InsertsFinite DEF FillOK, Inv
    <3> QED
      BY <3>1, FS_EmptySet
  <2>5. \A d \in Children : InsertsIn(queue'[d], f) = {}
    BY <2>4, <1>2, <1>3 DEF Inserts, Inv, OnceEach
  <2>6. FillBack(c)
    BY <1>2, <1>14
  <2> QED
    BY <2>3, <2>5, <2>6, <1>2, <1>6, <1>8, <1>13, <1>14, LastBack
<1>15. CASE ~(TravDone(q) /\ m_ffout = 1)
  <2>1. /\ UNCHANGED <<phase, issue, m_outstanding>>
        /\ m_ffout' = IF TravDone(q) THEN m_ffout - 1 ELSE m_ffout
    BY <1>2, <1>15 DEF FillBack, survey
  <2>2. OnceEach'
    <3>1. ASSUME NEW d \in Children, NEW x \in Jobs
          PROVE  /\ Single(queue'[d], x)
                 /\ <<x, d>> \in issue' => ~Has(queue'[d], x) /\ ~Doing(x, d)'
                 /\ Doing(x, d)' => ~Has(queue'[d], x)
      BY <2>1, <1>2, <1>8 DEF Inv, OnceEach
    <3> QED
      BY <3>1, <1>2 DEF Inv, OnceEach
  <2>3. \A x \in Jobs : x # FollowReq(f) => Waiting(x)' = Waiting(x)
    BY <2>1, <1>2, <1>8, <1>9 DEF Waiting
  <2>4. Waiting(FollowReq(f))' = Waiting(FollowReq(f)) \ {c}
    BY <2>1, <1>2, <1>4, <1>5, <1>8 DEF Waiting
  <2>5. \A g \in FillId : Inserts(g)' = Inserts(g)
    BY <1>2 DEF Inserts
  <2>6. FillOK(f)'
    <3>1. /\ q.m_fillsout = Cardinality(Inserts(f)) /\ (q.m_travdone <=> q.m_outstanding = 0)
      BY <1>1, <1>6 DEF FillOK
    <3>2. fills'[f].m_outstanding = Cardinality(Waiting(FollowReq(f))')
      BY <2>4, <1>10, <1>11
    <3>3. fills'[f].m_fillsout = Cardinality(Inserts(f)')
      BY <2>5, <3>1, <1>3, <1>11
    <3>4. fills'[f].m_travdone <=> fills'[f].m_outstanding = 0
      BY <3>1, <1>6, <1>10, <1>11 DEF Fill
    <3>5. fills'[f].completed = IF fills'[f].m_outstanding = 0 /\ fills'[f].m_fillsout = 0
                                THEN 1 ELSE 0
      BY <1>6, <1>10, <1>11 DEF TravDone, Fill
    <3> QED
      BY <3>2, <3>3, <3>4, <3>5 DEF FillOK
  <2>7. m_ffout' = IF fills'[f].completed = 0 THEN m_ffout ELSE m_ffout - 1
    BY <2>1, <1>11
  <2>8. phase' = "fill" /\ \A g \in FillId : g # f =>
            Cardinality(Inserts(g)') = Cardinality(Inserts(g)) /\ (Inserts(g) = {} => Inserts(g)' = {})
    BY <2>1, <2>5, <1>6
  <2> QED
    BY <2>2, <2>3, <2>6, <2>7, <2>8, <1>6, <1>11, <1>13, OneFillSteps
<1> QED
  BY <1>14, <1>15

\* An insert is made: one less that its follow-fill waits for.
LEMMA InsertKeeps == ASSUME Inv, NEW c \in Children, Insert(c) PROVE Inv'
<1> DEFINE r == Head(queue[c])
<1>1. queue[c] # <<>> /\ r.op = "insert"
  BY DEF Insert, AtTop
<1>2. /\ queue' = [queue EXCEPT ![c] = Tail(@)]
      /\ edges' = [edges EXCEPT ![c] = insert_head(@, r.edge)]
      /\ UNCHANGED walking
  BY DEF Insert
<1>3. /\ queue' \in [Children -> Seq(HeadRequest)] /\ r \in HeadRequest
      /\ \A d \in Children : \A x : Has(queue[d], x) <=> Has(queue'[d], x) \/ (d = c /\ r = x)
      /\ \A d \in Children : \A x : Single(queue[d], x) =>
            Single(queue'[d], x) /\ (d = c /\ r = x => ~Has(queue'[d], x))
      /\ \A d \in Children : \A f : d = c /\ IsInsert(r, f) =>
            Cardinality(InsertsIn(queue[d], f)) = Cardinality(InsertsIn(queue'[d], f)) + 1
      /\ \A d \in Children : \A f : ~(d = c /\ IsInsert(r, f)) =>
            Cardinality(InsertsIn(queue[d], f)) = Cardinality(InsertsIn(queue'[d], f))
      /\ \A d \in Children : \A f : InsertsIn(queue[d], f) = {} => InsertsIn(queue'[d], f) = {}
  BY <1>1, <1>2, PopQueue DEF Inv
<1>4. PICK f \in FillId \cup {NoFill}, e \in Edges : r = InsertReq(f, e) /\ r.by = f /\ r.edge = e
  BY <1>1, <1>3, Kinds
<1>5. r \notin Jobs /\ \A g : IsInsert(r, g) <=> g = f
  BY <1>4, Apart DEF Jobs
<1>6. edges' \in [Children -> SUBSET Edges]
  BY <1>2, <1>4 DEF Inv, Types, insert_head
<1>7. \A d \in Children : \A x \in Jobs : Has(queue'[d], x) <=> Has(queue[d], x)
  BY <1>3, <1>5
<1>8. \A d \in Children : \A x : Doing(x, d)' <=> Doing(x, d)
  BY <1>2 DEF Doing
<1>9. ASSUME issue' = issue PROVE OnceEach' /\ \A x \in Jobs : Waiting(x)' = Waiting(x)
  <2>1. ASSUME NEW d \in Children, NEW x \in Jobs
        PROVE  /\ Single(queue'[d], x)
               /\ <<x, d>> \in issue' => ~Has(queue'[d], x) /\ ~Doing(x, d)'
               /\ Doing(x, d)' => ~Has(queue'[d], x)
    BY <1>3, <1>7, <1>8, <1>9 DEF Inv, OnceEach
  <2>2. ASSUME NEW d \in Children, NEW g \in FillId, g.targcp # d
        PROVE  InsertsIn(queue'[d], g) = {}
    BY <1>3, <2>2 DEF Inv, OnceEach
  <2>3. OnceEach'
    BY <2>1, <2>2 DEF OnceEach
  <2>4. \A x \in Jobs : Waiting(x)' = Waiting(x)
    BY <1>7, <1>8, <1>9 DEF Waiting
  <2> QED
    BY <2>3, <2>4
<1>10. \A g \in FillId : /\ g # f => Cardinality(Inserts(g)') = Cardinality(Inserts(g))
                         /\ Inserts(g) = {} => Inserts(g)' = {}
  BY <1>3, <1>5 DEF Inserts, FillId
<1>11. CASE f = NoFill
  <2>1. UNCHANGED <<fills, phase, m_ffout, m_outstanding, issue>>
    BY <1>4, <1>11 DEF Insert, survey
  <2>2. Types'
    BY <2>1, <1>2, <1>3, <1>6 DEF Inv, Types
  <2>3. \A g \in FillId : g # f
    BY <1>11, Apart
  <2> QED
    BY <2>1, <2>2, <2>3, <1>9, <1>10, CountsStay
<1>12. CASE f # NoFill
  <2>0. PICK q : q = fills[f]
    OBVIOUS
  <2>1. /\ f \in FillId
        /\ fills' = [fills EXCEPT ![f] = [q EXCEPT !.m_fillsout = @ - 1,
                                                   !.completed = @ + (IF FillsDone(q) THEN 1 ELSE 0)]]
        /\ IF FillsDone(q) THEN FillBack(c)
                           ELSE UNCHANGED <<phase, val, m_ffout, survey, issue, issuer>>
    BY <1>4, <1>12, <2>0 DEF Insert
  <2>2. c = f.targcp
    <3>1. InsertsIn(queue[c], f) # {}
      <4>1. queue[c] \in Seq(HeadRequest)
        BY DEF Inv, Types
      <4>2. Len(queue[c]) \in Nat \ {0} /\ queue[c][1] = r
        BY <4>1, <1>1
      <4> QED
        BY <4>2, <1>5 DEF InsertsIn
    <3> QED
      BY <2>1, <3>1 DEF Inv, OnceEach
  <2>3. /\ Cardinality(Inserts(f)) = Cardinality(Inserts(f)') + 1
        /\ Cardinality(Inserts(f)') \in Nat /\ IsFiniteSet(Inserts(f)')
    <3>1. Cardinality(Inserts(f)) = Cardinality(Inserts(f)') + 1
      BY <1>3, <1>5, <2>2 DEF Inserts
    <3>2. IsFiniteSet(Inserts(f)')
      <4>1. Len(queue'[c]) \in Nat
        BY <1>3
      <4>2. IsFiniteSet(1..Len(queue'[c]))
        BY <4>1, FS_Interval
      <4>3. InsertsIn(queue'[c], f) \subseteq 1..Len(queue'[c])
        BY DEF InsertsIn
      <4>4. IsFiniteSet(InsertsIn(queue'[c], f))
        BY <4>2, <4>3, FS_Subset
      <4> QED
        BY <4>4, <2>2 DEF Inserts
    <3> QED
      BY <3>1, <3>2, FS_CardinalityType
  <2>4. Inserts(f) # {}
    BY <2>3, FS_EmptySet
  <2>5. /\ phase = "fill" /\ f \in DOMAIN fills /\ q \in Fill
        /\ FillOK(f) /\ q.completed = 0 /\ fills[f].completed = 0
    BY <2>0, <2>1, <2>4, FillAtWork
  <2>6. q.m_fillsout = Cardinality(Inserts(f)) /\ q.m_fillsout - 1 \in Nat
        /\ q.m_fillsout - 1 = Cardinality(Inserts(f)')
    BY <2>0, <2>3, <2>5 DEF FillOK
  <2>7. /\ DOMAIN fills' = DOMAIN fills /\ fills' \in [DOMAIN fills -> Fill]
        /\ fills'[f].m_outstanding = q.m_outstanding
        /\ fills'[f].m_travdone = q.m_travdone
        /\ fills'[f].m_fillsout = q.m_fillsout - 1
        /\ fills'[f].completed = (IF FillsDone(q) THEN 1 ELSE 0)
        /\ \A g \in DOMAIN fills : g # f => fills'[g] = fills[g]
    <3>1. PICK n \in {0, 1} : n = IF FillsDone(q) THEN 1 ELSE 0
      OBVIOUS
    <3>2. PICK p : p = [q EXCEPT !.m_fillsout = q.m_fillsout - 1, !.completed = n]
      OBVIOUS
    <3>3. fills' = [fills EXCEPT ![f] = p]
      <4>1. q.completed + (IF FillsDone(q) THEN 1 ELSE 0) = n
        BY <2>5, <3>1
      <4>2. p = [q EXCEPT !.m_fillsout = @ - 1, !.completed = @ + (IF FillsDone(q) THEN 1 ELSE 0)]
        BY <3>2, <4>1
      <4> QED
        BY <2>1, <4>2
    <3>4. p \in Fill
      BY <2>5, <2>6, <3>1, <3>2 DEF Fill
    <3>5. /\ p.m_outstanding = q.m_outstanding /\ p.m_travdone = q.m_travdone
          /\ p.m_fillsout = q.m_fillsout - 1 /\ p.completed = n
      BY <2>5, <3>2 DEF Fill
    <3> QED
      BY <2>5, <3>1, <3>3, <3>4, <3>5 DEF Inv, Types
  <2>8. m_ffout # 0
    <3>1. f \in Incomplete /\ IsFiniteSet(Incomplete) /\ m_ffout = Cardinality(Incomplete)
      BY <2>5, Finite DEF Incomplete, Inv, FillsLeft, Types
    <3> QED
      BY <3>1, FS_EmptySet
  <2>9. Types'
    <3>1. /\ issue' \subseteq Jobs \X Children /\ m_outstanding' \in Nat /\ m_ffout' \in Nat
          /\ phase' \in {"idle", "survey", "fill", "good", "threw"}
      BY <2>1, <2>8, BackTypes
    <3> QED
      BY <3>1, <2>7, <1>2, <1>3, <1>6 DEF Inv, Types
  <2>10. CASE FillsDone(q) /\ m_ffout = 1
    <3>1. q.m_fillsout = 1 /\ q.m_outstanding = 0
      BY <2>0, <2>5, <2>10 DEF FillsDone, FillOK
    <3>2. Waiting(FollowReq(f)) = {}
      <4>1. IsFiniteSet(Waiting(FollowReq(f))) /\ Cardinality(Waiting(FollowReq(f))) = 0
        BY <2>0, <2>5, <3>1, Finite DEF Waiting, FillOK
      <4> QED
        BY <4>1, FS_EmptySet
    <3>3. FollowReq(f) \in Jobs
      BY <2>1 DEF Jobs
    <3>4. \A d \in Children : ~Has(queue'[d], FollowReq(f)) /\ ~Doing(FollowReq(f), d)'
      BY <3>2, <3>3, <1>7, <1>8 DEF Waiting
    <3>5. Inserts(f)' = {}
      BY <3>1, <2>3, <2>6, FS_EmptySet
    <3>6. \A d \in Children : InsertsIn(queue'[d], f) = {}
      BY <3>5, <2>1, <2>2, <1>3 DEF Inserts, Inv, OnceEach
    <3>7. FillBack(c)
      BY <2>1, <2>10
    <3> QED
      BY <3>4, <3>6, <3>7, <2>5, <2>9, <2>10, <1>3, <1>7, <1>8, LastBack
  <2>11. CASE ~(FillsDone(q) /\ m_ffout = 1)
    <3>1. /\ UNCHANGED <<phase, issue>>
          /\ m_ffout' = IF FillsDone(q) THEN m_ffout - 1 ELSE m_ffout
      BY <2>1, <2>11 DEF FillBack
    <3>2. OnceEach' /\ \A x \in Jobs : Waiting(x)' = Waiting(x)
      BY <3>1, <1>9
    <3>3. FillOK(f)'
      <4>1. FollowReq(f) \in Jobs
        BY <2>1 DEF Jobs
      <4>2. /\ q.m_outstanding = Cardinality(Waiting(FollowReq(f)))
            /\ q.m_travdone <=> q.m_outstanding = 0
        BY <2>0, <2>5 DEF FillOK
      <4>3. fills'[f].m_outstanding = Cardinality(Waiting(FollowReq(f))')
        BY <4>1, <4>2, <3>2, <2>7
      <4>4. fills'[f].m_fillsout = Cardinality(Inserts(f)')
        BY <2>6, <2>7
      <4>5. fills'[f].m_travdone <=> fills'[f].m_outstanding = 0
        BY <4>2, <2>7
      <4>6. fills'[f].completed = IF fills'[f].m_outstanding = 0 /\ fills'[f].m_fillsout = 0
                                  THEN 1 ELSE 0
        BY <4>2, <2>5, <2>6, <2>7 DEF FillsDone, Fill
      <4> QED
        BY <4>3, <4>4, <4>5, <4>6 DEF FillOK
    <3>4. m_ffout' = IF fills'[f].completed = 0 THEN m_ffout ELSE m_ffout - 1
      BY <3>1, <2>7
    <3> QED
      BY <3>1, <3>2, <3>3, <3>4, <2>5, <2>7, <2>9, <1>10, OneFillSteps
  <2> QED
    BY <2>10, <2>11
<1> QED
  BY <1>11, <1>12

-----------------------------------------------------------------------------
\* Before the first request nothing is counted.
LEMMA InitInv == Init => Inv
<1> SUFFICES ASSUME Init PROVE Inv
  OBVIOUS
<1>1. \A c \in Children : queue[c] = <<>> /\ walking[c] = NotWalking
  BY DEF Init
<1>2. \A c \in Children : walking[c].by \notin FillId
  BY <1>1, Apart DEF NotWalking
<1>3. \A c \in Children : \A r : ~Has(queue[c], r) /\ ~Doing(r, c) /\ Single(queue[c], r)
  BY <1>1, <1>2 DEF Has, Single, Doing
<1>4. \A c \in Children : \A f : InsertsIn(queue[c], f) = {}
  BY <1>1 DEF InsertsIn
<1>5. OnceEach
  BY <1>3, <1>4 DEF OnceEach, Init
<1>6. \A r : Waiting(r) = {}
  BY <1>3 DEF Waiting, Init
<1>7. \A f \in FillId : Nothing(f)
  BY <1>4, <1>6 DEF Nothing, Inserts, FillId
<1>8. Types
  <2>1. edges \in [Children -> SUBSET Edges]
    BY HeadFurthestAssumption DEF Init
  <2>2. queue \in [Children -> Seq(HeadRequest)]
    BY DEF Init
  <2>3. /\ walking \in [Children -> [by : FillId \cup {NoFill}, left : SUBSET Edges]]
        /\ \A c \in Children : walking[c].by = NoFill => walking[c].left = {}
    BY DEF Init, NotWalking
  <2>4. DOMAIN fills = {} /\ fills \in [{} -> Fill]
    BY DEF Init
  <2> QED
    BY <2>1, <2>2, <2>3, <2>4 DEF Types, Init
<1> QED
  BY <1>5, <1>6, <1>7, <1>8 DEF Inv, SurveyCounted, RoundCounted, FillsLeft, Init

\* Any step of a client, of a thread that enqueues and of the loops.
LEMMA StepInv == Inv /\ [Next]_vars => Inv'
<1> SUFFICES ASSUME Inv, [Next]_vars PROVE Inv'
  OBVIOUS
<1>1. ASSUME NEW hn \in Hns, bs_head_furthest_async(hn) PROVE Inv'
  BY <1>1, SubmitKeeps
<1>2. ASSUME NEW i \in issue, Enqueue(i[1], i[2]) PROVE Inv'
  BY <1>2, EnqueueKeeps
<1>3. ASSUME NEW c \in Children, Loop(c) PROVE Inv'
  BY <1>3, SurveyKeeps, FollowStartKeeps, EdgeKeeps, WalkEndKeeps, InsertKeeps DEF Loop
<1>4. ASSUME NEW e \in Late, NEW c \in Children, ClientInsert(e, c) PROVE Inv'
  BY <1>4, ClientInsertKeeps
<1>5. CASE UNCHANGED vars
  <2>1. UNCHANGED <<edges, queue, walking, phase, m_outstanding, m_ffout, fills, issue>>
    BY <1>5 DEF vars
  <2>2. Types' /\ OnceEach'
    BY <2>1 DEF Inv, Types, OnceEach, Doing
  <2>3. /\ \A r \in Jobs : Waiting(r)' = Waiting(r)
        /\ \A f \in FillId : Inserts(f)' = Inserts(f)
    BY <2>1 DEF Waiting, Doing, Inserts
  <2> QED
    BY <2>1, <2>2, <2>3, CountsStay
<1> QED
  BY <1>1, <1>2, <1>3, <1>4, <1>5 DEF Next

\* The counts are what FillsCounted compares.
LEMMA Counted == Inv => FillsCounted
<1> SUFFICES ASSUME Inv, phase = "fill"
             PROVE  /\ m_ffout = Cardinality({f \in DOMAIN fills : fills[f].completed = 0})
                    /\ \A f \in DOMAIN fills : /\ fills[f].completed <= 1
                                               /\ fills[f].completed = 1 => ~Busy(f)
  BY DEF FillsCounted
<1>1. m_ffout = Cardinality({f \in DOMAIN fills : fills[f].completed = 0})
  BY DEF Inv, FillsLeft, Incomplete
<1>2. ASSUME NEW f \in DOMAIN fills
      PROVE  fills[f].completed <= 1 /\ (fills[f].completed = 1 => ~Busy(f))
  <2>1. f \in FillId /\ FillOK(f)
    BY DEF Inv, Types, RoundCounted
  <2>2. fills[f].completed <= 1
    BY <2>1 DEF FillOK
  <2>3. ASSUME fills[f].completed = 1, Busy(f) PROVE FALSE
    <3>1. Cardinality(Waiting(FollowReq(f))) = 0 /\ Cardinality(Inserts(f)) = 0
      BY <2>1, <2>3 DEF FillOK
    <3>2. IsFiniteSet(Waiting(FollowReq(f))) /\ IsFiniteSet(Inserts(f))
      BY <2>1, Finite, InsertsFinite DEF Inv, Waiting
    <3>3. Waiting(FollowReq(f)) = {} /\ Inserts(f) = {}
      BY <3>1, <3>2, FS_EmptySet
    <3>4. PICK c \in Children :
            \/ walking[c].by = f \/ <<FollowReq(f), c>> \in issue
            \/ \E i \in 1..Len(queue[c]) : queue[c][i].op # "survey" /\ queue[c][i].by = f
      BY <2>3 DEF Busy
    <3>5. walking[c].by # f /\ <<FollowReq(f), c>> \notin issue /\ ~Has(queue[c], FollowReq(f))
      BY <2>1, <3>3 DEF Waiting, Doing
    <3>6. PICK i \in 1..Len(queue[c]) : queue[c][i].op # "survey" /\ queue[c][i].by = f
      BY <3>4, <3>5
    <3>7. queue[c][i] \in HeadRequest /\ queue[c][i] # FollowReq(f)
      BY <3>5 DEF Inv, Types, Has
    <3>8. IsInsert(queue[c][i], f)
      BY <3>6, <3>7, Kinds DEF IsInsert
    <3>9. InsertsIn(queue[c], f) # {}
      BY <3>8 DEF InsertsIn
    <3> QED
      BY <2>1, <3>3, <3>9 DEF Inserts, Inv, OnceEach
  <2> QED
    BY <2>2, <2>3
<1> QED
  BY <1>1, <1>2

\* While the children are filled, m_ffout is the number of follow-fills that are not
\* complete, each completes once, and only when every edge that was found for it has
\* been inserted: the next survey never starts early, and never fails to start for a
\* count that is off - for any number of children, any graphs, and any inserts of
\* other clients in between.
THEOREM FillsCountedHolds == Spec => []FillsCounted
<1>1. Spec => []Inv
  BY InitInv, StepInv, PTL DEF Spec
<1> QED
  BY <1>1, Counted, PTL
=============================================================================
