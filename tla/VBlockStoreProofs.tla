-------------------------- MODULE VBlockStoreProofs --------------------------
(***************************************************************************)
(* The requests of the virtual block store, for any number of children,    *)
(* keys, requests and threads.                                             *)
(*                                                                         *)
(* First, m_requests holds exactly the requests that are not done, however *)
(* the children fail: remove_req never misses its request.  The property   *)
(* is about every list of things a thread still has to do.  It needs that  *)
(* done() is in at most one place of them all for a request, and only once *)
(* m_outstanding has come down to zero; that a request that is mentioned   *)
(* anywhere is not allocated anew; and that a fill, which counts the needy *)
(* children, is never for none.                                            *)
(*                                                                         *)
(* Then the answers: m_outstanding counts the children that have not       *)
(* answered, a client is told once, and after a refresh start all children *)
(* have seen it.  A request is in one place of its way to a child and back *)
(* (Ways): to be sent, queued, with the store, to be answered.  Told says  *)
(* when the completion routines have settled that the client is told, and  *)
(* Chains that each refresh call on its way to a child finds there the     *)
(* cycle that it needs, so that no store throws.                           *)
(***************************************************************************)
EXTENDS VBlockStore, FiniteSetTheorems, TLAPS

IsList(s) == \E S : s \in Seq(S)

\* The list s has done() for the request r.
IsDone(i, r) == i.op = "done" /\ i.req = r
HasDone(s, r) == \E j \in 1..Len(s) : IsDone(s[j], r)
OneDone(s) == \A r \in Ids : \A j, k \in 1..Len(s) : IsDone(s[j], r) /\ IsDone(s[k], r) => j = k

\* A child's good answer and a fill are for requests there are; q are the requests.
ItemOK(i, q) ==
    /\ i.op \in {"good", "fill"} => i.req \in Ids
    /\ i.op = "fill" => q[i.req].m_needy # {}

ListOK(s, q) == IsList(s) /\ OneDone(s) /\ \A j \in 1..Len(s) : ItemOK(s[j], q)

ThreadOK(t, q) ==
    /\ t = [by |-> t.by, cp |-> t.cp, req |-> t.req, todo |-> t.todo]
    /\ t.todo # <<>> /\ ListOK(t.todo, q)

RequestOK(q) ==
    /\ q = [kind |-> q.kind, key |-> q.key, m_outstanding |-> q.m_outstanding,
            m_succeeded |-> q.m_succeeded, m_cmpl |-> q.m_cmpl, m_needy |-> q.m_needy,
            upcalls |-> q.upcalls]
    /\ q.m_outstanding \in Int /\ q.m_needy \subseteq Children

Shapes ==
    /\ load \in Loads /\ m_requests \subseteq Ids
    /\ DOMAIN reqs = Ids /\ \A r \in Ids : RequestOK(reqs[r])
    /\ \A t \in threads : ThreadOK(t, reqs)

\* No two threads are to call done() of one request.
Apart ==
    \A r \in Ids : \A t, u \in threads : HasDone(t.todo, r) /\ HasDone(u.todo, r) => t = u

\* done() comes after the last answer.
AfterLast == \A r \in Ids : DonePending(r) => reqs[r].m_outstanding <= 0

Inv == Shapes /\ Apart /\ AfterLast /\ TrackedUntilDone

-----------------------------------------------------------------------------
(* Lists *)

\* Any function on 1..n is a list.
LEMMA FunctionIsList ==
    ASSUME NEW n \in Nat, NEW f, f = [j \in 1..n |-> f[j]]
    PROVE IsList(f) /\ Len(f) = n
<1>1. PICK S : S = {f[j] : j \in 1..n}
    OBVIOUS
<1>2. f \in Seq(S)
    BY <1>1
<1>3. Len(f) \in Nat /\ DOMAIN f = 1..Len(f) /\ DOMAIN f = 1..n
    BY <1>2
<1>4. Len(f) = n
    BY <1>3
<1> QED BY <1>2, <1>4 DEF IsList

\* What is left of a list when its head is taken.
LEMMA TailList ==
    ASSUME NEW s, IsList(s), s # <<>>
    PROVE /\ IsList(Tail(s)) /\ Len(Tail(s)) = Len(s) - 1 /\ Len(s) \in Nat \ {0}
          /\ Head(s) = s[1] /\ \A j \in 1..(Len(s) - 1) : Tail(s)[j] = s[j + 1]
<1>1. PICK S : s \in Seq(S)
    BY DEF IsList
<1>2. Tail(s) \in Seq(S)
    BY <1>1
<1> QED BY <1>1, <1>2 DEF IsList

\* Two lists, one after the other.
LEMMA JoinList ==
    ASSUME NEW a, NEW b, IsList(a), IsList(b)
    PROVE /\ IsList(a \o b) /\ Len(a \o b) = Len(a) + Len(b) /\ Len(a) \in Nat /\ Len(b) \in Nat
          /\ \A j \in 1..Len(a) : (a \o b)[j] = a[j]
          /\ \A j \in 1..Len(b) : (a \o b)[Len(a) + j] = b[j]
          /\ \A j \in (Len(a) + 1)..(Len(a) + Len(b)) : (a \o b)[j] = b[j - Len(a)]
<1>1. PICK S : a \in Seq(S)
    BY DEF IsList
<1>2. PICK R : b \in Seq(R)
    BY DEF IsList
<1>3. PICK T : T = S \cup R
    OBVIOUS
<1>4. a \in Seq(T) /\ b \in Seq(T)
    BY <1>1, <1>2, <1>3
<1>5. a \o b \in Seq(T)
    BY <1>4
<1> QED BY <1>4, <1>5 DEF IsList

\* done() in what is left of a list.
LEMMA TailDone ==
    ASSUME NEW s, NEW q, ListOK(s, q), s # <<>>
    PROVE /\ ListOK(Tail(s), q)
          /\ \A r : HasDone(s, r) <=> IsDone(Head(s), r) \/ HasDone(Tail(s), r)
          /\ \A r \in Ids : IsDone(Head(s), r) => ~HasDone(Tail(s), r)
          /\ ItemOK(Head(s), q) /\ \E j \in 1..Len(s) : s[j] = Head(s)
<1>1. /\ IsList(Tail(s)) /\ Len(Tail(s)) = Len(s) - 1 /\ Len(s) \in Nat \ {0}
      /\ Head(s) = s[1] /\ \A j \in 1..(Len(s) - 1) : Tail(s)[j] = s[j + 1]
    BY TailList DEF ListOK
<1>2. \A r \in Ids : \A j, k \in 1..Len(s) : IsDone(s[j], r) /\ IsDone(s[k], r) => j = k
    BY DEF ListOK, OneDone
<1>3. OneDone(Tail(s))
    BY <1>1, <1>2 DEF OneDone
<1>4. \A j \in 1..Len(Tail(s)) : ItemOK(Tail(s)[j], q)
    BY <1>1 DEF ListOK
<1>5. \A r : HasDone(s, r) <=> IsDone(Head(s), r) \/ HasDone(Tail(s), r)
    <2> SUFFICES ASSUME NEW r PROVE HasDone(s, r) <=> IsDone(Head(s), r) \/ HasDone(Tail(s), r)
        OBVIOUS
    <2>1. ASSUME NEW j \in 1..Len(s), IsDone(s[j], r)
          PROVE IsDone(Head(s), r) \/ HasDone(Tail(s), r)
        <3>1. CASE j = 1
            BY <1>1, <2>1, <3>1
        <3>2. CASE j # 1
            <4>1. j - 1 \in 1..Len(Tail(s)) /\ Tail(s)[j - 1] = s[j]
                BY <1>1, <3>2
            <4> QED BY <2>1, <4>1 DEF HasDone
        <3> QED BY <3>1, <3>2
    <2>2. ASSUME NEW j \in 1..Len(Tail(s)), IsDone(Tail(s)[j], r) PROVE HasDone(s, r)
        <3>1. j + 1 \in 1..Len(s) /\ Tail(s)[j] = s[j + 1]
            BY <1>1
        <3> QED BY <2>2, <3>1 DEF HasDone
    <2>3. IsDone(Head(s), r) => HasDone(s, r)
        BY <1>1 DEF HasDone
    <2> QED BY <2>1, <2>2, <2>3 DEF HasDone
<1>6. ASSUME NEW r \in Ids, IsDone(Head(s), r), NEW j \in 1..Len(Tail(s)), IsDone(Tail(s)[j], r)
      PROVE FALSE
    <2>1. j + 1 \in 1..Len(s) /\ 1 \in 1..Len(s) /\ IsDone(s[j + 1], r) /\ IsDone(s[1], r)
        BY <1>1, <1>6
    <2> QED BY <1>2, <2>1
<1>7. ItemOK(Head(s), q) /\ \E j \in 1..Len(s) : s[j] = Head(s)
    BY <1>1 DEF ListOK
<1> QED BY <1>1, <1>3, <1>4, <1>5, <1>6, <1>7 DEF ListOK, HasDone

\* done() in two lists, one after the other.
LEMMA JoinDone ==
    ASSUME NEW a, NEW b, NEW q, ListOK(a, q), ListOK(b, q),
           \A r \in Ids : ~(HasDone(a, r) /\ HasDone(b, r))
    PROVE /\ ListOK(a \o b, q)
          /\ \A r : HasDone(a \o b, r) <=> HasDone(a, r) \/ HasDone(b, r)
<1>1. PICK c : c = a \o b
    OBVIOUS
<1>2. /\ IsList(c) /\ Len(c) = Len(a) + Len(b) /\ Len(a) \in Nat /\ Len(b) \in Nat
      /\ \A j \in 1..Len(a) : c[j] = a[j]
      /\ \A j \in 1..Len(b) : c[Len(a) + j] = b[j]
      /\ \A j \in (Len(a) + 1)..(Len(a) + Len(b)) : c[j] = b[j - Len(a)]
    BY <1>1, JoinList DEF ListOK
<1>3. ASSUME NEW j \in 1..Len(c)
      PROVE \/ j \in 1..Len(a) /\ c[j] = a[j]
            \/ j - Len(a) \in 1..Len(b) /\ c[j] = b[j - Len(a)] /\ j \in (Len(a) + 1)..(Len(a) + Len(b))
    BY <1>2
<1>4. \A j \in 1..Len(c) : ItemOK(c[j], q)
    BY <1>3 DEF ListOK
<1>5. \A r : HasDone(c, r) <=> HasDone(a, r) \/ HasDone(b, r)
    <2> SUFFICES ASSUME NEW r PROVE HasDone(c, r) <=> HasDone(a, r) \/ HasDone(b, r)
        OBVIOUS
    <2>1. HasDone(c, r) => HasDone(a, r) \/ HasDone(b, r)
        BY <1>3 DEF HasDone
    <2>2. HasDone(a, r) => HasDone(c, r)
        <3>1. \A j \in 1..Len(a) : j \in 1..Len(c) /\ c[j] = a[j]
            BY <1>2
        <3> QED BY <3>1 DEF HasDone
    <2>3. HasDone(b, r) => HasDone(c, r)
        <3>1. \A j \in 1..Len(b) : Len(a) + j \in 1..Len(c) /\ c[Len(a) + j] = b[j]
            BY <1>2
        <3> QED BY <3>1 DEF HasDone
    <2> QED BY <2>1, <2>2, <2>3
<1>6. ASSUME NEW r \in Ids, NEW j \in 1..Len(c), NEW k \in 1..Len(c),
             IsDone(c[j], r), IsDone(c[k], r)
      PROVE j = k
    <2>1. \/ j \in 1..Len(a) /\ c[j] = a[j]
          \/ j - Len(a) \in 1..Len(b) /\ c[j] = b[j - Len(a)]
        BY <1>3
    <2>2. \/ k \in 1..Len(a) /\ c[k] = a[k]
          \/ k - Len(a) \in 1..Len(b) /\ c[k] = b[k - Len(a)]
        BY <1>3
    <2>3. CASE j \in 1..Len(a) /\ c[j] = a[j] /\ k \in 1..Len(a) /\ c[k] = a[k]
        BY <1>6, <2>3 DEF ListOK, OneDone
    <2>4. CASE /\ j - Len(a) \in 1..Len(b) /\ c[j] = b[j - Len(a)]
               /\ k - Len(a) \in 1..Len(b) /\ c[k] = b[k - Len(a)]
        <3>1. j - Len(a) = k - Len(a)
            BY <1>6, <2>4 DEF ListOK, OneDone
        <3> QED BY <1>2, <3>1
    <2>5. CASE /\ j \in 1..Len(a) /\ c[j] = a[j]
               /\ k - Len(a) \in 1..Len(b) /\ c[k] = b[k - Len(a)]
        BY <1>6, <2>5 DEF HasDone
    <2>6. CASE /\ k \in 1..Len(a) /\ c[k] = a[k]
               /\ j - Len(a) \in 1..Len(b) /\ c[j] = b[j - Len(a)]
        BY <1>6, <2>6 DEF HasDone
    <2> QED BY <2>1, <2>2, <2>3, <2>4, <2>5, <2>6
<1> QED BY <1>1, <1>2, <1>4, <1>5, <1>6 DEF ListOK, OneDone

\* A list without done().
Quiet(s, q) == ListOK(s, q) /\ \A r : ~HasDone(s, r)

\* A list of at most one item.
LEMMA WhenList ==
    ASSUME NEW cond, NEW x, NEW q, cond => ItemOK(x, q)
    PROVE /\ ListOK(When(cond, x), q)
          /\ \A r : HasDone(When(cond, x), r) <=> cond /\ IsDone(x, r)
<1>1. CASE cond
    <2>1. When(cond, x) = <<x>>
        BY <1>1 DEF When
    <2>2. PICK f : f = <<x>>
        OBVIOUS
    <2>3. f \in Seq({x}) /\ Len(f) = 1 /\ f[1] = x
        BY <2>2
    <2>4. IsList(f) /\ \A j \in 1..Len(f) : j = 1 /\ f[j] = x
        BY <2>3 DEF IsList
    <2>5. ListOK(f, q) /\ \A r : HasDone(f, r) <=> IsDone(x, r)
        <3>1. ItemOK(x, q)
            BY <1>1
        <3> QED BY ONLY <2>3, <2>4, <3>1 DEF ListOK, OneDone, HasDone
    <2> QED BY <1>1, <2>1, <2>2, <2>5
<1>2. CASE ~cond
    <2>1. When(cond, x) = <<>>
        BY <1>2 DEF When
    <2>2. IsList(<<>>) /\ Len(<<>>) = 0
        BY DEF IsList
    <2> QED BY <1>2, <2>1, <2>2 DEF ListOK, OneDone, HasDone
<1> QED BY <1>1, <1>2

\* An item that is neither done() nor a fill or a good answer.
LEMMA WhenQuiet ==
    ASSUME NEW cond, NEW x, NEW q, x.op \notin {"done", "fill", "good"}
    PROVE Quiet(When(cond, x), q)
<1>1. ItemOK(x, q) /\ \A r : ~IsDone(x, r)
    BY DEF ItemOK, IsDone
<1> QED BY <1>1, WhenList DEF Quiet

\* Quiet lists, one after the other.
LEMMA JoinQuiet ==
    ASSUME NEW a, NEW b, NEW q, Quiet(a, q), Quiet(b, q)
    PROVE Quiet(a \o b, q)
<1>1. /\ ListOK(a, q) /\ ListOK(b, q) /\ \A r \in Ids : ~(HasDone(a, r) /\ HasDone(b, r))
    BY DEF Quiet
<1>2. /\ ListOK(a \o b, q)
      /\ \A r : HasDone(a \o b, r) <=> HasDone(a, r) \/ HasDone(b, r)
    BY <1>1, JoinDone
<1> QED BY <1>2 DEF Quiet

\* What a completion routine leaves to be done after the unlock: done() if it was the
\* last answer, and only then.
LEMMA AfterList ==
    ASSUME NEW i, NEW A, \/ A = AfterGood(i) /\ i.req \in Ids
                         \/ A = AfterError(i)
    PROVE /\ ListOK(A, reqs)
          /\ \A r : HasDone(A, r) <=> LastBack(reqs[i.req]) /\ r = i.req
<1> DEFINE q == reqs
           tells == FirstTells(i)
           last == LastTells(i)
           error == LastTellsError(i)
           cancel == When(q[i.req].m_cmpl /\ FirstBack(q[i.req]), Do("cancel", i.req, i.cp))
           fill == When(q[i.req].m_needy # {} /\ FirstBack(q[i.req]), Do("fill", i.req, i.cp))
           need == When(i.op = "notfound", Do("need", i.req, i.cp))
           also == IF reqs[i.req].m_succeeded THEN LastTells(i) ELSE <<>>
           end == LastIsDone(i)
<1>1. Quiet(tells, q) /\ Quiet(last, q) /\ Quiet(error, q) /\ Quiet(cancel, q) /\ Quiet(need, q)
    <2>1. \A op \in {"upgood", "upbad", "cancel", "need"} :
              Do(op, i.req, i.cp).op \notin {"done", "fill", "good"}
        BY DEF Do
    <2> HIDE DEF q
    <2> QED BY <2>1, WhenQuiet DEF FirstTells, LastTells, LastTellsError
<1>2. Quiet(<<>>, q) /\ Quiet(<<Do("need", i.req, i.cp)>>, q)
    <2>1. Do("need", i.req, i.cp).op \notin {"done", "fill", "good"}
        BY DEF Do
    <2>2. Quiet(When(TRUE, Do("need", i.req, i.cp)), q) /\ Quiet(When(FALSE, Do("need", i.req, i.cp)), q)
        <3> HIDE DEF q
        <3> QED BY <2>1, WhenQuiet
    <2> QED BY <2>2 DEF When
<1>3. i.req \in Ids => Quiet(fill, q)
    <2> SUFFICES ASSUME i.req \in Ids PROVE Quiet(fill, q)
        OBVIOUS
    <2>1. /\ q[i.req].m_needy # {} /\ FirstBack(q[i.req]) => ItemOK(Do("fill", i.req, i.cp), q)
          /\ \A r : ~IsDone(Do("fill", i.req, i.cp), r)
        BY DEF ItemOK, IsDone, Do
    <2> HIDE DEF q
    <2> QED BY <2>1, WhenList DEF Quiet
<1>4. ListOK(end, q) /\ \A r : HasDone(end, r) <=> LastBack(q[i.req]) /\ r = i.req
    <2>1. /\ ItemOK(Do("done", i.req, i.cp), q)
          /\ \A r : IsDone(Do("done", i.req, i.cp), r) <=> r = i.req
        BY DEF ItemOK, IsDone, Do
    <2> HIDE DEF q
    <2>2. /\ ListOK(When(LastBack(q[i.req]), Do("done", i.req, i.cp)), q)
          /\ \A r : HasDone(When(LastBack(q[i.req]), Do("done", i.req, i.cp)), r)
                      <=> LastBack(q[i.req]) /\ IsDone(Do("done", i.req, i.cp), r)
        BY <2>1, WhenList
    <2> QED BY <2>1, <2>2 DEF LastIsDone, q
<1>5. Quiet(also, q)
    BY <1>1, <1>2
<1>6. \E s : Quiet(s, q) /\ A = s \o end
    <2>1. CASE A = AfterGood(i) /\ i.req \in Ids
        <3>1. Quiet(tells \o cancel \o fill, q)
            <4> HIDE DEF tells, cancel, fill, q
            <4>1. Quiet(tells \o cancel, q)
                BY <1>1, JoinQuiet
            <4> QED BY <1>3, <2>1, <4>1, JoinQuiet
        <3>2. A \in {tells \o cancel \o fill \o end, tells \o end, last \o end}
            BY <2>1 DEF AfterGood, bg_complete, bp_complete, rs_complete, rb_complete,
                        rf_complete, hei_complete, het_complete
        <3> HIDE DEF tells, cancel, fill, q, end, last
        <3> QED BY <1>1, <3>1, <3>2
    <2>2. CASE A = AfterError(i)
        <3>1. /\ Quiet(error \o need, q) /\ Quiet(error \o <<Do("need", i.req, i.cp)>>, q)
              /\ Quiet(error \o also, q)
            <4> HIDE DEF error, need, also, q
            <4> QED BY <1>1, <1>2, <1>5, JoinQuiet
        <3>2. A \in {error \o need \o end, error \o end, error \o also \o end,
                     error \o <<Do("need", i.req, i.cp)>> \o end}
            BY <2>2 DEF AfterError, bg_error, bp_error, rs_error, rb_missing, rf_error,
                        hei_error, het_error
        <3> HIDE DEF error, need, also, q, end
        <3> QED BY <1>1, <3>1, <3>2
    <2> QED BY <2>1, <2>2
<1>7. PICK s : Quiet(s, q) /\ A = s \o end
    BY <1>6
<1> HIDE DEF end, q
<1>8. /\ ListOK(s, q) /\ ListOK(end, q) /\ \A r \in Ids : ~(HasDone(s, r) /\ HasDone(end, r))
      /\ \A r : ~HasDone(s, r)
    BY <1>4, <1>7 DEF Quiet
<1>9. ListOK(s \o end, q) /\ \A r : HasDone(s \o end, r) <=> HasDone(s, r) \/ HasDone(end, r)
    BY ONLY <1>8, JoinDone
<1> QED BY <1>4, <1>7, <1>8, <1>9 DEF q

\* The lists that ForEach makes of sends and cancellations.
LEMMA ForEachList ==
    ASSUME NEW S \in SUBSET Children, NEW q, NEW f, f = [j \in 1..Cardinality(S) |-> f[j]],
           \A j \in 1..Cardinality(S) : f[j].op \notin {"done", "fill", "good"}
    PROVE Quiet(f, q) /\ Cardinality(S) \in Nat /\ (S # {} => f # <<>> /\ Cardinality(S) > 0)
<1>1. IsFiniteSet(S)
    <2>1. NChildren \in Int /\ 1 \in Int
        BY VBlockStoreAssumption
    <2>2. IsFiniteSet(1..NChildren)
        BY <2>1, FS_Interval
    <2> QED BY <2>2, FS_Subset DEF Children
<1>2. Cardinality(S) \in Nat /\ (S # {} => Cardinality(S) > 0)
    BY <1>1, FS_CardinalityType, FS_EmptySet
<1>3. PICK n \in Nat : n = Cardinality(S)
    BY <1>2
<1>4. IsList(f) /\ Len(f) = n
    BY <1>3, FunctionIsList
<1>5. Quiet(f, q)
    BY <1>3, <1>4 DEF Quiet, ListOK, OneDone, HasDone, IsDone, ItemOK
<1> QED BY <1>2, <1>3, <1>4, <1>5

\* The request is yet to be enqueued with the children in S.
LEMMA SendsList ==
    ASSUME NEW S \in SUBSET Children, NEW q, NEW r
    PROVE /\ Quiet(Sends(r, S), q)
          /\ Cardinality(S) \in Nat /\ (S # {} => Sends(r, S) # <<>> /\ Cardinality(S) > 0)
<1>1. PICK f : f = Sends(r, S)
    OBVIOUS
<1>2. f = [j \in 1..Cardinality(S) |->
             Do("send", r, CHOOSE c \in S : Cardinality({d \in S : d < c}) = j - 1)]
    BY <1>1 DEF Sends, ForEach
<1>3. /\ f = [j \in 1..Cardinality(S) |-> f[j]]
      /\ \A j \in 1..Cardinality(S) : f[j].op \notin {"done", "fill", "good"}
    BY <1>2 DEF Do
<1>4. S \in SUBSET Children
    OBVIOUS
<1>5. Quiet(f, q) /\ Cardinality(S) \in Nat /\ (S # {} => f # <<>> /\ Cardinality(S) > 0)
    BY ONLY <1>3, <1>4, ForEachList
<1> QED BY <1>1, <1>5

-----------------------------------------------------------------------------
(* Steps *)

\* A list whose fills are for other requests than those that change.
LEMMA SameFills ==
    ASSUME NEW s, NEW q, NEW q2, ListOK(s, q),
           \A j \in 1..Len(s) : s[j].req \in Ids => q2[s[j].req].m_needy = q[s[j].req].m_needy
    PROVE ListOK(s, q2)
BY DEF ListOK, ItemOK

\* The requests after a step: those that are referred to keep their needy children.
Kept(q) == \A r \in Ids : RequestOK(q[r]) /\ (~Unused(r) => q[r].m_needy = reqs[r].m_needy)

\* The threads after a step in which those in D go and those in N come.
LEMMA ThreadsStep ==
    ASSUME Inv, NEW D \in SUBSET threads, NEW N, threads' = (threads \ D) \cup N,
           DOMAIN reqs' = Ids, Kept(reqs'), m_requests' \subseteq Ids, load' = load,
           \A n, m \in N : n = m,
           \A n \in N : ThreadOK(n, reqs'),
           \A r \in Ids : \A n \in N :
               HasDone(n.todo, r) => ~DonePending(r) \/ \E t \in D : HasDone(t.todo, r)
    PROVE /\ Shapes' /\ Apart'
          /\ \A r \in Ids : DonePending(r)' <=> \/ \E t \in threads \ D : HasDone(t.todo, r)
                                                \/ \E n \in N : HasDone(n.todo, r)
<1>1. \A r : DonePending(r) <=> \E t \in threads : HasDone(t.todo, r)
    BY DEF DonePending, HasDone, IsDone
<1>2. \A r : DonePending(r)' <=> \E t \in threads' : HasDone(t.todo, r)
    BY DEF DonePending, HasDone, IsDone
<1>3. ASSUME NEW t \in threads PROVE ThreadOK(t, reqs')
    <2>1. ThreadOK(t, reqs)
        BY DEF Inv, Shapes
    <2>2. \A j \in 1..Len(t.todo) : ~Unused(t.todo[j].req)
        BY DEF Unused, Mentioned
    <2>3. \A j \in 1..Len(t.todo) : t.todo[j].req \in Ids =>
              reqs'[t.todo[j].req].m_needy = reqs[t.todo[j].req].m_needy
        BY <2>2 DEF Kept
    <2>4. PICK q : q = reqs
        OBVIOUS
    <2>5. PICK q2 : q2 = reqs'
        OBVIOUS
    <2>6. ListOK(t.todo, q)
        BY <2>1, <2>4 DEF ThreadOK
    <2>7. ListOK(t.todo, q2)
        BY <2>3, <2>4, <2>5, <2>6, SameFills
    <2> QED BY <2>1, <2>5, <2>7 DEF ThreadOK
<1>4. Shapes'
    <2>1. load' \in Loads
        BY DEF Inv, Shapes
    <2>2. \A t \in threads' : ThreadOK(t, reqs')
        BY <1>3
    <2>3. \A r \in Ids : RequestOK(reqs'[r])
        BY DEF Kept
    <2> QED BY <2>1, <2>2, <2>3 DEF Shapes
<1>5. ASSUME NEW r \in Ids, NEW t \in threads', NEW u \in threads',
             HasDone(t.todo, r), HasDone(u.todo, r)
      PROVE t = u
    <2>1. \A v, w \in threads : HasDone(v.todo, r) /\ HasDone(w.todo, r) => v = w
        BY DEF Inv, Apart
    <2>2. ASSUME NEW v \in threads \ D, NEW n \in N, HasDone(v.todo, r), HasDone(n.todo, r)
          PROVE FALSE
        <3>1. DonePending(r)
            BY <1>1, <2>2
        <3>2. PICK w \in D : HasDone(w.todo, r)
            BY <2>2, <3>1
        <3> QED BY <2>1, <2>2, <3>2
    <2> QED BY <1>5, <2>1, <2>2
<1>6. Apart'
    BY <1>5 DEF Apart
<1> QED BY <1>2, <1>4, <1>6

\* A thread goes on with the list s.
LEMMA ContinueStep ==
    ASSUME Inv, NEW t \in threads, NEW s, Continue(t, s), ListOK(s, reqs'),
           DOMAIN reqs' = Ids, Kept(reqs'), m_requests' \subseteq Ids, load' = load,
           \A r \in Ids : HasDone(s, r) => ~DonePending(r) \/ HasDone(t.todo, r)
    PROVE /\ Shapes' /\ Apart'
          /\ \A r \in Ids : DonePending(r)' <=> \/ HasDone(s, r)
                                                \/ \E u \in threads \ {t} : HasDone(u.todo, r)
<1> DEFINE n == [t EXCEPT !.todo = s]
           D == {t}
           N == IF s = <<>> THEN {} ELSE {n}
<1>1. t = [by |-> t.by, cp |-> t.cp, req |-> t.req, todo |-> t.todo]
    BY DEF Inv, Shapes, ThreadOK
<1>2. n = [by |-> t.by, cp |-> t.cp, req |-> t.req, todo |-> s]
    BY <1>1
<1>3. n.todo = s /\ (s # <<>> => ThreadOK(n, reqs'))
    BY <1>2 DEF ThreadOK
<1>4. threads' = (threads \ D) \cup N /\ D \in SUBSET threads
    BY DEF Continue
<1>5. \A r : HasDone(<<>>, r) <=> FALSE
    BY DEF HasDone
<1>6. \A r : (\E m \in N : HasDone(m.todo, r)) <=> HasDone(s, r)
    BY <1>3, <1>5
<1>7. (\A m, k \in N : m = k) /\ \A m \in N : ThreadOK(m, reqs')
    BY <1>3
<1>8. \A r \in Ids : \A m \in N :
         HasDone(m.todo, r) => ~DonePending(r) \/ \E u \in D : HasDone(u.todo, r)
    BY <1>6
<1> HIDE DEF D, N, n
<1>9. /\ Shapes' /\ Apart'
      /\ \A r \in Ids : DonePending(r)' <=> \/ \E u \in threads \ D : HasDone(u.todo, r)
                                            \/ \E m \in N : HasDone(m.todo, r)
    BY <1>4, <1>7, <1>8, ThreadsStep
<1> QED BY <1>6, <1>9 DEF D

\* The first thing a thread has to do, and the rest.
LEMMA HeadOf ==
    ASSUME Inv, NEW t \in threads
    PROVE /\ ListOK(t.todo, reqs) /\ ListOK(Tail(t.todo), reqs) /\ ItemOK(Head(t.todo), reqs)
          /\ \A r : HasDone(t.todo, r) <=> IsDone(Head(t.todo), r) \/ HasDone(Tail(t.todo), r)
          /\ \A r \in Ids : IsDone(Head(t.todo), r) => ~HasDone(Tail(t.todo), r)
          /\ ~Unused(Head(t.todo).req)
          /\ \A r : DonePending(r) <=> \E u \in threads : HasDone(u.todo, r)
<1>1. ThreadOK(t, reqs)
    BY DEF Inv, Shapes
<1>2. PICK s : s = t.todo
    OBVIOUS
<1>3. PICK q : q = reqs
    OBVIOUS
<1>4. ListOK(s, q) /\ s # <<>>
    BY <1>1, <1>2, <1>3 DEF ThreadOK
<1>5. /\ ListOK(Tail(s), q)
      /\ \A r : HasDone(s, r) <=> IsDone(Head(s), r) \/ HasDone(Tail(s), r)
      /\ \A r \in Ids : IsDone(Head(s), r) => ~HasDone(Tail(s), r)
      /\ ItemOK(Head(s), q) /\ \E j \in 1..Len(s) : s[j] = Head(s)
    BY <1>4, TailDone
<1>6. ~Unused(Head(t.todo).req)
    BY <1>2, <1>5 DEF Unused, Mentioned
<1>7. \A r : DonePending(r) <=> \E u \in threads : HasDone(u.todo, r)
    BY DEF DonePending, HasDone, IsDone
<1> QED BY <1>2, <1>3, <1>4, <1>5, <1>6, <1>7

\* A thing other than done() is done, and no request counts differently.
LEMMA TailStep ==
    ASSUME Inv, NEW t \in threads, Continue(t, Tail(t.todo)), Head(t.todo).op # "done",
           UNCHANGED <<m_requests, load>>, DOMAIN reqs' = Ids,
           \A r \in Ids : /\ RequestOK(reqs'[r]) /\ reqs'[r].m_needy = reqs[r].m_needy
                          /\ reqs'[r].m_outstanding = reqs[r].m_outstanding
    PROVE Inv'
<1>1. /\ ListOK(Tail(t.todo), reqs)
      /\ \A r : HasDone(t.todo, r) <=> IsDone(Head(t.todo), r) \/ HasDone(Tail(t.todo), r)
      /\ \A r : DonePending(r) <=> \E u \in threads : HasDone(u.todo, r)
    BY HeadOf
<1>2. PICK s : s = Tail(t.todo)
    OBVIOUS
<1>3. \A r : HasDone(s, r) <=> HasDone(t.todo, r)
    BY <1>1, <1>2 DEF IsDone
<1>4. ListOK(s, reqs')
    BY <1>1, <1>2 DEF ListOK, ItemOK
<1>5. Kept(reqs') /\ m_requests' \subseteq Ids /\ load' = load
    BY DEF Kept, Inv, Shapes
<1>6. /\ Shapes' /\ Apart'
      /\ \A r \in Ids : DonePending(r)' <=> \/ HasDone(s, r)
                                            \/ \E u \in threads \ {t} : HasDone(u.todo, r)
    BY <1>2, <1>3, <1>4, <1>5, ContinueStep
<1>7. \A r \in Ids : DonePending(r)' <=> DonePending(r)
    BY <1>1, <1>3, <1>6
<1>8. AfterLast' /\ TrackedUntilDone'
    BY <1>7 DEF Inv, AfterLast, TrackedUntilDone
<1> QED BY <1>6, <1>8 DEF Inv

\* A completion routine counts its answer.
LEMMA AnswerStep ==
    ASSUME Inv, NEW t \in threads, NEW i, i = Head(t.todo), NEW A,
           \/ A = AfterGood(i) /\ i.op = "good"
           \/ A = AfterError(i) /\ i.op \in Answers \ {"good"},
           Continue(t, A \o Tail(t.todo)),
           UNCHANGED <<m_requests, load>>, DOMAIN reqs' = Ids,
           \A r \in Ids : /\ RequestOK(reqs'[r]) /\ reqs'[r].m_needy = reqs[r].m_needy
                          /\ reqs'[r].m_outstanding = reqs[r].m_outstanding - (IF r = i.req THEN 1 ELSE 0)
    PROVE Inv'
<1>1. /\ ListOK(Tail(t.todo), reqs) /\ ItemOK(i, reqs)
      /\ \A r : HasDone(t.todo, r) <=> IsDone(i, r) \/ HasDone(Tail(t.todo), r)
      /\ \A r : DonePending(r) <=> \E u \in threads : HasDone(u.todo, r)
    BY HeadOf
<1>2. /\ ListOK(A, reqs)
      /\ \A r : HasDone(A, r) <=> LastBack(reqs[i.req]) /\ r = i.req
    <2>1. \/ A = AfterGood(i) /\ i.req \in Ids
          \/ A = AfterError(i)
        BY <1>1 DEF ItemOK
    <2> QED BY <2>1, AfterList
<1>3. PICK rest : rest = Tail(t.todo)
    OBVIOUS
<1>4. PICK s : s = A \o rest
    OBVIOUS
<1>5. PICK q : q = reqs
    OBVIOUS
<1>6. \A r : HasDone(rest, r) <=> HasDone(t.todo, r)
    BY <1>1, <1>3 DEF IsDone, Answers
<1>7. \A r \in Ids : HasDone(A, r) => reqs[r].m_outstanding = 1 /\ ~DonePending(r)
    <2>1. \A r \in Ids : HasDone(A, r) => reqs[r].m_outstanding = 1
        BY <1>2 DEF LastBack
    <2> QED BY <2>1 DEF Inv, AfterLast
<1>8. ListOK(s, q) /\ \A r : HasDone(s, r) <=> HasDone(A, r) \/ HasDone(rest, r)
    <2>1. \A r \in Ids : ~(HasDone(A, r) /\ HasDone(rest, r))
        BY <1>1, <1>6, <1>7
    <2>2. ListOK(A, q) /\ ListOK(rest, q)
        BY <1>1, <1>2, <1>3, <1>5
    <2> QED BY ONLY <1>4, <2>1, <2>2, JoinDone
<1>9. ListOK(s, reqs')
    BY <1>5, <1>8 DEF ListOK, ItemOK
<1>10. Kept(reqs') /\ m_requests' \subseteq Ids /\ load' = load
    BY DEF Kept, Inv, Shapes
<1>11. \A r \in Ids : HasDone(s, r) => ~DonePending(r) \/ HasDone(t.todo, r)
    BY <1>6, <1>7, <1>8
<1>12. /\ Shapes' /\ Apart'
       /\ \A r \in Ids : DonePending(r)' <=> \/ HasDone(s, r)
                                             \/ \E u \in threads \ {t} : HasDone(u.todo, r)
    BY <1>3, <1>4, <1>9, <1>10, <1>11, ContinueStep
<1>13. \A r \in Ids : DonePending(r)' <=> DonePending(r) \/ HasDone(A, r)
    BY <1>1, <1>6, <1>8, <1>12
<1>14. ASSUME NEW r \in Ids
       PROVE /\ DonePending(r)' => reqs'[r].m_outstanding <= 0
             /\ r \in m_requests' <=> reqs'[r].m_outstanding > 0 \/ DonePending(r)'
    <2>1. reqs[r].m_outstanding \in Int
        BY DEF Inv, Shapes, RequestOK
    <2>2. /\ DonePending(r) => reqs[r].m_outstanding <= 0
          /\ r \in m_requests <=> reqs[r].m_outstanding > 0 \/ DonePending(r)
        BY DEF Inv, AfterLast, TrackedUntilDone
    <2>3. HasDone(A, r) <=> reqs[r].m_outstanding = 1 /\ r = i.req
        BY <1>2 DEF LastBack
    <2> QED BY <1>13, <2>1, <2>2, <2>3
<1> QED BY <1>12, <1>14 DEF Inv, AfterLast, TrackedUntilDone

\* The gets that cancel_get found are to be answered.
LEMMA CancelStep ==
    ASSUME Inv, NEW t \in threads, cancel_get(t), UNCHANGED load
    PROVE Inv'
<1> DEFINE k == reqs[Head(t.todo).req].key
           hit == {c \in Children \ {Head(t.todo).cp} : Matches(c, k) # {}}
<1>1. PICK f : f = ForEach(hit, LAMBDA c : Do("canceled", queue[c]["get"][FirstMatch(c, k)], c))
    OBVIOUS
<1>2. PICK rest : rest = Tail(t.todo)
    OBVIOUS
<1>3. /\ Continue(t, f \o rest) /\ Head(t.todo).op = "cancel"
      /\ UNCHANGED <<reqs, m_requests>>
    BY <1>1, <1>2 DEF cancel_get
<1>4. PICK q : q = reqs
    OBVIOUS
<1>5. PICK S \in SUBSET Children : S = hit
    OBVIOUS
<1>6. /\ f = [j \in 1..Cardinality(S) |-> f[j]]
      /\ \A j \in 1..Cardinality(S) : f[j].op \notin {"done", "fill", "good"}
    BY <1>1, <1>5 DEF ForEach, Do
<1>7. Quiet(f, q)
    BY <1>6, ForEachList
<1>8. /\ ListOK(rest, reqs)
      /\ \A r : HasDone(t.todo, r) <=> IsDone(Head(t.todo), r) \/ HasDone(rest, r)
      /\ \A r : DonePending(r) <=> \E u \in threads : HasDone(u.todo, r)
    BY <1>2, HeadOf
<1>9. PICK s : s = f \o rest
    OBVIOUS
<1>10. ListOK(s, q) /\ \A r : HasDone(s, r) <=> HasDone(f, r) \/ HasDone(rest, r)
    <2>1. /\ \A r \in Ids : ~(HasDone(f, r) /\ HasDone(rest, r))
          /\ ListOK(f, q) /\ ListOK(rest, q)
        BY <1>4, <1>7, <1>8 DEF Quiet
    <2> QED BY ONLY <1>9, <2>1, JoinDone
<1>11. \A r : HasDone(s, r) <=> HasDone(t.todo, r)
    BY <1>3, <1>7, <1>8, <1>10 DEF Quiet, IsDone
<1>12. /\ ListOK(s, reqs') /\ DOMAIN reqs' = Ids /\ Kept(reqs')
       /\ m_requests' \subseteq Ids /\ load' = load
    BY <1>3, <1>4, <1>10 DEF Inv, Shapes, Kept
<1>13. /\ Shapes' /\ Apart'
       /\ \A r \in Ids : DonePending(r)' <=> \/ HasDone(s, r)
                                             \/ \E u \in threads \ {t} : HasDone(u.todo, r)
    BY <1>3, <1>9, <1>11, <1>12, ContinueStep
<1>14. \A r \in Ids : DonePending(r)' <=> DonePending(r)
    BY <1>8, <1>11, <1>13
<1> QED BY <1>3, <1>13, <1>14 DEF Inv, AfterLast, TrackedUntilDone

\* done() removes the request, which is there.
LEMMA DoneStep ==
    ASSUME Inv, NEW t \in threads, done(t), UNCHANGED load
    PROVE Inv'
<1>1. PICK i : i = Head(t.todo)
    OBVIOUS
<1>2. PICK s : s = Tail(t.todo)
    OBVIOUS
<1>3. /\ i.op = "done" /\ i.req \in m_requests /\ m_requests' = m_requests \ {i.req}
      /\ Continue(t, s) /\ UNCHANGED reqs
    BY <1>1, <1>2 DEF done
<1>4. /\ ListOK(s, reqs)
      /\ \A r : HasDone(t.todo, r) <=> IsDone(i, r) \/ HasDone(s, r)
      /\ \A r \in Ids : IsDone(i, r) => ~HasDone(s, r)
      /\ \A r : DonePending(r) <=> \E u \in threads : HasDone(u.todo, r)
    BY <1>1, <1>2, HeadOf
<1>5. /\ ListOK(s, reqs') /\ DOMAIN reqs' = Ids /\ Kept(reqs')
      /\ m_requests' \subseteq Ids /\ load' = load /\ i.req \in Ids
    BY <1>3, <1>4 DEF Inv, Shapes, Kept
<1>6. /\ Shapes' /\ Apart'
      /\ \A r \in Ids : DonePending(r)' <=> \/ HasDone(s, r)
                                            \/ \E u \in threads \ {t} : HasDone(u.todo, r)
    BY <1>3, <1>4, <1>5, ContinueStep
<1>7. \A r : IsDone(i, r) <=> r = i.req
    BY <1>3 DEF IsDone
<1>8. ~DonePending(i.req)'
    <2>1. HasDone(t.todo, i.req) /\ ~HasDone(s, i.req)
        BY <1>4, <1>5, <1>7
    <2>2. \A u \in threads \ {t} : ~HasDone(u.todo, i.req)
        BY <1>5, <2>1 DEF Inv, Apart
    <2> QED BY <1>5, <1>6, <2>1, <2>2
<1>9. DonePending(i.req)
    BY <1>4, <1>7
<1>10. \A r \in Ids \ {i.req} : DonePending(r)' <=> DonePending(r)
    BY <1>4, <1>6, <1>7
<1>11. reqs[i.req].m_outstanding \in Int /\ reqs[i.req].m_outstanding <= 0
    BY <1>5, <1>9 DEF Inv, AfterLast, Shapes, RequestOK
<1> QED BY <1>3, <1>6, <1>8, <1>10, <1>11 DEF Inv, AfterLast, TrackedUntilDone

\* A new request has an address that nothing refers to.
LEMMA NewIdUnused ==
    ASSUME Inv, Free # {}
    PROVE NewId \in Ids /\ Unused(NewId) /\ ~DonePending(NewId)
<1>1. NewId \in 1..load.reqs /\ Unused(NewId)
    BY DEF NewId, Free
<1>2. NewId \in Ids
    <2>1. load.reqs \in 1..MaxReqs /\ MaxReqs \in Nat
        BY VBlockStoreAssumption DEF Inv, Shapes, Ids
    <2> QED BY <1>1, <2>1 DEF Ids
<1>3. ~DonePending(NewId)
    BY <1>1 DEF Unused, Mentioned, DonePending
<1> QED BY <1>1, <1>2, <1>3

\* A request is made, with answers to wait for; the threads in D go and those in N come.
LEMMA AllocStep ==
    ASSUME Inv, Free # {}, UNCHANGED load,
           NEW kind, NEW k, NEW n \in Nat \ {0}, NEW cmpl, NEW needy \in SUBSET Children,
           reqs' = [reqs EXCEPT ![NewId] = NewRequest(kind, k, n, cmpl, needy)],
           m_requests' = m_requests \cup {NewId},
           NEW D \in SUBSET threads, NEW N, threads' = (threads \ D) \cup N,
           \A t, u \in N : t = u, \A t \in N : ThreadOK(t, reqs'),
           \A r \in Ids : (\E t \in N : HasDone(t.todo, r)) <=> (\E t \in D : HasDone(t.todo, r))
    PROVE Inv'
<1>1. PICK new : new = NewId
    OBVIOUS
<1>2. new \in Ids /\ Unused(new) /\ ~DonePending(new)
    BY <1>1, NewIdUnused
<1>3. PICK q : q = NewRequest(kind, k, n, cmpl, needy)
    OBVIOUS
<1>4. RequestOK(q) /\ q.m_outstanding = n
    BY <1>3 DEF RequestOK, NewRequest
<1>5. DOMAIN reqs' = Ids /\ reqs'[new] = q /\ \A r \in Ids \ {new} : reqs'[r] = reqs[r]
    BY <1>1, <1>2, <1>3 DEF Inv, Shapes
<1>6. Kept(reqs')
    BY <1>2, <1>4, <1>5 DEF Kept, Inv, Shapes
<1>7. m_requests' \subseteq Ids /\ load' = load /\ m_requests' = m_requests \cup {new}
    BY <1>1, <1>2 DEF Inv, Shapes
<1>8. \A r : DonePending(r) <=> \E t \in threads : HasDone(t.todo, r)
    BY DEF DonePending, HasDone, IsDone
<1>9. \A r \in Ids : \A t \in N :
         HasDone(t.todo, r) => ~DonePending(r) \/ \E u \in D : HasDone(u.todo, r)
    OBVIOUS
<1>10. /\ Shapes' /\ Apart'
       /\ \A r \in Ids : DonePending(r)' <=> \/ \E t \in threads \ D : HasDone(t.todo, r)
                                             \/ \E t \in N : HasDone(t.todo, r)
    <2>1. /\ Inv /\ D \in SUBSET threads /\ threads' = (threads \ D) \cup N
          /\ DOMAIN reqs' = Ids /\ (\A t, u \in N : t = u) /\ \A t \in N : ThreadOK(t, reqs')
        BY <1>5
    <2> QED BY ONLY <1>6, <1>7, <1>9, <2>1, ThreadsStep
<1>11. \A r \in Ids : DonePending(r)' <=> DonePending(r)
    BY <1>8, <1>10
<1>12. ASSUME NEW r \in Ids
       PROVE /\ DonePending(r)' => reqs'[r].m_outstanding <= 0
             /\ r \in m_requests' <=> reqs'[r].m_outstanding > 0 \/ DonePending(r)'
    <2>1. CASE r = new
        BY <1>2, <1>4, <1>5, <1>7, <1>11, <2>1
    <2>2. CASE r # new
        BY <1>5, <1>7, <1>11, <2>2 DEF Inv, AfterLast, TrackedUntilDone
    <2> QED BY <2>1, <2>2
<1> QED BY <1>10, <1>12 DEF Inv, AfterLast, TrackedUntilDone

\* A request is made by a thread that is to enqueue it with the children in S.
LEMMA SubmitStep ==
    ASSUME Inv, Free # {}, UNCHANGED load,
           NEW kind, NEW k, NEW n \in Nat \ {0}, NEW cmpl, NEW needy \in SUBSET Children,
           reqs' = [reqs EXCEPT ![NewId] = NewRequest(kind, k, n, cmpl, needy)],
           m_requests' = m_requests \cup {NewId}, NEW S \in SUBSET Children, S # {},
           NEW by, NEW c,
           threads' = threads \cup {[by |-> by, cp |-> c, req |-> NewId, todo |-> Sends(NewId, S)]}
    PROVE Inv'
<1>1. PICK t : t = [by |-> by, cp |-> c, req |-> NewId, todo |-> Sends(NewId, S)]
    OBVIOUS
<1>2. PICK q : q = reqs'
    OBVIOUS
<1>3. PICK new : new = NewId
    OBVIOUS
<1>4. Quiet(Sends(new, S), q) /\ Sends(new, S) # <<>>
    BY SendsList
<1>5. ThreadOK(t, reqs') /\ \A r : ~HasDone(t.todo, r)
    BY <1>1, <1>2, <1>3, <1>4 DEF ThreadOK, Quiet
<1>6. PICK D \in SUBSET threads : D = {}
    OBVIOUS
<1>7. PICK N : N = {t}
    OBVIOUS
<1>8. /\ threads' = (threads \ D) \cup N
      /\ \A v, u \in N : v = u
      /\ \A v \in N : ThreadOK(v, reqs')
      /\ \A r \in Ids : (\E v \in N : HasDone(v.todo, r)) <=> (\E v \in D : HasDone(v.todo, r))
    BY <1>1, <1>5, <1>6, <1>7
<1> QED BY <1>8, AllocStep

\* A put is made for the needy children of a get that found the block.
LEMMA FillStep ==
    ASSUME Inv, NEW t \in threads, Fill(t), UNCHANGED load
    PROVE Inv'
<1>1. PICK i : i = Head(t.todo)
    OBVIOUS
<1>2. PICK rest : rest = Tail(t.todo)
    OBVIOUS
<1>3. PICK S : S = reqs[i.req].m_needy
    OBVIOUS
<1>4. PICK new : new = NewId
    OBVIOUS
<1>5. PICK s : s = Sends(new, S) \o rest
    OBVIOUS
<1>6. PICK q : q = reqs'
    OBVIOUS
<1>7. /\ i.op = "fill" /\ Free # {}
      /\ reqs' = [reqs EXCEPT ![NewId] =
                    NewRequest("put", reqs[i.req].key, Cardinality(S), FALSE, {})]
      /\ m_requests' = m_requests \cup {NewId}
      /\ Continue(t, s)
    BY <1>1, <1>2, <1>3, <1>4, <1>5 DEF Fill
<1>8. /\ ListOK(rest, reqs) /\ ItemOK(i, reqs)
      /\ \A r : HasDone(t.todo, r) <=> IsDone(i, r) \/ HasDone(rest, r)
    BY <1>1, <1>2, HeadOf
<1>9. S \in SUBSET Children /\ S # {}
    BY <1>3, <1>7, <1>8 DEF ItemOK, Inv, Shapes, RequestOK
<1>10. Quiet(Sends(new, S), q) /\ Cardinality(S) \in Nat \ {0} /\ Sends(new, S) # <<>>
    <2>1. /\ Quiet(Sends(new, S), q)
          /\ Cardinality(S) \in Nat /\ (S # {} => Sends(new, S) # <<>> /\ Cardinality(S) > 0)
        BY ONLY <1>9, SendsList
    <2> QED BY <1>9, <2>1
<1>11. ListOK(rest, q)
    <2>1. new \in Ids /\ Unused(new)
        BY <1>4, <1>7, NewIdUnused
    <2>2. ThreadOK(t, reqs)
        BY DEF Inv, Shapes
    <2>3. PICK full : full = t.todo
        OBVIOUS
    <2>4. IsList(full) /\ full # <<>>
        BY <2>2, <2>3 DEF ThreadOK, ListOK
    <2>5. \A j \in 1..Len(full) : full[j].req # new
        BY <2>1, <2>3 DEF Unused, Mentioned
    <2>6. /\ Len(Tail(full)) = Len(full) - 1 /\ Len(full) \in Nat \ {0}
          /\ \A j \in 1..(Len(full) - 1) : Tail(full)[j] = full[j + 1]
        BY <2>4, TailList
    <2>7. \A j \in 1..Len(rest) : rest[j].req # new
        BY <1>2, <2>3, <2>5, <2>6
    <2>8. \A r \in Ids \ {new} : q[r] = reqs[r]
        BY <1>4, <1>6, <1>7 DEF Inv, Shapes
    <2>9. \A j \in 1..Len(rest) : rest[j].req \in Ids =>
              q[rest[j].req].m_needy = reqs[rest[j].req].m_needy
        BY <2>7, <2>8
    <2>10. PICK q0 : q0 = reqs
        OBVIOUS
    <2> QED BY <1>8, <2>9, <2>10, SameFills
<1>12. ListOK(s, q) /\ \A r : HasDone(s, r) <=> HasDone(t.todo, r)
    <2>1. PICK a : a = Sends(new, S)
        OBVIOUS
    <2>2. /\ \A r \in Ids : ~(HasDone(a, r) /\ HasDone(rest, r))
          /\ ListOK(a, q) /\ ListOK(rest, q) /\ \A r : ~HasDone(a, r)
        BY <1>10, <1>11, <2>1 DEF Quiet
    <2>3. ListOK(a \o rest, q) /\ \A r : HasDone(a \o rest, r) <=> HasDone(a, r) \/ HasDone(rest, r)
        BY ONLY <2>2, JoinDone
    <2>4. \A r : ~IsDone(i, r)
        BY <1>7 DEF IsDone
    <2> QED BY <1>5, <1>8, <2>1, <2>2, <2>3, <2>4
<1>13. PICK n : n = [t EXCEPT !.todo = s]
    OBVIOUS
<1>14. n = [by |-> t.by, cp |-> t.cp, req |-> t.req, todo |-> s]
    <2>1. t = [by |-> t.by, cp |-> t.cp, req |-> t.req, todo |-> t.todo]
        BY DEF Inv, Shapes, ThreadOK
    <2> QED BY <1>13, <2>1
<1>15. PICK N : N = IF s = <<>> THEN {} ELSE {n}
    OBVIOUS
<1>16. PICK D \in SUBSET threads : D = {t}
    OBVIOUS
<1>17. /\ threads' = (threads \ D) \cup N
       /\ \A v, u \in N : v = u
       /\ \A v \in N : ThreadOK(v, reqs')
       /\ \A r \in Ids : (\E v \in N : HasDone(v.todo, r)) <=> (\E v \in D : HasDone(v.todo, r))
    <2>1. threads' = (threads \ D) \cup N
        BY <1>7, <1>13, <1>15, <1>16 DEF Continue
    <2>2. \A v \in N : ThreadOK(v, reqs')
        BY <1>6, <1>12, <1>14, <1>15 DEF ThreadOK
    <2>3. \A r : HasDone(<<>>, r) <=> FALSE
        BY DEF HasDone
    <2>4. \A r : (\E v \in N : HasDone(v.todo, r)) <=> HasDone(s, r)
        BY <1>14, <1>15, <2>3
    <2> QED BY <1>12, <1>15, <1>16, <2>1, <2>2, <2>4
<1>18. PICK k : k = reqs[i.req].key
    OBVIOUS
<1>19. PICK count \in Nat \ {0} : count = Cardinality(S)
    BY <1>10
<1>20. PICK none \in SUBSET Children : none = {}
    OBVIOUS
<1>21. PICK kind : kind = "put"
    OBVIOUS
<1>22. PICK cmpl : cmpl = FALSE
    OBVIOUS
<1>23. /\ Inv /\ Free # {} /\ UNCHANGED load /\ D \in SUBSET threads
       /\ count \in Nat \ {0} /\ none \in SUBSET Children
       /\ reqs' = [reqs EXCEPT ![NewId] = NewRequest(kind, k, count, cmpl, none)]
       /\ m_requests' = m_requests \cup {NewId}
    BY <1>7, <1>18, <1>19, <1>20, <1>21, <1>22
<1> QED BY ONLY <1>17, <1>23, AllocStep

\* The store behind a child has answered, or thrown.
LEMMA PerformStep ==
    ASSUME Inv, NEW r \in Ids, NEW c \in Children, Perform(c, r), UNCHANGED load
    PROVE Inv'
<1>1. UNCHANGED <<reqs, m_requests>>
    BY DEF Perform
<1>2. PICK o \in Outcomes(c, r) :
          IF o.answer = "throws" THEN UNCHANGED threads
          ELSE threads' = threads \cup
                   {[by |-> IF InLoop(c, r) THEN "loop" ELSE "store", cp |-> c, req |-> r,
                     todo |-> <<Do(o.answer, r, c)>> \o When(~InLoop(c, r), Do("unsat", r, c))]}
    BY DEF Perform
<1>3. o.answer \in Answers \cup {"throws"}
    BY DEF Outcomes, Outcome, Answers
<1>4. CASE o.answer = "throws"
    <2>1. UNCHANGED <<reqs, m_requests, threads, load>>
        BY <1>1, <1>2, <1>4
    <2> QED BY <2>1 DEF Inv, Shapes, Apart, AfterLast, TrackedUntilDone, DonePending
<1>5. CASE o.answer # "throws"
    <2>1. PICK a : a = <<Do(o.answer, r, c)>>
        OBVIOUS
    <2>2. PICK b : b = When(~InLoop(c, r), Do("unsat", r, c))
        OBVIOUS
    <2>3. PICK q : q = reqs
        OBVIOUS
    <2>4. ListOK(a, q) /\ \A x : ~HasDone(a, x)
        <3>1. PICK i : i = Do(o.answer, r, c)
            OBVIOUS
        <3>2. ItemOK(i, q) /\ \A x : ~IsDone(i, x)
            BY <1>3, <1>5, <3>1 DEF ItemOK, IsDone, Do, Answers
        <3>3. PICK yes : yes = TRUE
            OBVIOUS
        <3>4. /\ ListOK(When(yes, i), q)
              /\ \A x : HasDone(When(yes, i), x) <=> yes /\ IsDone(i, x)
            BY ONLY <3>2, WhenList
        <3>5. When(yes, i) = a
            BY <2>1, <3>1, <3>3 DEF When
        <3> QED BY <3>2, <3>4, <3>5
    <2>5. Quiet(b, q)
        <3>1. Do("unsat", r, c).op \notin {"done", "fill", "good"}
            BY DEF Do
        <3> QED BY <2>2, <3>1, WhenQuiet
    <2>6. ListOK(a \o b, q) /\ \A x : ~HasDone(a \o b, x)
        <3>1. Quiet(a, q)
            BY <2>4 DEF Quiet
        <3>2. Quiet(a \o b, q)
            BY ONLY <2>5, <3>1, JoinQuiet
        <3> QED BY <3>2 DEF Quiet
    <2>7. a \o b # <<>>
        <3>1. IsList(a) /\ IsList(b) /\ Len(a) = 1
            BY <2>1, <2>4, <2>5 DEF Quiet, ListOK
        <3>2. Len(a \o b) = Len(a) + Len(b) /\ Len(b) \in Nat
            BY ONLY <3>1, JoinList
        <3> QED BY <3>1, <3>2
    <2>8. PICK t : t = [by |-> IF InLoop(c, r) THEN "loop" ELSE "store", cp |-> c, req |-> r,
                        todo |-> a \o b]
        OBVIOUS
    <2>9. ThreadOK(t, reqs') /\ \A x : ~HasDone(t.todo, x)
        BY <1>1, <2>3, <2>6, <2>7, <2>8 DEF ThreadOK
    <2>10. PICK D \in SUBSET threads : D = {}
        OBVIOUS
    <2>11. PICK N : N = {t}
        OBVIOUS
    <2>12. /\ threads' = (threads \ D) \cup N
           /\ \A v, u \in N : v = u
           /\ \A v \in N : ThreadOK(v, reqs')
           /\ \A x : \A v \in N : ~HasDone(v.todo, x)
        BY <1>2, <1>5, <2>1, <2>2, <2>8, <2>9, <2>10, <2>11
    <2>13. DOMAIN reqs' = Ids /\ Kept(reqs') /\ m_requests' \subseteq Ids /\ load' = load
        BY <1>1 DEF Inv, Shapes, Kept
    <2>14. /\ Shapes' /\ Apart'
           /\ \A x \in Ids : DonePending(x)' <=> \/ \E v \in threads \ D : HasDone(v.todo, x)
                                                 \/ \E v \in N : HasDone(v.todo, x)
        BY <2>12, <2>13, ThreadsStep
    <2>15. \A x : DonePending(x) <=> \E v \in threads : HasDone(v.todo, x)
        BY DEF DonePending, HasDone, IsDone
    <2>16. \A x \in Ids : DonePending(x)' <=> DonePending(x)
        BY <2>10, <2>12, <2>14, <2>15
    <2> QED BY <1>1, <2>14, <2>16 DEF Inv, AfterLast, TrackedUntilDone
<1> QED BY <1>4, <1>5

-----------------------------------------------------------------------------
(* m_requests *)

\* There are no requests at the start.
LEMMA InitInv == Init => Inv
<1> SUFFICES ASSUME Init PROVE Inv
    OBVIOUS
<1>1. /\ load \in Loads /\ m_requests = {} /\ threads = {}
      /\ reqs = [r \in Ids |-> NoRequest]
    BY DEF Init
<1>2. RequestOK(NoRequest) /\ NoRequest.m_outstanding = 0
    BY DEF RequestOK, NoRequest, NewRequest
<1>3. Shapes
    BY <1>1, <1>2 DEF Shapes
<1>4. \A r : ~DonePending(r)
    BY <1>1 DEF DonePending
<1>5. Apart /\ AfterLast
    BY <1>1, <1>4 DEF Apart, AfterLast
<1>6. TrackedUntilDone
    BY <1>1, <1>2, <1>4 DEF TrackedUntilDone
<1> QED BY <1>3, <1>5, <1>6 DEF Inv

\* A step that leaves the requests and the threads alone.
LEMMA OtherStep ==
    ASSUME Inv, UNCHANGED <<reqs, m_requests, threads, load>>
    PROVE Inv'
BY DEF Inv, Shapes, Apart, AfterLast, TrackedUntilDone, DonePending

\* A client's call.
LEMMA CallStep ==
    ASSUME Inv, Call, UNCHANGED load
    PROVE Inv'
<1>1. PICK kind, k : Submit(kind, k)
    BY DEF Call, bs_block_get_async, bs_block_put_async, bs_refresh_start_async,
           bs_refresh_block_async, bs_refresh_finish_async, bs_head_insert_async,
           bs_head_follow_async
<1>2. PICK n \in Nat \ {0} : n = NChildren
    BY VBlockStoreAssumption
<1>3. PICK none \in SUBSET Children : none = {}
    OBVIOUS
<1>4. PICK S \in SUBSET Children : S = Children
    OBVIOUS
<1>5. PICK by : by = "client"
    OBVIOUS
<1>6. PICK c : c = 0
    OBVIOUS
<1>7. PICK yes : yes = TRUE
    OBVIOUS
<1>8. 1 \in S
    BY <1>4, VBlockStoreAssumption DEF Children
<1>9. /\ Inv /\ Free # {} /\ UNCHANGED load /\ n \in Nat \ {0} /\ none \in SUBSET Children
      /\ reqs' = [reqs EXCEPT ![NewId] = NewRequest(kind, k, n, yes, none)]
      /\ m_requests' = m_requests \cup {NewId} /\ S \in SUBSET Children /\ S # {}
      /\ threads' = threads \cup {[by |-> by, cp |-> c, req |-> NewId, todo |-> Sends(NewId, S)]}
    BY <1>1, <1>2, <1>3, <1>4, <1>5, <1>6, <1>7, <1>8 DEF Submit
<1> QED BY ONLY <1>9, SubmitStep

\* A get for a key that child c lacks.
LEMMA NeededStep ==
    ASSUME Inv, NEW c \in Children, initiate_needed(c), UNCHANGED load
    PROVE Inv'
<1>1. PICK S \in SUBSET Children : S = Children \ {c}
    OBVIOUS
<1>2. CASE S = {}
    <2>1. UNCHANGED <<reqs, m_requests, threads>>
        BY <1>1, <1>2 DEF initiate_needed
    <2> QED BY <2>1, OtherStep
<1>3. CASE S # {}
    <2>1. PICK k : k = Head(m_neededkeys[c])
        OBVIOUS
    <2>2. PICK n \in Nat \ {0} : n = 1
        OBVIOUS
    <2>3. PICK needy \in SUBSET Children : needy = {c}
        OBVIOUS
    <2>4. PICK by : by = "loop"
        OBVIOUS
    <2>5. PICK no : no = FALSE
        OBVIOUS
    <2>6. PICK kind : kind = "get"
        OBVIOUS
    <2>7. /\ Inv /\ Free # {} /\ UNCHANGED load /\ n \in Nat \ {0} /\ needy \in SUBSET Children
          /\ reqs' = [reqs EXCEPT ![NewId] = NewRequest(kind, k, n, no, needy)]
          /\ m_requests' = m_requests \cup {NewId} /\ S \in SUBSET Children /\ S # {}
          /\ threads' = threads \cup {[by |-> by, cp |-> c, req |-> NewId, todo |-> Sends(NewId, S)]}
        BY <1>1, <1>3, <2>1, <2>2, <2>3, <2>4, <2>5, <2>6 DEF initiate_needed
    <2> QED BY ONLY <2>7, SubmitStep
<1> QED BY <1>2, <1>3

\* One thing that a thread has to do.
LEMMA RunStep ==
    ASSUME Inv, NEW t \in threads, Run(t), UNCHANGED load
    PROVE Inv'
<1> DEFINE i == Head(t.todo)
<1>1. DOMAIN reqs = Ids /\ \A r \in Ids : RequestOK(reqs[r])
    BY DEF Inv, Shapes
<1>2. CASE Enqueue(t) \/ needed_keys_append(t) \/ uh_unsaturated(t)
    <2>1. /\ Continue(t, Tail(t.todo)) /\ Head(t.todo).op # "done"
          /\ UNCHANGED <<reqs, m_requests>>
        BY <1>2 DEF Enqueue, needed_keys_append, uh_unsaturated
    <2> QED BY <1>1, <2>1, TailStep
<1>3. CASE Upcall(t)
    <2>1. /\ Continue(t, Tail(t.todo)) /\ Head(t.todo).op # "done" /\ UNCHANGED m_requests
          /\ \E v : reqs' = [reqs EXCEPT ![i.req].upcalls = v]
        BY <1>3 DEF Upcall
    <2>2. PICK v : reqs' = [reqs EXCEPT ![i.req].upcalls = v]
        BY <2>1
    <2>3. DOMAIN reqs' = Ids
        BY <1>1, <2>2
    <2>4. ASSUME NEW r \in Ids
          PROVE /\ RequestOK(reqs'[r]) /\ reqs'[r].m_needy = reqs[r].m_needy
                /\ reqs'[r].m_outstanding = reqs[r].m_outstanding
        <3>1. CASE r = i.req
            <4>1. PICK q : q = reqs[r]
                OBVIOUS
            <4>2. reqs'[r] = [q EXCEPT !.upcalls = v] /\ RequestOK(q)
                BY <1>1, <2>2, <3>1, <4>1
            <4> QED BY <4>1, <4>2 DEF RequestOK
        <3>2. CASE r # i.req
            BY <1>1, <2>2, <3>2
        <3> QED BY <3>1, <3>2
    <2> QED BY <2>1, <2>3, <2>4, TailStep
<1>4. CASE Complete(t) \/ Fail(t)
    <2>1. PICK A : /\ \/ A = AfterGood(i) /\ i.op = "good"
                      \/ A = AfterError(i) /\ i.op \in Answers \ {"good"}
                   /\ Continue(t, A \o Tail(t.todo)) /\ UNCHANGED m_requests
        BY <1>4 DEF Complete, Fail
    <2>2. DOMAIN reqs' = Ids
        BY <1>1, <1>4 DEF Complete, Fail
    <2>3. ASSUME NEW r \in Ids
          PROVE /\ RequestOK(reqs'[r]) /\ reqs'[r].m_needy = reqs[r].m_needy
                /\ reqs'[r].m_outstanding = reqs[r].m_outstanding - (IF r = i.req THEN 1 ELSE 0)
        <3>1. CASE r = i.req
            <4>1. PICK q : q = reqs[r]
                OBVIOUS
            <4>2. RequestOK(q)
                BY <1>1, <4>1
            <4>3. \/ reqs'[r] = [q EXCEPT !.m_succeeded = TRUE, !.m_outstanding = @ - 1]
                  \/ reqs'[r] = [q EXCEPT !.m_outstanding = @ - 1]
                BY <1>1, <1>4, <3>1, <4>1, <4>2 DEF Complete, Fail, RequestOK
            <4>4. PICK ok : reqs'[r] =
                      [kind |-> q.kind, key |-> q.key, m_outstanding |-> q.m_outstanding - 1,
                       m_succeeded |-> ok, m_cmpl |-> q.m_cmpl, m_needy |-> q.m_needy,
                       upcalls |-> q.upcalls]
                BY <4>2, <4>3 DEF RequestOK
            <4>5. q.m_outstanding \in Int /\ q.m_needy \subseteq Children
                BY <4>2 DEF RequestOK
            <4>6. RequestOK(reqs'[r])
                BY <4>4, <4>5 DEF RequestOK
            <4>7. reqs'[r].m_needy = q.m_needy /\ reqs'[r].m_outstanding = q.m_outstanding - 1
                BY <4>4
            <4> QED BY <3>1, <4>1, <4>6, <4>7
        <3>2. CASE r # i.req
            <4>1. reqs'[r] = reqs[r] /\ reqs[r].m_outstanding \in Int
                BY <1>1, <1>4, <3>2 DEF Complete, Fail, RequestOK
            <4> QED BY <1>1, <3>2, <4>1
        <3> QED BY <3>1, <3>2
    <2>4. PICK x : x = i
        OBVIOUS
    <2> QED BY <2>1, <2>2, <2>3, <2>4, AnswerStep
<1>5. CASE cancel_get(t)
    BY <1>5, CancelStep
<1>6. CASE Fill(t)
    BY <1>6, FillStep
<1>7. CASE done(t)
    BY <1>7, DoneStep
<1> QED BY <1>2, <1>3, <1>4, <1>5, <1>6, <1>7 DEF Run

\* Every step keeps the invariant.
LEMMA StepInv == Inv /\ [Next /\ UNCHANGED load]_<<vars, load>> => Inv'
<1> SUFFICES ASSUME Inv, [Next /\ UNCHANGED load]_<<vars, load>> PROVE Inv'
    OBVIOUS
<1>1. UNCHANGED load
    OBVIOUS
<1>2. CASE Call
    BY <1>1, <1>2, CallStep
<1>3. ASSUME NEW t \in threads, Run(t) PROVE Inv'
    BY <1>1, <1>3, RunStep
<1>4. ASSUME NEW c \in Children, Initiate(c) PROVE Inv'
    <2>1. CASE initiate_needed(c)
        BY <1>1, <2>1, NeededStep
    <2>2. CASE initiate_requests(c) \/ initiate_end(c)
        <3>1. UNCHANGED <<reqs, m_requests, threads, load>>
            BY <1>1, <2>2 DEF initiate_requests, initiate_end
        <3> QED BY <3>1, OtherStep
    <2> QED BY <1>4, <2>1, <2>2 DEF Initiate
<1>5. ASSUME NEW r \in Ids, NEW c \in Children, Perform(c, r) PROVE Inv'
    BY <1>1, <1>5, PerformStep
<1>6. ASSUME NEW s \in Syncers, SyncStart(s) \/ Sync(s) PROVE Inv'
    <2>1. UNCHANGED <<reqs, m_requests, threads, load>>
        BY <1>1, <1>6 DEF SyncStart, Sync, SyncKid, SyncCheck
    <2> QED BY <2>1, OtherStep
<1>7. CASE UNCHANGED <<vars, load>>
    <2>1. UNCHANGED <<reqs, m_requests, threads, load>>
        BY <1>7 DEF vars
    <2> QED BY <2>1, OtherStep
<1> QED BY <1>2, <1>3, <1>4, <1>5, <1>6, <1>7 DEF Next

\* m_requests holds exactly the requests with answers outstanding or with done() about
\* to be called (TrackedUntilDone), for any number of children and requests, any calls
\* and any faults: remove_req, which throws "expected to remove one request" otherwise,
\* finds its request, and no finished request is kept for bs_sync to wait for.
THEOREM TrackedUntilDoneHolds == Spec => []TrackedUntilDone
<1>1. Inv => TrackedUntilDone
    BY DEF Inv
<1> QED BY <1>1, InitInv, StepInv, PTL DEF Spec

-----------------------------------------------------------------------------
(* Things to do, by what they are *)

\* The list s has something in P, and has it once.
HasIn(s, P) == \E j \in 1..Len(s) : s[j] \in P
OneIn(s, P) == \A j, k \in 1..Len(s) : s[j] \in P /\ s[k] \in P => j = k

\* What is in a list is its head or in the rest.
LEMMA TailIn ==
    ASSUME NEW s, IsList(s), s # <<>>, NEW P
    PROVE /\ HasIn(s, P) <=> Head(s) \in P \/ HasIn(Tail(s), P)
          /\ OneIn(s, P) => OneIn(Tail(s), P) /\ (Head(s) \in P => ~HasIn(Tail(s), P))
<1>1. /\ IsList(Tail(s)) /\ Len(Tail(s)) = Len(s) - 1 /\ Len(s) \in Nat \ {0}
      /\ Head(s) = s[1] /\ \A j \in 1..(Len(s) - 1) : Tail(s)[j] = s[j + 1]
    BY TailList
<1>2. \A j \in 1..Len(s) : j = 1 \/ (j - 1 \in 1..Len(Tail(s)) /\ Tail(s)[j - 1] = s[j])
    BY <1>1
<1>3. \A j \in 1..Len(Tail(s)) : j + 1 \in 1..Len(s) /\ Tail(s)[j] = s[j + 1] /\ j + 1 # 1
    BY <1>1
<1>4. 1 \in 1..Len(s)
    BY <1>1
<1>5. HasIn(s, P) <=> Head(s) \in P \/ HasIn(Tail(s), P)
    BY <1>1, <1>2, <1>3, <1>4 DEF HasIn
<1>6. ASSUME OneIn(s, P) PROVE OneIn(Tail(s), P)
    <2> SUFFICES ASSUME NEW j \in 1..Len(Tail(s)), NEW k \in 1..Len(Tail(s)),
                        Tail(s)[j] \in P, Tail(s)[k] \in P
                 PROVE  j = k
        BY DEF OneIn
    <2>1. j + 1 \in 1..Len(s) /\ k + 1 \in 1..Len(s) /\ s[j + 1] \in P /\ s[k + 1] \in P
        BY <1>3
    <2>2. j + 1 = k + 1
        BY <1>6, <2>1 DEF OneIn
    <2> QED BY <1>1, <2>2
<1>7. ASSUME OneIn(s, P), Head(s) \in P PROVE ~HasIn(Tail(s), P)
    <2> SUFFICES ASSUME NEW j \in 1..Len(Tail(s)), Tail(s)[j] \in P PROVE FALSE
        BY DEF HasIn
    <2>1. j + 1 \in 1..Len(s) /\ s[j + 1] \in P /\ s[1] \in P /\ j + 1 # 1
        BY <1>1, <1>3, <1>7
    <2> QED BY <1>4, <1>7, <2>1 DEF OneIn
<1> QED BY <1>5, <1>6, <1>7

\* What is in two lists, one after the other.
LEMMA JoinIn ==
    ASSUME NEW a, NEW b, IsList(a), IsList(b), NEW P
    PROVE /\ HasIn(a \o b, P) <=> HasIn(a, P) \/ HasIn(b, P)
          /\ OneIn(a, P) /\ OneIn(b, P) /\ ~(HasIn(a, P) /\ HasIn(b, P)) => OneIn(a \o b, P)
<1>1. PICK c : c = a \o b
    OBVIOUS
<1>2. /\ Len(c) = Len(a) + Len(b) /\ Len(a) \in Nat /\ Len(b) \in Nat
      /\ \A j \in 1..Len(a) : c[j] = a[j]
      /\ \A j \in 1..Len(b) : c[Len(a) + j] = b[j]
      /\ \A j \in (Len(a) + 1)..(Len(a) + Len(b)) : c[j] = b[j - Len(a)]
    BY <1>1, JoinList
<1>3. ASSUME NEW j \in 1..Len(c)
      PROVE \/ j \in 1..Len(a) /\ c[j] = a[j]
            \/ j - Len(a) \in 1..Len(b) /\ c[j] = b[j - Len(a)]
    BY <1>2
<1>4. HasIn(c, P) => HasIn(a, P) \/ HasIn(b, P)
    BY <1>3 DEF HasIn
<1>5. HasIn(a, P) => HasIn(c, P)
    <2>1. \A j \in 1..Len(a) : j \in 1..Len(c) /\ c[j] = a[j]
        BY <1>2
    <2> QED BY <2>1 DEF HasIn
<1>6. HasIn(b, P) => HasIn(c, P)
    <2>1. \A j \in 1..Len(b) : Len(a) + j \in 1..Len(c) /\ c[Len(a) + j] = b[j]
        BY <1>2
    <2> QED BY <2>1 DEF HasIn
<1>7. ASSUME OneIn(a, P), OneIn(b, P), ~(HasIn(a, P) /\ HasIn(b, P)),
             NEW j \in 1..Len(c), NEW k \in 1..Len(c), c[j] \in P, c[k] \in P
      PROVE j = k
    <2>1. \/ j \in 1..Len(a) /\ c[j] = a[j]
          \/ j - Len(a) \in 1..Len(b) /\ c[j] = b[j - Len(a)]
        BY <1>3
    <2>2. \/ k \in 1..Len(a) /\ c[k] = a[k]
          \/ k - Len(a) \in 1..Len(b) /\ c[k] = b[k - Len(a)]
        BY <1>3
    <2>3. CASE j \in 1..Len(a) /\ c[j] = a[j] /\ k \in 1..Len(a) /\ c[k] = a[k]
        BY <1>7, <2>3 DEF OneIn
    <2>4. CASE /\ j - Len(a) \in 1..Len(b) /\ c[j] = b[j - Len(a)]
               /\ k - Len(a) \in 1..Len(b) /\ c[k] = b[k - Len(a)]
        <3>1. j - Len(a) = k - Len(a)
            BY <1>7, <2>4 DEF OneIn
        <3> QED BY <1>2, <3>1
    <2>5. CASE /\ j \in 1..Len(a) /\ c[j] = a[j]
               /\ k - Len(a) \in 1..Len(b) /\ c[k] = b[k - Len(a)]
        BY <1>7, <2>5 DEF HasIn
    <2>6. CASE /\ k \in 1..Len(a) /\ c[k] = a[k]
               /\ j - Len(a) \in 1..Len(b) /\ c[j] = b[j - Len(a)]
        BY <1>7, <2>6 DEF HasIn
    <2> QED BY <2>1, <2>2, <2>3, <2>4, <2>5, <2>6
<1>8. OneIn(a, P) /\ OneIn(b, P) /\ ~(HasIn(a, P) /\ HasIn(b, P)) => OneIn(c, P)
    BY <1>7 DEF OneIn
<1> QED BY <1>1, <1>4, <1>5, <1>6, <1>8

\* A list of at most one thing.
LEMMA WhenIn ==
    ASSUME NEW cond, NEW x, NEW P
    PROVE /\ IsList(When(cond, x)) /\ OneIn(When(cond, x), P)
          /\ HasIn(When(cond, x), P) <=> cond /\ x \in P
<1>1. CASE cond
    <2>1. PICK f : f = <<x>>
        OBVIOUS
    <2>2. f \in Seq({x}) /\ Len(f) = 1 /\ f[1] = x
        BY <2>1
    <2>3. IsList(f) /\ \A j \in 1..Len(f) : j = 1 /\ f[j] = x
        BY <2>2 DEF IsList
    <2>4. When(cond, x) = f
        BY <1>1, <2>1 DEF When
    <2>5. IsList(When(cond, x)) /\ OneIn(When(cond, x), P)
        BY <2>3, <2>4 DEF OneIn
    <2>6. HasIn(f, P) <=> x \in P
        <3>1. 1 \in 1..Len(f)
            BY <2>2
        <3> QED BY <2>2, <2>3, <3>1 DEF HasIn
    <2> QED BY <1>1, <2>4, <2>5, <2>6
<1>2. CASE ~cond
    <2>1. When(cond, x) = <<>>
        BY <1>2 DEF When
    <2>2. IsList(<<>>) /\ Len(<<>>) = 0
        BY DEF IsList
    <2> QED BY <1>2, <2>1, <2>2 DEF OneIn, HasIn
<1> QED BY <1>1, <1>2

\* Something in P is to be done by some thread; by one thread, and once.
InThreads(P) == \E t \in threads : HasIn(t.todo, P)
AtMostOne(P) ==
    /\ \A t \in threads : OneIn(t.todo, P)
    /\ \A t, u \in threads : HasIn(t.todo, P) /\ HasIn(u.todo, P) => t = u

\* A thread does its first thing, and finds more to do.
LEMMA GoesOn ==
    ASSUME Inv, NEW t \in threads, NEW A, IsList(A), Continue(t, A \o Tail(t.todo)),
           NEW P, AtMostOne(P), OneIn(A, P),
           HasIn(A, P) => ~InThreads(P) \/ Head(t.todo) \in P
    PROVE /\ AtMostOne(P)'
          /\ InThreads(P)' <=> HasIn(A, P) \/ (InThreads(P) /\ Head(t.todo) \notin P)
<1>1. PICK s : s = t.todo
    OBVIOUS
<1>2. IsList(s) /\ s # <<>> /\ t = [by |-> t.by, cp |-> t.cp, req |-> t.req, todo |-> s]
    BY <1>1 DEF Inv, Shapes, ThreadOK, ListOK
<1>3. PICK rest : rest = Tail(s)
    OBVIOUS
<1>4. /\ HasIn(s, P) <=> Head(s) \in P \/ HasIn(rest, P)
      /\ OneIn(rest, P) /\ (Head(s) \in P => ~HasIn(rest, P))
    <2>1. OneIn(s, P)
        BY <1>1 DEF AtMostOne
    <2> QED BY <1>2, <1>3, <2>1, TailIn
<1>5. IsList(rest)
    BY <1>2, <1>3, TailList
<1>6. PICK n : n = A \o rest
    OBVIOUS
<1>7. /\ HasIn(n, P) <=> HasIn(A, P) \/ HasIn(rest, P)
      /\ OneIn(A, P) /\ OneIn(rest, P) /\ ~(HasIn(A, P) /\ HasIn(rest, P)) => OneIn(n, P)
    BY <1>5, <1>6, JoinIn
<1>8. HasIn(rest, P) => InThreads(P) /\ Head(s) \notin P /\ ~HasIn(A, P)
    BY <1>1, <1>4 DEF InThreads
<1>9. OneIn(n, P)
    BY <1>4, <1>7, <1>8
<1>10. PICK v : v = [t EXCEPT !.todo = n]
    OBVIOUS
<1>11. v.todo = n
    BY <1>2, <1>10
<1>12. threads' = (threads \ {t}) \cup (IF n = <<>> THEN {} ELSE {v})
    BY <1>1, <1>3, <1>6, <1>10 DEF Continue
<1>13. ~HasIn(<<>>, P)
    BY DEF HasIn
<1>14. InThreads(P)' <=> HasIn(n, P) \/ \E u \in threads \ {t} : HasIn(u.todo, P)
    BY <1>11, <1>12, <1>13 DEF InThreads
<1>15. (\E u \in threads \ {t} : HasIn(u.todo, P)) => InThreads(P) /\ ~HasIn(s, P)
    BY <1>1 DEF InThreads, AtMostOne
<1>16. InThreads(P) <=> HasIn(s, P) \/ \E u \in threads \ {t} : HasIn(u.todo, P)
    BY <1>1 DEF InThreads
<1>17. InThreads(P)' <=> HasIn(A, P) \/ (InThreads(P) /\ Head(s) \notin P)
    BY <1>4, <1>7, <1>14, <1>15, <1>16
<1>18. \A u \in threads' : OneIn(u.todo, P)
    BY <1>9, <1>11, <1>12 DEF AtMostOne
<1>19. HasIn(n, P) => ~\E u \in threads \ {t} : HasIn(u.todo, P)
    <2>1. HasIn(rest, P) => HasIn(s, P)
        BY <1>4
    <2>2. HasIn(A, P) => ~InThreads(P) \/ HasIn(s, P)
        BY <1>1, <1>4
    <2> QED BY <1>7, <1>15, <2>1, <2>2
<1>20. \A u, w \in threads' : HasIn(u.todo, P) /\ HasIn(w.todo, P) => u = w
    BY <1>11, <1>12, <1>19 DEF AtMostOne
<1> QED BY <1>1, <1>17, <1>18, <1>20 DEF AtMostOne

\* A thread begins.
LEMMA Begins ==
    ASSUME NEW n, threads' = threads \cup {n}, NEW P, AtMostOne(P), OneIn(n.todo, P),
           HasIn(n.todo, P) => ~InThreads(P)
    PROVE AtMostOne(P)' /\ (InThreads(P)' <=> HasIn(n.todo, P) \/ InThreads(P))
<1>1. InThreads(P)' <=> HasIn(n.todo, P) \/ InThreads(P)
    BY DEF InThreads
<1>2. AtMostOne(P)'
    BY DEF InThreads, AtMostOne
<1> QED BY <1>1, <1>2

\* Nothing changes when the threads do not.
LEMMA GoNowhere ==
    ASSUME UNCHANGED threads, NEW P
    PROVE (AtMostOne(P)' <=> AtMostOne(P)) /\ (InThreads(P)' <=> InThreads(P))
BY DEF InThreads, AtMostOne

\* A thread does its first thing and finds nothing more to do.
LEMMA Drops ==
    ASSUME Inv, NEW t \in threads, Continue(t, Tail(t.todo)), NEW P, AtMostOne(P)
    PROVE AtMostOne(P)' /\ (InThreads(P)' <=> InThreads(P) /\ Head(t.todo) \notin P)
<1>1. PICK A : A = <<>>
    OBVIOUS
<1>2. IsList(A) /\ Len(A) = 0
    BY <1>1 DEF IsList
<1>3. OneIn(A, P) /\ ~HasIn(A, P)
    BY <1>2 DEF OneIn, HasIn
<1>4. PICK rest : rest = Tail(t.todo)
    OBVIOUS
<1>5. IsList(rest)
    BY <1>4, TailList DEF Inv, Shapes, ThreadOK, ListOK
<1>6. A \o rest = rest
    BY <1>1, <1>5 DEF IsList
<1>7. Continue(t, A \o Tail(t.todo))
    BY <1>4, <1>6
<1> QED BY <1>2, <1>3, <1>7, GoesOn

\* All of the list s is in P.
AllIn(s, P) == \A j \in 1..Len(s) : s[j] \in P

\* All of what is left of a list.
LEMMA TailAll ==
    ASSUME NEW s, IsList(s), s # <<>>, NEW P, AllIn(s, P)
    PROVE AllIn(Tail(s), P) /\ Head(s) \in P
<1>1. /\ Len(Tail(s)) = Len(s) - 1 /\ Len(s) \in Nat \ {0}
      /\ Head(s) = s[1] /\ \A j \in 1..(Len(s) - 1) : Tail(s)[j] = s[j + 1]
    BY TailList
<1>2. 1 \in 1..Len(s) /\ \A j \in 1..Len(Tail(s)) : j + 1 \in 1..Len(s) /\ Tail(s)[j] = s[j + 1]
    BY <1>1
<1> QED BY <1>1, <1>2 DEF AllIn

\* All of two lists, one after the other.
LEMMA JoinAll ==
    ASSUME NEW a, NEW b, IsList(a), IsList(b), NEW P, AllIn(a, P), AllIn(b, P)
    PROVE AllIn(a \o b, P)
<1>1. PICK c : c = a \o b
    OBVIOUS
<1>2. /\ Len(c) = Len(a) + Len(b) /\ Len(a) \in Nat /\ Len(b) \in Nat
      /\ \A j \in 1..Len(a) : c[j] = a[j]
      /\ \A j \in (Len(a) + 1)..(Len(a) + Len(b)) : c[j] = b[j - Len(a)]
    BY <1>1, JoinList
<1>3. ASSUME NEW j \in 1..Len(c)
      PROVE \/ j \in 1..Len(a) /\ c[j] = a[j]
            \/ j - Len(a) \in 1..Len(b) /\ c[j] = b[j - Len(a)]
    BY <1>2
<1> QED BY <1>1, <1>3 DEF AllIn

\* All of a list of at most one item.
LEMMA WhenAll ==
    ASSUME NEW cond, NEW x, NEW P, cond => x \in P
    PROVE AllIn(When(cond, x), P)
<1>1. CASE cond
    <2>1. PICK f : f = <<x>>
        OBVIOUS
    <2>2. f \in Seq({x}) /\ Len(f) = 1 /\ f[1] = x
        BY <2>1
    <2>3. \A j \in 1..Len(f) : f[j] = x
        BY <2>2
    <2>4. When(cond, x) = f
        BY <1>1, <2>1 DEF When
    <2> QED BY <1>1, <2>3, <2>4 DEF AllIn
<1>2. CASE ~cond
    <2>1. When(cond, x) = <<>>
        BY <1>2 DEF When
    <2>2. Len(<<>>) = 0
        OBVIOUS
    <2> QED BY <2>1, <2>2 DEF AllIn
<1> QED BY <1>1, <1>2

\* Nothing in P is in a list that is in Q.
LEMMA NoneIn ==
    ASSUME NEW s, NEW P, NEW Q, AllIn(s, Q), \A x \in Q : x \notin P
    PROVE ~HasIn(s, P) /\ OneIn(s, P)
BY DEF AllIn, HasIn, OneIn

-----------------------------------------------------------------------------
(* Each child in turn *)

\* The children are finitely many.
LEMMA SomeChildren ==
    ASSUME NEW S \in SUBSET Children
    PROVE IsFiniteSet(S) /\ Cardinality(S) \in Nat
<1>1. NChildren \in Int /\ 1 \in Int
    BY VBlockStoreAssumption
<1>2. IsFiniteSet(1..NChildren)
    BY <1>1, FS_Interval
<1>3. IsFiniteSet(S)
    BY <1>2, FS_Subset DEF Children
<1> QED BY <1>3, FS_CardinalityType

\* The number of children of S before c.
Rank(S, c) == Cardinality({d \in S : d < c})

\* Each number below the size of S is the rank of one child of S.
LEMMA Ranks ==
    ASSUME NEW S \in SUBSET Children
    PROVE /\ \A c \in S : Rank(S, c) + 1 \in 1..Cardinality(S)
          /\ \A c, d \in S : Rank(S, c) = Rank(S, d) => c = d
          /\ \A j \in 1..Cardinality(S) : \E c \in S : Rank(S, c) = j - 1
<1> DEFINE Below(c) == {d \in S : d < c}
<1>1. \A c \in S : c \in Int
    BY DEF Children
<1>2. IsFiniteSet(S) /\ Cardinality(S) \in Nat
    BY SomeChildren
<1>3. ASSUME NEW c \in S
      PROVE Rank(S, c) \in Nat /\ Rank(S, c) < Cardinality(S) /\ IsFiniteSet(Below(c))
    <2>1. Below(c) \in SUBSET S /\ c \notin Below(c)
        BY <1>1
    <2>2. /\ IsFiniteSet(Below(c)) /\ Cardinality(Below(c)) <= Cardinality(S)
          /\ Cardinality(S) = Cardinality(Below(c)) => S = Below(c)
        BY <1>2, <2>1, FS_Subset
    <2>3. Cardinality(Below(c)) \in Nat
        BY <2>2, FS_CardinalityType
    <2> QED BY <1>2, <2>1, <2>2, <2>3 DEF Rank
<1>4. ASSUME NEW c \in S, NEW d \in S, c < d PROVE Rank(S, c) < Rank(S, d)
    <2>1. Below(c) \in SUBSET Below(d) /\ c \in Below(d) /\ c \notin Below(c)
        BY <1>1, <1>4
    <2>2. /\ Cardinality(Below(c)) <= Cardinality(Below(d))
          /\ Cardinality(Below(d)) = Cardinality(Below(c)) => Below(d) = Below(c)
        BY <1>3, <2>1, FS_Subset
    <2>3. Cardinality(Below(c)) \in Nat /\ Cardinality(Below(d)) \in Nat
        BY <1>3 DEF Rank
    <2> QED BY <2>1, <2>2, <2>3 DEF Rank
<1>5. PICK g : g = [c \in S |-> Rank(S, c)]
    OBVIOUS
<1>6. \A c \in S : g[c] = Rank(S, c) /\ g[c] \in Nat /\ g[c] < Cardinality(S)
    BY <1>3, <1>5
<1>7. \A c, d \in S : c < d => g[c] < g[d]
    BY <1>4, <1>6
<1> HIDE DEF Below
<1>8. \A c, d \in S : g[c] = g[d] => c = d
    <2> SUFFICES ASSUME NEW c \in S, NEW d \in S, g[c] = g[d], c # d PROVE FALSE
        OBVIOUS
    <2>1. c < d \/ d < c
        BY <1>1
    <2> QED BY <1>6, <1>7, <2>1
<1>9. PICK n \in Nat : n = Cardinality(S)
    BY <1>2
<1>10. \A j \in 1..n : \E c \in S : g[c] = j - 1
    <2>1. PICK f : f = [c \in S |-> g[c] + 1]
        OBVIOUS
    <2>2. \A c \in S : f[c] = g[c] + 1 /\ g[c] \in Nat /\ f[c] \in 1..n
        BY <1>6, <1>9, <2>1
    <2>3. f \in Injection(S, 1..n)
        <3>1. f \in [S -> 1..n]
            BY <2>1, <2>2
        <3>2. \A c, d \in S : f[c] = f[d] => c = d
            BY <1>8, <2>2
        <3> QED BY <3>1, <3>2 DEF Injection, IsInjective
    <2>4. IsFiniteSet(1..n) /\ Cardinality(1..n) = n
        <3>1. 1 \in Int /\ n \in Int
            OBVIOUS
        <3>2. IsFiniteSet(1..n) /\ Cardinality(1..n) = IF 1 > n THEN 0 ELSE n - 1 + 1
            BY <3>1, FS_Interval
        <3> QED BY <3>2
    <2>5. f \in Surjection(S, 1..n)
        BY <1>9, <2>3, <2>4, FS_Injection
    <2>6. \A j \in 1..n : \E c \in S : f[c] = j
        BY <2>5, Zenon DEF Surjection
    <2> QED BY <2>2, <2>6
<1>11. \A c \in S : g[c] + 1 \in 1..n
    BY <1>6, <1>9
<1>12. \A j \in 1..n : \E c \in S : Rank(S, c) = j - 1
    BY <1>6, <1>10
<1>13. \A c \in S : Rank(S, c) + 1 \in 1..n
    <2> SUFFICES ASSUME NEW c \in S PROVE Rank(S, c) + 1 \in 1..n
        OBVIOUS
    <2>1. Rank(S, c) = g[c] /\ g[c] + 1 \in 1..n
        BY <1>6, <1>11
    <2> QED BY <2>1
<1>14. \A c, d \in S : Rank(S, c) = Rank(S, d) => c = d
    BY <1>6, <1>8
<1> QED BY <1>9, <1>12, <1>13, <1>14

\* The list that ForEach makes of the items x.
Listed(S, x) ==
    [j \in 1..Cardinality(S) |-> x[CHOOSE c \in S : Cardinality({d \in S : d < c}) = j - 1]]

\* It has each of them, once.
LEMMA EachOnce ==
    ASSUME NEW S \in SUBSET Children, NEW x, NEW f, f = Listed(S, x)
    PROVE /\ IsList(f) /\ Len(f) = Cardinality(S)
          /\ \A P : HasIn(f, P) <=> \E c \in S : x[c] \in P
          /\ \A P : (\A c, d \in S : x[c] \in P /\ x[d] \in P => c = d) => OneIn(f, P)
          /\ \A P : (\A c \in S : x[c] \in P) => AllIn(f, P)
<1> DEFINE At(j) == CHOOSE c \in S : Rank(S, c) = j - 1
<1>1. PICK n \in Nat : n = Cardinality(S)
    BY SomeChildren
<1>2. f = [j \in 1..n |-> x[At(j)]]
    BY <1>1 DEF Rank, Listed
<1>3. f = [j \in 1..n |-> f[j]]
    BY <1>2
<1>4. IsList(f) /\ Len(f) = n
    BY <1>3, FunctionIsList
<1>5. /\ \A c \in S : Rank(S, c) + 1 \in 1..n /\ Rank(S, c) \in Int
      /\ \A c, d \in S : Rank(S, c) = Rank(S, d) => c = d
      /\ \A j \in 1..n : \E c \in S : Rank(S, c) = j - 1
    <2>1. /\ \A c \in S : Rank(S, c) + 1 \in 1..Cardinality(S)
          /\ \A c, d \in S : Rank(S, c) = Rank(S, d) => c = d
          /\ \A j \in 1..Cardinality(S) : \E c \in S : Rank(S, c) = j - 1
        BY Ranks
    <2>2. ASSUME NEW c \in S PROVE Rank(S, c) \in Int
        <3>1. {d \in S : d < c} \in SUBSET Children
            OBVIOUS
        <3> QED BY <3>1, SomeChildren DEF Rank
    <2> QED BY <1>1, <2>1, <2>2
<1>6. \A j \in 1..n : At(j) \in S /\ Rank(S, At(j)) = j - 1 /\ f[j] = x[At(j)]
    BY <1>2, <1>5
<1> HIDE DEF At
<1>7. ASSUME NEW c \in S PROVE \E j \in 1..n : f[j] = x[c]
    <2>1. PICK j \in 1..n : j = Rank(S, c) + 1
        BY <1>5
    <2>2. Rank(S, At(j)) = Rank(S, c) /\ At(j) \in S
        <3>1. PICK m \in Int : m = Rank(S, c)
            BY <1>5
        <3>2. j - 1 = m
            BY <2>1, <3>1
        <3> QED BY <1>6, <3>1, <3>2
    <2>3. At(j) = c
        BY <1>5, <2>2
    <2> QED BY <1>6, <2>3
<1>8. ASSUME NEW P PROVE HasIn(f, P) <=> \E c \in S : x[c] \in P
    BY <1>4, <1>6, <1>7 DEF HasIn
<1>9. ASSUME NEW P, \A c, d \in S : x[c] \in P /\ x[d] \in P => c = d PROVE OneIn(f, P)
    <2> SUFFICES ASSUME NEW j \in 1..n, NEW k \in 1..n, f[j] \in P, f[k] \in P PROVE j = k
        BY <1>4 DEF OneIn
    <2>1. At(j) = At(k)
        BY <1>6, <1>9
    <2>2. j - 1 = k - 1
        BY <1>6, <2>1
    <2> QED BY <2>2
<1>10. ASSUME NEW P, \A c \in S : x[c] \in P PROVE AllIn(f, P)
    BY <1>4, <1>6, <1>10 DEF AllIn
<1> QED BY <1>1, <1>4, <1>8, <1>9, <1>10

-----------------------------------------------------------------------------
(* What is invariant about the answers *)

AskOps == Answers \cup {"send"}
BadNews == {"notfound", "missing", "failed", "canceled", "upbad"}

\* The things to do by which r is to be answered by c, to be sent to c, to be told to
\* its client.
Asking(r, c) == {i \in Item : i.op \in AskOps /\ i.req = r /\ i.cp = c}
Sending(r, c) == {i \in Item : i.op = "send" /\ i.req = r /\ i.cp = c}
Telling(r) == {i \in Item : i.op \in {"upgood", "upbad"} /\ i.req = r}

Asked(r, c) == InThreads(Asking(r, c))
Sent(r, c) == InThreads(Sending(r, c))
Tell(r) == InThreads(Telling(r))

\* What a thread may have to do: refreshes are sent by the client that called, and
\* where no child is faulty no start fails.
Fitting(by, rq, q, l) ==
    {i \in Item :
        /\ i.op \in AskOps => q[i.req].kind \in AllKinds
        /\ i.op = "send" /\ q[i.req].kind \in RefreshKinds => by = "client" /\ rq = i.req
        /\ l.faulty = {} /\ i.op \in BadNews => q[i.req].kind # "start"}

RequestFits(q, l) ==
    /\ q.kind \in l.kinds \cup {"get", "put", "none"}
    /\ q.upcalls \in Seq({"good", "bad"}) /\ q.m_succeeded \in BOOLEAN /\ q.m_cmpl \in BOOLEAN
    /\ q.m_cmpl => q.m_needy = {}
    /\ q.kind \in RefreshKinds => q.m_cmpl

Typed ==
    /\ queue \in [Children -> [Classes -> Seq(Ids)]]
    /\ flight \subseteq Ids \X Children
    /\ \A r \in Ids, c \in Children : <<r, c>> \in flight => reqs[r].kind \in AllKinds
    /\ cycle \in [Children -> BOOLEAN] /\ begun \in BOOLEAN
    /\ \A r \in Ids : RequestFits(reqs[r], load)
    /\ \A t \in threads : AllIn(t.todo, Fitting(t.by, t.req, reqs, load))

\* No answer and no upcall is to be given twice.
Tidy == \A r \in Ids : AtMostOne(Telling(r)) /\ \A c \in Children : AtMostOne(Asking(r, c))

\* A request is in its own queue of a child, once.
QueueOK(q, cl, R) ==
    /\ \A j \in 1..Len(q) : Class(R[q[j]].kind) = cl
    /\ \A j, k \in 1..Len(q) : q[j] = q[k] => j = k

Queues == \A c \in Children, cl \in Classes : QueueOK(queue[c][cl], cl, reqs)

\* A request is in one place of its way to a child and back.
Separate ==
    \A r \in Ids, c \in Children :
        /\ Asked(r, c) => ~QueuedAt(r, c) /\ <<r, c>> \notin flight
        /\ <<r, c>> \in flight => ~QueuedAt(r, c)

Ways == Typed /\ Tidy /\ Queues /\ Separate

Waiting(r, c) == QueuedAt(r, c) \/ <<r, c>> \in flight \/ Asked(r, c)

\* m_outstanding does not reach zero before the last answer.
Enough == \A r \in Ids : reqs[r].m_needy = {} => Cardinality(Awaited(r)) <= reqs[r].m_outstanding

\* The completion routines have settled that the client is told.
ToldOf(q) ==
    IF q.kind \in {"start", "follow"} THEN q.m_outstanding <= 0
    ELSE q.m_succeeded \/ q.m_outstanding <= 0

\* A client is told once, as soon as that is settled.  (A start that fails after another
\* child has done it is told to nobody.)
ToldFits(q, tell) ==
    /\ tell \/ q.upcalls # <<>> => q.m_cmpl /\ ToldOf(q)
    /\ Len(q.upcalls) <= 1 /\ (tell => q.upcalls = <<>>)

Told ==
    \A r \in Ids :
        /\ ToldFits(reqs[r], Tell(r))
        /\ /\ reqs[r].kind = "start" => load.faulty = {}
           /\ reqs[r].m_cmpl /\ ToldOf(reqs[r])
           => Tell(r) \/ reqs[r].upcalls # <<>>

-----------------------------------------------------------------------------
(* The refresh cycles on their way to a child *)

\* Whether a store that gets the call has to have a refresh cycle, and has one then.
Need(kind) == IF kind = "start" THEN 0 ELSE 1
Gives(kind) == IF kind = "finish" THEN 0 ELSE 1
Num(b) == IF b THEN 1 ELSE 0

\* What the store has before the call at position j of the queue q, if b after all.
BeforeAt(q, j, b, R) == IF j <= Len(q) THEN Need(R[q[j]].kind) ELSE b

Linked(a, q, b, R) ==
    /\ a = BeforeAt(q, 1, b, R)
    /\ \A j \in 1..Len(q) : Gives(R[q[j]].kind) = BeforeAt(q, j + 1, b, R)

\* Each call finds what it needs, from the cycle cy of the store over those in flight,
\* queued and being sent to the client's view g.
ChainOK(cy, F, q, D, R, g) ==
    \E v, w \in {0, 1} :
        /\ F = {} => cy = v
        /\ \A r \in F : Need(R[r].kind) = cy /\ Gives(R[r].kind) = v
        /\ Linked(v, q, w, R)
        /\ \A r \in D : Need(R[r].kind) = w /\ Gives(R[r].kind) = g
        /\ D = {} => w = g

Refreshing(r) == reqs[r].kind \in RefreshKinds
Flying(c) == {r \in Ids : <<r, c>> \in flight /\ Refreshing(r)}
SentTo(c) == {r \in Ids : Sent(r, c) /\ Refreshing(r)}

OneFlight == \A c \in Children : \A r, s \in Flying(c) : r = s
OneSend == \A c, d \in Children : \A r \in SentTo(c), s \in SentTo(d) : r = s

\* A start that its client has not been told of.
Started(r) == reqs[r].kind = "start" /\ reqs[r].upcalls = <<>>
Target == begun \/ \E r \in Ids : Started(r)

OneStart ==
    /\ \A r, s \in Ids : Started(r) /\ Started(s) => r = s
    /\ begun => \A r \in Ids : ~Started(r)

ChainAt(c) == ChainOK(Num(cycle[c]), Flying(c), queue[c]["ref"], SentTo(c), reqs, Num(Target))
Chains == \A c \in Children : ChainAt(c)

Cycles == OneFlight /\ OneSend /\ (load.faulty = {} => OneStart /\ Chains)

Answering == Inv /\ Ways /\ Enough /\ Told /\ Cycles

-----------------------------------------------------------------------------
(* Chains of refresh calls *)

\* A refresh is called: nothing else is being sent.
LEMMA ChainSubmit ==
    ASSUME NEW cy, NEW F, NEW q, NEW R, NEW g, NEW x, ChainOK(cy, F, q, {}, R, g),
           Need(R[x].kind) = g
    PROVE ChainOK(cy, F, q, {x}, R, Gives(R[x].kind))
BY DEF ChainOK

\* It is enqueued.
LEMMA ChainEnqueue ==
    ASSUME NEW cy, NEW F, NEW q \in Seq(Ids), NEW R, NEW g, NEW x \in Ids, ChainOK(cy, F, q, {x}, R, g)
    PROVE ChainOK(cy, F, Append(q, x), {}, R, g)
<1>1. PICK v \in {0, 1}, w \in {0, 1} :
        /\ F = {} => cy = v
        /\ \A r \in F : Need(R[r].kind) = cy /\ Gives(R[r].kind) = v
        /\ Linked(v, q, w, R)
        /\ Need(R[x].kind) = w /\ Gives(R[x].kind) = g
    BY DEF ChainOK
<1>2. PICK n : n = Append(q, x)
    OBVIOUS
<1>3. PICK m \in Nat : m = Len(q)
    OBVIOUS
<1>4. Len(n) = m + 1 /\ n[m + 1] = x /\ \A j \in 1..m : n[j] = q[j]
    BY <1>2, <1>3
<1>5. ASSUME NEW j \in 1..(m + 1) PROVE BeforeAt(n, j, g, R) = BeforeAt(q, j, w, R)
    <2>1. CASE j = m + 1
        BY <1>1, <1>3, <1>4, <2>1 DEF BeforeAt
    <2>2. CASE j # m + 1
        BY <1>3, <1>4, <2>2 DEF BeforeAt
    <2> QED BY <2>1, <2>2
<1>6. \A j \in 1..m : Gives(R[n[j]].kind) = BeforeAt(n, j + 1, g, R)
    <2> SUFFICES ASSUME NEW j \in 1..m PROVE Gives(R[n[j]].kind) = BeforeAt(n, j + 1, g, R)
        OBVIOUS
    <2>1. Gives(R[q[j]].kind) = BeforeAt(q, j + 1, w, R)
        BY <1>1, <1>3 DEF Linked
    <2>2. j + 1 \in 1..(m + 1) /\ n[j] = q[j]
        BY <1>4
    <2> QED BY <1>5, <2>1, <2>2
<1>7. Gives(R[n[m + 1]].kind) = BeforeAt(n, (m + 1) + 1, g, R)
    BY <1>1, <1>4 DEF BeforeAt
<1>8. v = BeforeAt(n, 1, g, R)
    <2>1. v = BeforeAt(q, 1, w, R) /\ 1 \in 1..(m + 1)
        BY <1>1 DEF Linked
    <2> QED BY <1>5, <2>1
<1>9. Linked(v, n, g, R)
    <2>1. \A j \in 1..Len(n) : j \in 1..m \/ j = m + 1
        BY <1>4
    <2> QED BY <1>6, <1>7, <1>8, <2>1 DEF Linked
<1>10. g \in {0, 1}
    BY <1>1 DEF Gives
<1> QED BY <1>1, <1>2, <1>9, <1>10 DEF ChainOK

\* It is handed to the store.
LEMMA ChainInitiate ==
    ASSUME NEW cy, NEW q \in Seq(Ids), q # <<>>, NEW D, NEW R, NEW g, ChainOK(cy, {}, q, D, R, g)
    PROVE ChainOK(cy, {Head(q)}, Tail(q), D, R, g)
<1>1. PICK v \in {0, 1}, w \in {0, 1} :
        /\ cy = v /\ Linked(v, q, w, R)
        /\ \A r \in D : Need(R[r].kind) = w /\ Gives(R[r].kind) = g
        /\ D = {} => w = g
    BY DEF ChainOK
<1>2. PICK n : n = Tail(q)
    OBVIOUS
<1>3. PICK m \in Nat : Len(q) = m + 1
    <2>1. Len(q) \in Nat /\ Len(q) # 0
        OBVIOUS
    <2>2. Len(q) - 1 \in Nat /\ Len(q) = (Len(q) - 1) + 1
        BY <2>1
    <2> QED BY <2>2
<1>4. Len(n) = m /\ Head(q) = q[1] /\ \A j \in 1..m : n[j] = q[j + 1]
    BY <1>2, <1>3
<1>5. ASSUME NEW j \in 1..(m + 1) PROVE BeforeAt(n, j, w, R) = BeforeAt(q, j + 1, w, R)
    <2>1. CASE j = m + 1
        BY <1>3, <1>4, <2>1 DEF BeforeAt
    <2>2. CASE j # m + 1
        BY <1>3, <1>4, <2>2 DEF BeforeAt
    <2> QED BY <2>1, <2>2
<1>6. PICK u : u = Gives(R[q[1]].kind)
    OBVIOUS
<1>7. u \in {0, 1} /\ u = BeforeAt(n, 1, w, R)
    <2>1. Gives(R[q[1]].kind) = BeforeAt(q, 1 + 1, w, R)
        BY <1>1, <1>3 DEF Linked
    <2>2. 1 \in 1..(m + 1)
        OBVIOUS
    <2> QED BY <1>5, <1>6, <2>1, <2>2 DEF Gives
<1>8. ASSUME NEW j \in 1..m PROVE Gives(R[n[j]].kind) = BeforeAt(n, j + 1, w, R)
    <2>1. j + 1 \in 1..(m + 1) /\ n[j] = q[j + 1]
        BY <1>4
    <2>2. Gives(R[q[j + 1]].kind) = BeforeAt(q, (j + 1) + 1, w, R)
        BY <1>1, <1>3, <2>1 DEF Linked
    <2> QED BY <1>5, <2>1, <2>2
<1>9. Linked(u, n, w, R)
    BY <1>4, <1>7, <1>8 DEF Linked
<1>10. Need(R[Head(q)].kind) = cy /\ Gives(R[Head(q)].kind) = u
    <2>1. v = BeforeAt(q, 1, w, R) /\ 1 <= Len(q)
        BY <1>1, <1>3 DEF Linked
    <2> QED BY <1>1, <1>4, <1>6, <2>1 DEF BeforeAt
<1> QED BY <1>1, <1>2, <1>7, <1>9, <1>10 DEF ChainOK

\* The store performs it.
LEMMA ChainPerform ==
    ASSUME NEW cy, NEW q, NEW D, NEW R, NEW g, NEW x, ChainOK(cy, {x}, q, D, R, g)
    PROVE cy = Need(R[x].kind) /\ ChainOK(Gives(R[x].kind), {}, q, D, R, g)
BY DEF ChainOK

\* Only the kinds of the calls matter.
LEMMA ChainSame ==
    ASSUME NEW cy, NEW F, NEW q \in Seq(Ids), NEW D, NEW R, NEW g, ChainOK(cy, F, q, D, R, g), NEW T,
           \A r \in F \cup D \cup Elements(q) : T[r].kind = R[r].kind
    PROVE ChainOK(cy, F, q, D, T, g)
<1>1. PICK v \in {0, 1}, w \in {0, 1} :
        /\ F = {} => cy = v
        /\ \A r \in F : Need(R[r].kind) = cy /\ Gives(R[r].kind) = v
        /\ Linked(v, q, w, R)
        /\ \A r \in D : Need(R[r].kind) = w /\ Gives(R[r].kind) = g
        /\ D = {} => w = g
    BY DEF ChainOK
<1>2. \A j \in 1..Len(q) : T[q[j]].kind = R[q[j]].kind
    BY DEF Elements
<1>3. ASSUME NEW j \in Nat \ {0} PROVE BeforeAt(q, j, w, T) = BeforeAt(q, j, w, R)
    <2>1. j <= Len(q) => j \in 1..Len(q)
        OBVIOUS
    <2> QED BY <1>2, <2>1 DEF BeforeAt
<1>4. Linked(v, q, w, T)
    <2>1. v = BeforeAt(q, 1, w, T)
        BY <1>1, <1>3 DEF Linked
    <2>2. ASSUME NEW j \in 1..Len(q) PROVE Gives(T[q[j]].kind) = BeforeAt(q, j + 1, w, T)
        <3>1. Gives(R[q[j]].kind) = BeforeAt(q, j + 1, w, R)
            BY <1>1 DEF Linked
        <3>2. j + 1 \in Nat \ {0}
            OBVIOUS
        <3> QED BY <1>2, <1>3, <3>1, <3>2
    <2> QED BY <2>1, <2>2 DEF Linked
<1> QED BY <1>1, <1>4 DEF ChainOK

\* Without a start on the way the store has the cycle that the client knows of.
LEMMA ChainStarted ==
    ASSUME NEW cy, NEW F, NEW q \in Seq(Ids), NEW D, NEW R, ChainOK(cy, F, q, D, R, 1),
           \A r \in F \cup D \cup Elements(q) : R[r].kind # "start"
    PROVE cy = 1
<1>1. PICK v \in {0, 1}, w \in {0, 1} :
        /\ F = {} => cy = v
        /\ \A r \in F : Need(R[r].kind) = cy /\ Gives(R[r].kind) = v
        /\ Linked(v, q, w, R)
        /\ \A r \in D : Need(R[r].kind) = w
        /\ D = {} => w = 1
    BY DEF ChainOK
<1>2. w = 1
    BY <1>1 DEF Need
<1>3. v = 1
    <2>1. 1 <= Len(q) => q[1] \in Elements(q)
        BY DEF Elements
    <2> QED BY <1>1, <1>2, <2>1 DEF Linked, BeforeAt, Need
<1> QED BY <1>1, <1>3 DEF Need

-----------------------------------------------------------------------------
(* What the invariants have in common *)

\* What is said of more things holds of fewer.
LEMMA FewerIn ==
    ASSUME NEW P, NEW Q, P \subseteq Q, AtMostOne(Q)
    PROVE AtMostOne(P) /\ (InThreads(P) => InThreads(Q))
<1>1. \A s : HasIn(s, P) => HasIn(s, Q)
    BY DEF HasIn
<1>2. \A s : OneIn(s, Q) => OneIn(s, P)
    BY DEF OneIn
<1> QED BY <1>1, <1>2 DEF AtMostOne, InThreads

\* Requests are asked, sent and told once.
LEMMA OnceEach ==
    ASSUME Tidy, NEW r \in Ids
    PROVE /\ AtMostOne(Telling(r))
          /\ \A c \in Children : AtMostOne(Asking(r, c)) /\ AtMostOne(Sending(r, c))
          /\ \A c \in Children : Sent(r, c) => Asked(r, c)
<1>1. \A c : Sending(r, c) \subseteq Asking(r, c)
    BY DEF Sending, Asking, AskOps
<1>2. ASSUME NEW c \in Children PROVE AtMostOne(Sending(r, c)) /\ (Sent(r, c) => Asked(r, c))
    <2>1. PICK P : P = Sending(r, c)
        OBVIOUS
    <2>2. PICK Q : Q = Asking(r, c)
        OBVIOUS
    <2>3. P \subseteq Q /\ AtMostOne(Q)
        BY <1>1, <2>1, <2>2 DEF Tidy
    <2>4. AtMostOne(P) /\ (InThreads(P) => InThreads(Q))
        BY <2>3, FewerIn
    <2> QED BY <2>1, <2>2, <2>4 DEF Sent, Asked
<1> QED BY <1>2 DEF Tidy

\* The first thing a thread has to do.
LEMMA FirstFits ==
    ASSUME Inv, Typed, NEW t \in threads, NEW i, i = Head(t.todo)
    PROVE /\ i \in Fitting(t.by, t.req, reqs, load)
          /\ i \in Item /\ i.op \in Ops /\ i.req \in Ids /\ i.cp \in Children
          /\ HasIn(t.todo, {i}) /\ \A P : i \in P => InThreads(P)
          /\ IsList(t.todo) /\ t.todo # <<>>
<1>1. IsList(t.todo) /\ t.todo # <<>>
    BY DEF Inv, Shapes, ThreadOK, ListOK
<1>2. AllIn(t.todo, Fitting(t.by, t.req, reqs, load))
    BY DEF Typed
<1>3. i \in Fitting(t.by, t.req, reqs, load)
    BY <1>1, <1>2, TailAll
<1>4. i \in Item /\ i.op \in Ops /\ i.req \in Ids /\ i.cp \in Children
    BY <1>3 DEF Fitting, Item
<1>5. PICK s : s = t.todo
    OBVIOUS
<1>6. Len(s) \in Nat \ {0} /\ i = s[1]
    BY <1>1, <1>5, TailList
<1>7. 1 \in 1..Len(s) /\ s[1] = i
    BY <1>6
<1>8. HasIn(s, {i}) /\ \A P : i \in P => HasIn(s, P)
    BY <1>7 DEF HasIn
<1> QED BY <1>1, <1>3, <1>4, <1>5, <1>8 DEF InThreads

\* Nothing is to be done for a request that nothing refers to.
LEMMA NothingLeft ==
    ASSUME NEW r, Unused(r)
    PROVE /\ ~Tell(r)
          /\ \A c : ~Asked(r, c) /\ ~Sent(r, c)
          /\ \A c \in Children : ~Waiting(r, c)
<1>1. \A P : (\A i \in P : i.req = r) => ~InThreads(P)
    BY DEF Unused, Mentioned, InThreads, HasIn
<1>2. ~Tell(r)
    <2>1. \A i \in Telling(r) : i.req = r
        BY DEF Telling
    <2> QED BY <1>1, <2>1 DEF Tell
<1>3. \A c : ~Asked(r, c) /\ ~Sent(r, c)
    <2>1. \A c : (\A i \in Asking(r, c) : i.req = r) /\ (\A i \in Sending(r, c) : i.req = r)
        BY DEF Asking, Sending
    <2> QED BY <1>1, <2>1 DEF Asked, Sent
<1> QED BY <1>2, <1>3 DEF Waiting, Unused

\* The children that r is still to be answered by.
LEMMA AwaitedIs ==
    ASSUME Typed, NEW r \in Ids
    PROVE Awaited(r) = {c \in Children : Waiting(r, c)}
<1>1. ASSUME NEW c \in Children
      PROVE (\E t \in threads : \E i \in 1..Len(t.todo) :
                t.todo[i].req = r /\ t.todo[i].cp = c /\ t.todo[i].op \in Answers \cup {"send"})
            <=> Asked(r, c)
    <2>1. \A t \in threads : \A j \in 1..Len(t.todo) : t.todo[j] \in Item
        BY DEF Typed, AllIn, Fitting
    <2>2. \A t \in threads : \A j \in 1..Len(t.todo) :
              t.todo[j] \in Asking(r, c) <=> /\ t.todo[j].req = r /\ t.todo[j].cp = c
                                             /\ t.todo[j].op \in Answers \cup {"send"}
        BY <2>1 DEF Asking, AskOps
    <2> QED BY <2>2 DEF Asked, InThreads, HasIn
<1> QED BY <1>1 DEF Awaited, Waiting

\* The same after a step.
LEMMA AwaitedNext ==
    ASSUME Typed', NEW r \in Ids
    PROVE Awaited(r)' = {c \in Children : Waiting(r, c)'}
<1>1. ASSUME NEW c \in Children
      PROVE (\E t \in threads' : \E i \in 1..Len(t.todo) :
                t.todo[i].req = r /\ t.todo[i].cp = c /\ t.todo[i].op \in Answers \cup {"send"})
            <=> Asked(r, c)'
    <2>1. \A t \in threads' : \A j \in 1..Len(t.todo) : t.todo[j] \in Item
        BY DEF Typed, AllIn, Fitting
    <2>2. \A t \in threads' : \A j \in 1..Len(t.todo) :
              t.todo[j] \in Asking(r, c) <=> /\ t.todo[j].req = r /\ t.todo[j].cp = c
                                             /\ t.todo[j].op \in Answers \cup {"send"}
        BY <2>1 DEF Asking, AskOps
    <2> QED BY <2>2 DEF Asked, InThreads, HasIn
<1> QED BY <1>1 DEF Awaited, Waiting

\* What is to be done goes on fitting.
LEMMA GoesOnFit ==
    ASSUME Inv, NEW t \in threads, NEW A, IsList(A), Continue(t, A \o Tail(t.todo)), NEW q, NEW l,
           \A u \in threads : AllIn(u.todo, Fitting(u.by, u.req, q, l)),
           AllIn(A, Fitting(t.by, t.req, q, l))
    PROVE \A u \in threads' : AllIn(u.todo, Fitting(u.by, u.req, q, l))
<1>1. PICK s : s = t.todo
    OBVIOUS
<1>2. IsList(s) /\ s # <<>> /\ t = [by |-> t.by, cp |-> t.cp, req |-> t.req, todo |-> s]
    BY <1>1 DEF Inv, Shapes, ThreadOK, ListOK
<1>3. PICK P : P = Fitting(t.by, t.req, q, l)
    OBVIOUS
<1>4. IsList(Tail(s)) /\ AllIn(Tail(s), P)
    <2>1. AllIn(s, P)
        BY <1>1, <1>3
    <2> QED BY <1>2, <2>1, TailAll, TailList
<1>5. PICK n : n = A \o Tail(s)
    OBVIOUS
<1>6. AllIn(n, P)
    BY <1>3, <1>4, <1>5, JoinAll
<1>7. PICK v : v = [t EXCEPT !.todo = n]
    OBVIOUS
<1>8. v.todo = n /\ v.by = t.by /\ v.req = t.req
    BY <1>2, <1>7
<1>9. \A u \in threads' : u \in threads \/ u = v
    BY <1>1, <1>5, <1>7 DEF Continue
<1> QED BY <1>3, <1>6, <1>8, <1>9

\* A thread goes on with the rest of its list.
LEMMA DropFit ==
    ASSUME Inv, NEW t \in threads, Continue(t, Tail(t.todo)), NEW q, NEW l,
           \A u \in threads : AllIn(u.todo, Fitting(u.by, u.req, q, l))
    PROVE \A u \in threads' : AllIn(u.todo, Fitting(u.by, u.req, q, l))
<1>1. PICK A : A = <<>>
    OBVIOUS
<1>2. IsList(A) /\ Len(A) = 0
    BY <1>1 DEF IsList
<1>3. AllIn(A, Fitting(t.by, t.req, q, l))
    BY <1>2 DEF AllIn
<1>4. PICK rest : rest = Tail(t.todo)
    OBVIOUS
<1>5. IsList(rest)
    BY <1>4, TailList DEF Inv, Shapes, ThreadOK, ListOK
<1>6. A \o rest = rest
    BY <1>1, <1>5 DEF IsList
<1>7. Continue(t, A \o Tail(t.todo))
    BY <1>4, <1>6
<1> QED BY <1>2, <1>3, <1>7, GoesOnFit

\* The requests that are referred to keep their kinds.
LEMMA KindsFit ==
    ASSUME Typed, NEW q, \A r \in Ids : ~Unused(r) => q[r].kind = reqs[r].kind
    PROVE \A u \in threads : AllIn(u.todo, Fitting(u.by, u.req, q, load))
<1> SUFFICES ASSUME NEW u \in threads, NEW j \in 1..Len(u.todo)
             PROVE u.todo[j] \in Fitting(u.by, u.req, q, load)
    BY DEF AllIn
<1>1. u.todo[j] \in Fitting(u.by, u.req, reqs, load)
    BY DEF Typed, AllIn
<1>2. ~Unused(u.todo[j].req)
    BY DEF Unused, Mentioned
<1>3. u.todo[j].req \in Ids
    BY <1>1 DEF Fitting, Item
<1>4. q[u.todo[j].req].kind = reqs[u.todo[j].req].kind
    BY <1>2, <1>3
<1> QED BY <1>1, <1>4 DEF Fitting

-----------------------------------------------------------------------------
(* What most steps leave alone *)

\* No request is answered.
LEMMA SameWaits ==
    ASSUME Typed, Enough, Typed',
           \A r \in Ids : /\ reqs'[r].m_needy = reqs[r].m_needy
                          /\ reqs'[r].m_outstanding = reqs[r].m_outstanding,
           \A r \in Ids, c \in Children : Waiting(r, c)' <=> Waiting(r, c)
    PROVE Enough' /\ (OutstandingExact => OutstandingExact')
<1>1. ASSUME NEW r \in Ids PROVE Awaited(r)' = Awaited(r)
    <2>1. Awaited(r) = {c \in Children : Waiting(r, c)}
        BY AwaitedIs
    <2>2. Awaited(r)' = {c \in Children : Waiting(r, c)'}
        BY AwaitedNext
    <2> QED BY <2>1, <2>2
<1> QED BY <1>1 DEF Enough, OutstandingExact

\* No client is told.
LEMMA SameTold ==
    ASSUME Told, UNCHANGED <<reqs, load>>, \A r \in Ids : Tell(r)' <=> Tell(r)
    PROVE Told'
BY DEF Told, ToldFits, ToldOf

\* No refresh call gets further on its way to child c.
LEMMA SameChain ==
    ASSUME Typed, NEW c \in Children, ChainAt(c), cycle'[c] = cycle[c], Target' <=> Target,
           queue'[c]["ref"] = queue[c]["ref"], Flying(c)' = Flying(c), SentTo(c)' = SentTo(c),
           \A r \in Flying(c) \cup SentTo(c) \cup Elements(queue[c]["ref"]) :
               reqs'[r].kind = reqs[r].kind
    PROVE ChainAt(c)'
<1>1. PICK cy : cy = Num(cycle[c])
    OBVIOUS
<1>2. PICK g : g = Num(Target)
    OBVIOUS
<1>3. PICK q \in Seq(Ids) : q = queue[c]["ref"]
    BY DEF Typed, Classes
<1>4. PICK R : R = reqs
    OBVIOUS
<1>5. PICK T : T = reqs'
    OBVIOUS
<1>6. PICK F : F = Flying(c)
    OBVIOUS
<1>7. PICK D : D = SentTo(c)
    OBVIOUS
<1>8. ChainOK(cy, F, q, D, R, g) /\ \A r \in F \cup D \cup Elements(q) : T[r].kind = R[r].kind
    BY <1>1, <1>2, <1>3, <1>4, <1>5, <1>6, <1>7 DEF ChainAt
<1>9. ChainOK(cy, F, q, D, T, g)
    BY ONLY <1>8, ChainSame, q \in Seq(Ids)
<1>10. Num(cycle'[c]) = cy /\ Num(Target') = g
    BY <1>1, <1>2 DEF Num
<1> QED BY <1>3, <1>5, <1>6, <1>7, <1>9, <1>10 DEF ChainAt

\* No refresh call gets further.
LEMMA SameCycles ==
    ASSUME Typed, Cycles, UNCHANGED <<cycle, load>>,
           \A c \in Children : queue'[c]["ref"] = queue[c]["ref"],
           \A c \in Children : Flying(c)' = Flying(c) /\ SentTo(c)' = SentTo(c),
           load.faulty = {} => OneStart' /\ (Target' <=> Target),
           \A c \in Children : \A r \in Flying(c) \cup SentTo(c) \cup Elements(queue[c]["ref"]) :
               reqs'[r].kind = reqs[r].kind
    PROVE Cycles'
<1>1. OneFlight' /\ OneSend'
    BY DEF Cycles, OneFlight, OneSend
<1>2. ASSUME load.faulty = {} PROVE OneStart' /\ Chains'
    <2>1. ASSUME NEW c \in Children PROVE ChainAt(c)'
        <3>1. ChainAt(c) /\ (Target' <=> Target)
            BY <1>2 DEF Cycles, Chains
        <3> QED BY <3>1, SameChain
    <2> QED BY <1>2, <2>1 DEF Chains
<1> QED BY <1>1, <1>2 DEF Cycles

\* Nobody learns of a start.
LEMMA SameStarts ==
    ASSUME Cycles, UNCHANGED begun, \A r \in Ids : Started(r)' <=> Started(r)
    PROVE (Target' <=> Target) /\ (load.faulty = {} => OneStart')
BY DEF Cycles, OneStart, Target

-----------------------------------------------------------------------------
(* Queues *)

\* A request is put at the end of a queue that it is not in.
LEMMA QueueAppend ==
    ASSUME NEW q \in Seq(Ids), NEW cl, NEW R, QueueOK(q, cl, R), NEW x \in Ids, x \notin Elements(q),
           Class(R[x].kind) = cl
    PROVE /\ Append(q, x) \in Seq(Ids) /\ QueueOK(Append(q, x), cl, R)
          /\ Elements(Append(q, x)) = Elements(q) \cup {x}
<1>1. PICK n : n = Append(q, x)
    OBVIOUS
<1>2. PICK m \in Nat : m = Len(q)
    OBVIOUS
<1>3. Len(n) = m + 1 /\ n[m + 1] = x /\ \A j \in 1..m : n[j] = q[j]
    BY <1>1, <1>2
<1>4. \A j \in 1..Len(n) : j = m + 1 \/ j \in 1..m
    BY <1>3
<1>5. \A j \in 1..m : n[j] \in Elements(q) /\ Class(R[n[j]].kind) = cl
    BY <1>2, <1>3 DEF Elements, QueueOK
<1>6. QueueOK(n, cl, R)
    <2>1. \A j \in 1..Len(n) : Class(R[n[j]].kind) = cl
        BY <1>3, <1>4, <1>5
    <2>2. ASSUME NEW j \in 1..Len(n), NEW k \in 1..Len(n), n[j] = n[k] PROVE j = k
        <3>1. CASE j \in 1..m /\ k \in 1..m
            BY <1>2, <1>3, <2>2, <3>1 DEF QueueOK
        <3>2. CASE ~(j \in 1..m /\ k \in 1..m)
            BY <1>3, <1>4, <1>5, <2>2, <3>2
        <3> QED BY <3>1, <3>2
    <2> QED BY <2>1, <2>2 DEF QueueOK
<1>7. Elements(n) = Elements(q) \cup {x}
    <2>1. Elements(n) \subseteq Elements(q) \cup {x}
        BY <1>3, <1>4, <1>5 DEF Elements
    <2>2. m + 1 \in 1..Len(n) /\ \A j \in 1..m : j \in 1..Len(n)
        BY <1>3
    <2>3. Elements(q) \cup {x} \subseteq Elements(n)
        BY <1>2, <1>3, <2>2 DEF Elements
    <2> QED BY <2>1, <2>3
<1>8. n \in Seq(Ids)
    BY <1>1
<1> QED BY <1>1, <1>6, <1>7, <1>8

\* One is taken out at position n.
LEMMA QueueWithout ==
    ASSUME NEW q \in Seq(Ids), NEW cl, NEW R, QueueOK(q, cl, R), NEW n \in 1..Len(q)
    PROVE /\ Without(q, n) \in Seq(Ids) /\ QueueOK(Without(q, n), cl, R)
          /\ Elements(Without(q, n)) = Elements(q) \ {q[n]} /\ q[n] \in Elements(q) /\ q[n] \in Ids
<1>1. PICK f : f = Without(q, n)
    OBVIOUS
<1>2. PICK m \in Nat : Len(q) = m + 1
    <2>1. Len(q) \in Nat /\ Len(q) # 0
        OBVIOUS
    <2>2. Len(q) - 1 \in Nat /\ Len(q) = (Len(q) - 1) + 1
        BY <2>1
    <2> QED BY <2>2
<1>3. f = [j \in 1..m |-> IF j < n THEN q[j] ELSE q[j + 1]]
    BY <1>1, <1>2 DEF Without
<1>4. \A j \in 1..m : /\ j \in 1..Len(q) /\ j + 1 \in 1..Len(q)
                     /\ f[j] = IF j < n THEN q[j] ELSE q[j + 1]
    BY <1>2, <1>3
<1>5. \A j \in 1..Len(q) : q[j] \in Ids
    OBVIOUS
<1>6. f \in Seq(Ids) /\ Len(f) = m
    <2>1. f \in [1..m -> Ids]
        BY <1>3, <1>4, <1>5
    <2>2. f \in Seq(Ids)
        BY <2>1
    <2>3. f = [j \in 1..m |-> f[j]]
        BY <1>3
    <2> QED BY <2>2, <2>3, FunctionIsList
<1>7. \A j, k \in 1..Len(q) : q[j] = q[k] => j = k
    BY DEF QueueOK
<1>8. \A j \in 1..Len(q) : Class(R[q[j]].kind) = cl
    BY DEF QueueOK
<1>9. QueueOK(f, cl, R)
    <2>1. \A j \in 1..m : Class(R[f[j]].kind) = cl
        BY <1>4, <1>8
    <2>2. ASSUME NEW j \in 1..m, NEW k \in 1..m, f[j] = f[k] PROVE j = k
        <3>1. PICK a \in 1..Len(q) : f[j] = q[a] /\ a = IF j < n THEN j ELSE j + 1
            BY <1>4
        <3>2. PICK b \in 1..Len(q) : f[k] = q[b] /\ b = IF k < n THEN k ELSE k + 1
            BY <1>4
        <3>3. a = b
            BY <1>7, <2>2, <3>1, <3>2
        <3> QED BY <3>1, <3>2, <3>3
    <2> QED BY <1>6, <2>1, <2>2 DEF QueueOK
<1>10. Elements(f) \subseteq Elements(q) \ {q[n]}
    <2> SUFFICES ASSUME NEW j \in 1..m PROVE f[j] \in Elements(q) /\ f[j] # q[n]
        BY <1>6 DEF Elements
    <2>1. PICK a \in 1..Len(q) : f[j] = q[a] /\ a = IF j < n THEN j ELSE j + 1
        BY <1>4
    <2>2. a # n
        BY <2>1
    <2> QED BY <1>7, <2>1, <2>2 DEF Elements
<1>11. Elements(q) \ {q[n]} \subseteq Elements(f)
    <2> SUFFICES ASSUME NEW a \in 1..Len(q), q[a] # q[n] PROVE q[a] \in Elements(f)
        BY DEF Elements
    <2>1. a # n
        OBVIOUS
    <2>2. PICK j \in 1..m : a = IF j < n THEN j ELSE j + 1
        <3>1. CASE a < n
            <4>1. a \in 1..m
                BY <1>2, <3>1
            <4> QED BY <3>1, <4>1
        <3>2. CASE ~(a < n)
            <4>1. a - 1 \in 1..m /\ ~(a - 1 < n) /\ a = (a - 1) + 1
                BY <1>2, <2>1, <3>2
            <4> QED BY <4>1
        <3> QED BY <3>1, <3>2
    <2>3. f[j] = q[a]
        BY <1>4, <2>2
    <2> QED BY <1>6, <2>3 DEF Elements
<1>12. q[n] \in Elements(q) /\ q[n] \in Ids
    BY <1>5 DEF Elements
<1>13. Elements(f) = Elements(q) \ {q[n]}
    BY <1>10, <1>11
<1> QED BY <1>1, <1>6, <1>9, <1>12, <1>13

\* The head is taken out.
LEMMA QueueTail ==
    ASSUME NEW q \in Seq(Ids), NEW cl, NEW R, QueueOK(q, cl, R), q # <<>>
    PROVE /\ Tail(q) \in Seq(Ids) /\ QueueOK(Tail(q), cl, R)
          /\ Elements(Tail(q)) = Elements(q) \ {Head(q)} /\ Head(q) \in Elements(q) /\ Head(q) \in Ids
<1>1. PICK n \in 1..Len(q) : n = 1
    OBVIOUS
<1>2. Without(q, n) = Tail(q)
    <2>1. PICK m \in Nat : m = Len(q) - 1
        OBVIOUS
    <2>2. PICK f : f = Without(q, n)
        OBVIOUS
    <2>3. PICK g : g = Tail(q)
        OBVIOUS
    <2>4. f = [j \in 1..m |-> IF j < 1 THEN q[j] ELSE q[j + 1]]
        BY <1>1, <2>1, <2>2 DEF Without
    <2>5. g \in Seq(Ids) /\ Len(g) = m /\ \A j \in 1..m : g[j] = q[j + 1]
        BY <2>1, <2>3
    <2>6. g = [j \in 1..m |-> g[j]]
        BY <2>5
    <2>7. f = [j \in 1..m |-> f[j]] /\ \A j \in 1..m : f[j] = q[j + 1]
        BY <2>4
    <2>8. \A j \in 1..m : f[j] = g[j]
        BY <2>5, <2>7
    <2>9. f = g
        BY <2>6, <2>7, <2>8
    <2> QED BY <2>2, <2>3, <2>9
<1>3. Head(q) = q[n]
    BY <1>1
<1>4. /\ Without(q, n) \in Seq(Ids) /\ QueueOK(Without(q, n), cl, R)
      /\ Elements(Without(q, n)) = Elements(q) \ {q[n]} /\ q[n] \in Elements(q) /\ q[n] \in Ids
    BY QueueWithout
<1> QED BY <1>2, <1>3, <1>4

\* Only the kinds of the requests matter.
LEMMA QueueSame ==
    ASSUME NEW q, NEW cl, NEW R, NEW T, QueueOK(q, cl, R), \A r \in Elements(q) : T[r].kind = R[r].kind
    PROVE QueueOK(q, cl, T)
BY DEF QueueOK, Elements

\* A request is in the queue of its kind.
LEMMA QueuedOnce ==
    ASSUME Typed, Queues, NEW r, NEW c \in Children
    PROVE QueuedAt(r, c) <=> Class(reqs[r].kind) \in Classes
                             /\ r \in Elements(queue[c][Class(reqs[r].kind)])
BY DEF QueuedAt, Queues, QueueOK, Elements

-----------------------------------------------------------------------------
(* Steps that do not concern an answer *)

\* Requests, queues and stores are as before, and so is what is to be answered.
LEMMA QuietStep ==
    ASSUME Answering, Inv', UNCHANGED <<reqs, queue, flight, cycle, begun, load>>, Tidy',
           \A u \in threads' : AllIn(u.todo, Fitting(u.by, u.req, reqs, load)),
           \A r \in Ids : Tell(r)' <=> Tell(r),
           \A r \in Ids, c \in Children : (Asked(r, c)' <=> Asked(r, c)) /\ (Sent(r, c)' <=> Sent(r, c))
    PROVE Answering' /\ (OutstandingExact => OutstandingExact')
<1>1. Typed'
    BY DEF Answering, Ways, Typed
<1>2. Queues'
    BY DEF Answering, Ways, Queues
<1>3. \A r, c : QueuedAt(r, c)' <=> QueuedAt(r, c)
    BY DEF QueuedAt
<1>4. Separate'
    BY <1>3 DEF Answering, Ways, Separate
<1>5. \A r \in Ids, c \in Children : Waiting(r, c)' <=> Waiting(r, c)
    BY <1>3 DEF Waiting
<1>6. Enough' /\ (OutstandingExact => OutstandingExact')
    BY <1>1, <1>5, SameWaits DEF Answering, Ways
<1>7. Told'
    BY SameTold DEF Answering
<1>8. Cycles'
    <2>1. \A c \in Children : Flying(c)' = Flying(c) /\ SentTo(c)' = SentTo(c)
        BY DEF Flying, SentTo, Refreshing
    <2>2. \A r \in Ids : Started(r)' <=> Started(r)
        BY DEF Started
    <2>3. load.faulty = {} => OneStart' /\ (Target' <=> Target)
        BY <2>2, SameStarts DEF Answering
    <2> QED BY <2>1, <2>3, SameCycles DEF Answering, Ways
<1> QED BY <1>1, <1>2, <1>4, <1>6, <1>7, <1>8 DEF Answering, Ways

\* Nothing is done in a thread.
LEMMA IdleStep ==
    ASSUME Answering, Inv', UNCHANGED <<reqs, queue, flight, cycle, begun, load, threads>>
    PROVE Answering' /\ (OutstandingExact => OutstandingExact')
<1>1. Tidy'
    BY DEF Answering, Ways, Tidy, AtMostOne
<1>2. \A u \in threads' : AllIn(u.todo, Fitting(u.by, u.req, reqs, load))
    BY DEF Answering, Ways, Typed
<1>3. \A r \in Ids : Tell(r)' <=> Tell(r)
    BY DEF Tell, InThreads
<1>4. \A r \in Ids, c \in Children : (Asked(r, c)' <=> Asked(r, c)) /\ (Sent(r, c)' <=> Sent(r, c))
    BY DEF Asked, Sent, InThreads
<1> QED BY <1>1, <1>2, <1>3, <1>4, QuietStep

\* What the threads are to answer and tell when t has done its first thing.
LEMMA DropAnswers ==
    ASSUME Inv, Typed, Tidy, NEW t \in threads, NEW i, i = Head(t.todo), Continue(t, Tail(t.todo))
    PROVE /\ Tidy'
          /\ \A r \in Ids : Tell(r)' <=> Tell(r) /\ ~(i.op \in {"upgood", "upbad"} /\ i.req = r)
          /\ \A r \in Ids, c \in Children :
                /\ Asked(r, c)' <=> Asked(r, c) /\ ~(i.op \in AskOps /\ i.req = r /\ i.cp = c)
                /\ Sent(r, c)' <=> Sent(r, c) /\ ~(i.op = "send" /\ i.req = r /\ i.cp = c)
<1>1. i \in Item
    BY FirstFits
<1>2. ASSUME NEW r \in Ids
      PROVE /\ AtMostOne(Telling(r))'
            /\ Tell(r)' <=> Tell(r) /\ ~(i.op \in {"upgood", "upbad"} /\ i.req = r)
    <2>1. PICK P : P = Telling(r)
        OBVIOUS
    <2>2. AtMostOne(P)
        BY <2>1, OnceEach
    <2>3. AtMostOne(P)' /\ (InThreads(P)' <=> InThreads(P) /\ Head(t.todo) \notin P)
        BY <2>2, Drops
    <2>4. i \in P <=> i.op \in {"upgood", "upbad"} /\ i.req = r
        BY <1>1, <2>1 DEF Telling
    <2>5. P' = P
        BY <2>1
    <2> QED BY <2>1, <2>3, <2>4 DEF Tell
<1>3. ASSUME NEW r \in Ids, NEW c \in Children
      PROVE /\ AtMostOne(Asking(r, c))'
            /\ Asked(r, c)' <=> Asked(r, c) /\ ~(i.op \in AskOps /\ i.req = r /\ i.cp = c)
            /\ Sent(r, c)' <=> Sent(r, c) /\ ~(i.op = "send" /\ i.req = r /\ i.cp = c)
    <2>1. PICK P : P = Asking(r, c)
        OBVIOUS
    <2>2. PICK Q : Q = Sending(r, c)
        OBVIOUS
    <2>3. AtMostOne(P) /\ AtMostOne(Q)
        BY <2>1, <2>2, OnceEach
    <2>4. AtMostOne(P)' /\ (InThreads(P)' <=> InThreads(P) /\ Head(t.todo) \notin P)
        BY <2>3, Drops
    <2>5. InThreads(Q)' <=> InThreads(Q) /\ Head(t.todo) \notin Q
        BY <2>3, Drops
    <2>6. i \in P <=> i.op \in AskOps /\ i.req = r /\ i.cp = c
        BY <1>1, <2>1 DEF Asking
    <2>7. i \in Q <=> i.op = "send" /\ i.req = r /\ i.cp = c
        BY <1>1, <2>2 DEF Sending
    <2> QED BY <2>1, <2>2, <2>4, <2>5, <2>6, <2>7 DEF Asked, Sent
<1> QED BY <1>2, <1>3 DEF Tidy

\* needed_keys_append, done and uh_unsaturated.
LEMMA DropStep ==
    ASSUME Answering, Inv', NEW t \in threads, Continue(t, Tail(t.todo)),
           Head(t.todo).op \in {"need", "done", "unsat"},
           UNCHANGED <<reqs, queue, flight, cycle, begun, load>>
    PROVE Answering' /\ (OutstandingExact => OutstandingExact')
<1>1. PICK i : i = Head(t.todo)
    OBVIOUS
<1>2. i.op \notin AskOps /\ i.op \notin {"upgood", "upbad"} /\ i.op # "send"
    BY <1>1 DEF AskOps, Answers
<1>3. /\ Tidy' /\ \A r \in Ids : Tell(r)' <=> Tell(r)
      /\ \A r \in Ids, c \in Children : (Asked(r, c)' <=> Asked(r, c)) /\ (Sent(r, c)' <=> Sent(r, c))
    BY <1>1, <1>2, DropAnswers DEF Answering, Ways
<1>4. \A u \in threads' : AllIn(u.todo, Fitting(u.by, u.req, reqs, load))
    <2>1. PICK q : q = reqs
        OBVIOUS
    <2>2. PICK l : l = load
        OBVIOUS
    <2>3. Inv /\ \A u \in threads : AllIn(u.todo, Fitting(u.by, u.req, q, l))
        BY <2>1, <2>2 DEF Answering, Ways, Typed
    <2>4. \A u \in threads' : AllIn(u.todo, Fitting(u.by, u.req, q, l))
        BY <2>3, DropFit
    <2> QED BY <2>1, <2>2, <2>4
<1> QED BY <1>3, <1>4, QuietStep

-----------------------------------------------------------------------------
(* A client is told *)

\* The client is told; the only start there is has begun its cycle.
LEMMA UpcallStep ==
    ASSUME Answering, Inv', NEW t \in threads, Upcall(t), UNCHANGED load
    PROVE Answering' /\ (OutstandingExact => OutstandingExact')
<1>1. PICK i : i = Head(t.todo)
    OBVIOUS
<1>2. PICK r : r = i.req
    OBVIOUS
<1>3. /\ i.op \in {"upgood", "upbad"} /\ Continue(t, Tail(t.todo))
      /\ reqs' = [reqs EXCEPT ![r].upcalls = Append(@, IF i.op = "upgood" THEN "good" ELSE "bad")]
      /\ begun' = (begun \/ (reqs[r].kind = "start" /\ i.op = "upgood"))
      /\ UNCHANGED <<queue, flight, cycle>>
    BY <1>1, <1>2 DEF Upcall, kids, stores
<1>4. Inv /\ Typed /\ Tidy /\ Queues /\ Separate /\ Enough /\ Told /\ Cycles
    BY DEF Answering, Ways
<1>5. /\ i \in Fitting(t.by, t.req, reqs, load) /\ i \in Item /\ r \in Ids
      /\ \A P : i \in P => InThreads(P)
    BY <1>1, <1>2, <1>4, FirstFits
<1>6. Tell(r)
    <2>1. i \in Telling(r)
        BY <1>2, <1>3, <1>5 DEF Telling
    <2> QED BY <1>5, <2>1 DEF Tell
<1>7. /\ Tidy' /\ \A s \in Ids : Tell(s)' <=> Tell(s) /\ s # r
      /\ \A s \in Ids, c \in Children : (Asked(s, c)' <=> Asked(s, c)) /\ (Sent(s, c)' <=> Sent(s, c))
    <2>1. i.op \notin AskOps /\ i.op # "send"
        BY <1>3 DEF AskOps, Answers
    <2> QED BY <1>1, <1>2, <1>3, <1>4, <2>1, DropAnswers
<1>8. PICK a : a = reqs[r]
    OBVIOUS
<1>9. PICK n : n = Append(a.upcalls, IF i.op = "upgood" THEN "good" ELSE "bad")
    OBVIOUS
<1>10. /\ RequestOK(a) /\ RequestFits(a, load) /\ DOMAIN reqs = Ids
    BY <1>4, <1>5, <1>8 DEF Inv, Shapes, Typed
<1>11. /\ reqs'[r] = [kind |-> a.kind, key |-> a.key, m_outstanding |-> a.m_outstanding,
                      m_succeeded |-> a.m_succeeded, m_cmpl |-> a.m_cmpl, m_needy |-> a.m_needy,
                      upcalls |-> n]
       /\ \A s \in Ids \ {r} : reqs'[s] = reqs[s]
    <2>1. reqs'[r] = [a EXCEPT !.upcalls = n] /\ \A s \in Ids \ {r} : reqs'[s] = reqs[s]
        BY <1>3, <1>5, <1>8, <1>9, <1>10
    <2>2. a = [kind |-> a.kind, key |-> a.key, m_outstanding |-> a.m_outstanding,
               m_succeeded |-> a.m_succeeded, m_cmpl |-> a.m_cmpl, m_needy |-> a.m_needy,
               upcalls |-> a.upcalls]
        BY <1>10 DEF RequestOK
    <2> QED BY <2>1, <2>2
<1>12. n \in Seq({"good", "bad"}) /\ Len(n) = Len(a.upcalls) + 1 /\ n # <<>>
    <2>1. a.upcalls \in Seq({"good", "bad"})
        BY <1>10 DEF RequestFits
    <2> QED BY <1>9, <2>1
<1>13. \A s \in Ids : /\ reqs'[s].kind = reqs[s].kind /\ reqs'[s].m_needy = reqs[s].m_needy
                      /\ reqs'[s].m_outstanding = reqs[s].m_outstanding
                      /\ reqs'[s].m_succeeded = reqs[s].m_succeeded
                      /\ reqs'[s].m_cmpl = reqs[s].m_cmpl
    BY <1>8, <1>11
<1>14. Typed'
    <2>1. \A s \in Ids : RequestFits(reqs'[s], load')
        <3>1. ASSUME NEW s \in Ids PROVE RequestFits(reqs'[s], load')
            <4>1. CASE s = r
                <5>1. reqs'[r].upcalls = n /\ reqs'[r].kind = a.kind /\ reqs'[r].m_cmpl = a.m_cmpl
                      /\ reqs'[r].m_needy = a.m_needy /\ reqs'[r].m_succeeded = a.m_succeeded
                    BY <1>11
                <5> QED BY <1>10, <1>12, <4>1, <5>1 DEF RequestFits
            <4>2. CASE s # r
                BY <1>4, <1>11, <4>2 DEF Typed
            <4> QED BY <4>1, <4>2
        <3> QED BY <3>1
    <2>2. \A u \in threads' : AllIn(u.todo, Fitting(u.by, u.req, reqs', load'))
        <3>1. PICK q : q = reqs'
            OBVIOUS
        <3>2. PICK l : l = load
            OBVIOUS
        <3>3. \A u \in threads : AllIn(u.todo, Fitting(u.by, u.req, q, l))
            BY <1>4, <1>13, <3>1, <3>2, KindsFit
        <3>4. \A u \in threads' : AllIn(u.todo, Fitting(u.by, u.req, q, l))
            BY <1>3, <1>4, <3>3, DropFit
        <3> QED BY <3>1, <3>2, <3>4
    <2> QED BY <1>3, <1>4, <1>13, <2>1, <2>2 DEF Typed
<1>15. Queues' /\ Separate' /\ \A s \in Ids, c \in Children : Waiting(s, c)' <=> Waiting(s, c)
    <2>1. \A s, c : QueuedAt(s, c)' <=> QueuedAt(s, c)
        BY <1>3 DEF QueuedAt
    <2>2. Queues'
        <3>1. ASSUME NEW c \in Children, NEW cl \in Classes PROVE QueueOK(queue[c][cl], cl, reqs')
            <4>1. Elements(queue[c][cl]) \subseteq Ids
                BY <1>4 DEF Typed, Elements
            <4>2. \A s \in Elements(queue[c][cl]) : reqs'[s].kind = reqs[s].kind
                BY <1>13, <4>1
            <4>3. QueueOK(queue[c][cl], cl, reqs)
                BY <1>4 DEF Queues
            <4> QED BY <4>2, <4>3, QueueSame
        <3> QED BY <1>3, <3>1 DEF Queues
    <2>3. Separate'
        BY <1>3, <1>4, <1>7, <2>1 DEF Separate
    <2> QED BY <1>3, <1>7, <2>1, <2>2, <2>3 DEF Waiting
<1>16. Enough' /\ (OutstandingExact => OutstandingExact')
    BY <1>4, <1>13, <1>14, <1>15, SameWaits
<1>17. Told'
    <2> SUFFICES ASSUME NEW s \in Ids
                 PROVE /\ ToldFits(reqs'[s], Tell(s)')
                       /\ /\ reqs'[s].kind = "start" => load'.faulty = {}
                          /\ reqs'[s].m_cmpl /\ ToldOf(reqs'[s])
                          => Tell(s)' \/ reqs'[s].upcalls # <<>>
        BY DEF Told, ToldFits, ToldOf
    <2>1. /\ Tell(s) \/ reqs[s].upcalls # <<>> => reqs[s].m_cmpl /\ ToldOf(reqs[s])
          /\ Len(reqs[s].upcalls) <= 1 /\ (Tell(s) => reqs[s].upcalls = <<>>)
          /\ (reqs[s].kind = "start" => load.faulty = {}) /\ reqs[s].m_cmpl /\ ToldOf(reqs[s])
             => Tell(s) \/ reqs[s].upcalls # <<>>
        BY <1>4 DEF Told, ToldFits
    <2>2. ToldOf(reqs'[s]) <=> ToldOf(reqs[s])
        BY <1>13 DEF ToldOf
    <2>3. CASE s = r
        <3>1. reqs'[s].upcalls = n /\ a.upcalls = <<>>
            BY <1>6, <1>8, <1>11, <2>1, <2>3
        <3>2. n # <<>> /\ Len(n) <= 1
            BY <1>12, <3>1
        <3> QED BY <1>6, <1>7, <1>13, <2>1, <2>2, <2>3, <3>1, <3>2 DEF ToldFits
    <2>4. CASE s # r
        BY <1>7, <1>11, <2>1, <2>4 DEF ToldFits
    <2> QED BY <2>3, <2>4
<1>18. load.faulty = {} => OneStart' /\ (Target' <=> Target)
    <2> SUFFICES ASSUME load.faulty = {} PROVE OneStart' /\ (Target' <=> Target)
        OBVIOUS
    <2>1. /\ \A s, u \in Ids : Started(s) /\ Started(u) => s = u
          /\ begun => \A s \in Ids : ~Started(s)
        BY <1>4 DEF Cycles, OneStart
    <2>2. \A s \in Ids : Started(s)' <=> Started(s) /\ s # r
        BY <1>11, <1>12, <1>13 DEF Started
    <2>3. CASE reqs[r].kind = "start"
        <3>1. i.op = "upgood"
            BY <1>2, <1>3, <1>5, <2>3 DEF Fitting, BadNews
        <3>2. begun' = TRUE
            BY <1>3, <2>3, <3>1
        <3>3. Started(r)
            BY <1>4, <1>5, <1>6, <2>3 DEF Told, ToldFits, Started
        <3>4. \A s \in Ids : ~Started(s)'
            BY <1>5, <2>1, <2>2, <3>3
        <3>5. OneStart'
            BY <3>4 DEF OneStart
        <3>6. Target /\ Target'
            BY <1>5, <3>2, <3>3 DEF Target
        <3> QED BY <3>5, <3>6
    <2>4. CASE reqs[r].kind # "start"
        <3>1. begun' <=> begun
            BY <1>3, <2>4
        <3>2. \A s \in Ids : Started(s)' <=> Started(s)
            BY <2>2, <2>4 DEF Started
        <3> QED BY <2>1, <3>1, <3>2 DEF OneStart, Target
    <2> QED BY <2>3, <2>4
<1>19. Cycles'
    <2>1. \A c \in Children : Flying(c)' = Flying(c) /\ SentTo(c)' = SentTo(c)
        BY <1>3, <1>7, <1>13 DEF Flying, SentTo, Refreshing
    <2>2. ASSUME NEW c \in Children,
                 NEW s \in Flying(c) \cup SentTo(c) \cup Elements(queue[c]["ref"])
          PROVE reqs'[s].kind = reqs[s].kind
        <3>1. s \in Ids
            BY <1>4 DEF Flying, SentTo, Typed, Classes, Elements
        <3> QED BY <1>13, <3>1
    <2> QED BY <1>3, <1>4, <1>18, <2>1, <2>2, SameCycles
<1> QED BY <1>7, <1>14, <1>15, <1>16, <1>17, <1>19 DEF Answering, Ways

-----------------------------------------------------------------------------
(* A request on its way to a child *)

\* The classes of requests.
LEMMA KindClass ==
    ASSUME Inv, Typed, NEW r \in Ids
    PROVE /\ reqs[r].kind \in AllKinds => Class(reqs[r].kind) \in Classes
          /\ Class(reqs[r].kind) \in Classes => reqs[r].kind \in AllKinds
          /\ Class(reqs[r].kind) = "ref" <=> Refreshing(r)
          /\ Class(reqs[r].kind) = "get" <=> reqs[r].kind = "get"
          /\ reqs[r].kind \in AllKinds \cup {"none"}
<1>1. reqs[r].kind \in AllKinds \cup {"none"}
    <2>1. load.kinds \subseteq AllKinds
        BY VBlockStoreAssumption DEF Inv, Shapes
    <2> QED BY <2>1 DEF Typed, RequestFits, AllKinds
<1> QED BY <1>1 DEF Class, Classes, AllKinds, Refreshing, RefreshKinds

\* A request is enqueued with a child.
LEMMA EnqueueStep ==
    ASSUME Answering, Inv', NEW t \in threads, Enqueue(t), UNCHANGED load
    PROVE Answering' /\ (OutstandingExact => OutstandingExact')
<1>1. PICK i : i = Head(t.todo)
    OBVIOUS
<1>2. PICK r : r = i.req
    OBVIOUS
<1>3. PICK c : c = i.cp
    OBVIOUS
<1>4. PICK cl : cl = Class(reqs[r].kind)
    OBVIOUS
<1>5. /\ i.op = "send" /\ Continue(t, Tail(t.todo))
      /\ queue' = [queue EXCEPT ![c][cl] = Append(@, r)]
      /\ UNCHANGED <<reqs, flight, cycle, begun>>
    BY <1>1, <1>2, <1>3, <1>4 DEF Enqueue, stores
<1>6. Inv /\ Typed /\ Tidy /\ Queues /\ Separate /\ Enough /\ Told /\ Cycles
    BY DEF Answering, Ways
<1>7. /\ i \in Fitting(t.by, t.req, reqs, load) /\ i \in Item /\ r \in Ids /\ c \in Children
      /\ \A P : i \in P => InThreads(P)
    BY <1>1, <1>2, <1>3, <1>6, FirstFits
<1>8. Sent(r, c) /\ Asked(r, c)
    <2>1. i \in Sending(r, c) /\ i \in Asking(r, c)
        BY <1>2, <1>3, <1>5, <1>7 DEF Sending, Asking, AskOps
    <2> QED BY <1>7, <2>1 DEF Sent, Asked
<1>9. /\ Tidy' /\ \A s \in Ids : Tell(s)' <=> Tell(s)
      /\ \A s \in Ids, d \in Children : /\ Asked(s, d)' <=> Asked(s, d) /\ ~(s = r /\ d = c)
                                        /\ Sent(s, d)' <=> Sent(s, d) /\ ~(s = r /\ d = c)
    <2>1. i.op \in AskOps /\ i.op \notin {"upgood", "upbad"}
        BY <1>5 DEF AskOps
    <2> QED BY <1>1, <1>2, <1>3, <1>5, <1>6, <2>1, DropAnswers
<1>10. cl \in Classes
    <2>1. reqs[r].kind \in AllKinds
        BY <1>2, <1>5, <1>7 DEF Fitting, AskOps
    <2> QED BY <1>4, <1>6, <1>7, <2>1, KindClass
<1>11. PICK q \in Seq(Ids) : q = queue[c][cl]
    BY <1>6, <1>7, <1>10 DEF Typed
<1>12. r \notin Elements(q) /\ QueueOK(q, cl, reqs) /\ Class(reqs[r].kind) = cl
    BY <1>4, <1>6, <1>7, <1>8, <1>10, <1>11 DEF Separate, QueuedAt, Queues
<1>13. PICK n : n = Append(q, r)
    OBVIOUS
<1>14. n \in Seq(Ids) /\ QueueOK(n, cl, reqs) /\ Elements(n) = Elements(q) \cup {r}
    BY <1>7, <1>12, <1>13, QueueAppend
<1>15. /\ queue' \in [Children -> [Classes -> Seq(Ids)]] /\ queue'[c][cl] = n
       /\ \A d \in Children, k \in Classes : d # c \/ k # cl => queue'[d][k] = queue[d][k]
    <2>1. queue' = [queue EXCEPT ![c] = [queue[c] EXCEPT ![cl] = n]]
        BY <1>5, <1>6, <1>7, <1>10, <1>11, <1>13 DEF Typed
    <2>2. [queue[c] EXCEPT ![cl] = n] \in [Classes -> Seq(Ids)]
        BY <1>6, <1>7, <1>10, <1>14 DEF Typed
    <2> QED BY <1>6, <1>7, <1>10, <2>1, <2>2 DEF Typed
<1>16. \A s \in Ids, d \in Children : QueuedAt(s, d)' <=> QueuedAt(s, d) \/ (s = r /\ d = c)
    <2>1. ASSUME NEW s \in Ids, NEW d \in Children, NEW k \in Classes
          PROVE s \in Elements(queue'[d][k]) <=>
                    s \in Elements(queue[d][k]) \/ (s = r /\ d = c /\ k = cl)
        BY <1>11, <1>14, <1>15
    <2> QED BY <1>10, <2>1 DEF QueuedAt
<1>17. Typed'
    <2>1. \A u \in threads' : AllIn(u.todo, Fitting(u.by, u.req, reqs, load))
        <3>1. PICK R : R = reqs
            OBVIOUS
        <3>2. PICK l : l = load
            OBVIOUS
        <3>3. \A u \in threads : AllIn(u.todo, Fitting(u.by, u.req, R, l))
            BY <1>6, <3>1, <3>2 DEF Typed
        <3>4. \A u \in threads' : AllIn(u.todo, Fitting(u.by, u.req, R, l))
            BY <1>5, <1>6, <3>3, DropFit
        <3> QED BY <3>1, <3>2, <3>4
    <2> QED BY <1>5, <1>6, <1>15, <2>1 DEF Typed
<1>18. Queues'
    <2>1. ASSUME NEW d \in Children, NEW k \in Classes PROVE QueueOK(queue'[d][k], k, reqs)
        BY <1>6, <1>14, <1>15 DEF Queues
    <2> QED BY <1>5, <2>1 DEF Queues
<1>19. Separate'
    <2> SUFFICES ASSUME NEW s \in Ids, NEW d \in Children
                 PROVE /\ Asked(s, d)' => ~QueuedAt(s, d)' /\ <<s, d>> \notin flight
                       /\ <<s, d>> \in flight => ~QueuedAt(s, d)'
        BY <1>5 DEF Separate
    <2>1. /\ Asked(s, d) => ~QueuedAt(s, d) /\ <<s, d>> \notin flight
          /\ <<s, d>> \in flight => ~QueuedAt(s, d)
        BY <1>6 DEF Separate
    <2>2. <<r, c>> \notin flight
        BY <1>6, <1>7, <1>8 DEF Separate
    <2> QED BY <1>9, <1>16, <2>1, <2>2
<1>20. \A s \in Ids, d \in Children : Waiting(s, d)' <=> Waiting(s, d)
    BY <1>5, <1>8, <1>9, <1>16 DEF Waiting
<1>21. Enough' /\ (OutstandingExact => OutstandingExact')
    BY <1>5, <1>6, <1>17, <1>20, SameWaits
<1>22. Told'
    BY <1>5, <1>6, <1>9, SameTold
<1>23. /\ \A d \in Children : Flying(d)' = Flying(d) /\ SentTo(d)' = SentTo(d) \ (IF d = c THEN {r} ELSE {})
       /\ load.faulty = {} => OneStart' /\ (Target' <=> Target)
    <2>1. \A s \in Ids : Started(s)' <=> Started(s)
        BY <1>5 DEF Started
    <2> QED BY <1>5, <1>6, <1>9, <2>1, SameStarts DEF Flying, SentTo, Refreshing
<1>24. Cycles'
    <2>1. CASE Refreshing(r)
        <3>1. cl = "ref" /\ r \in SentTo(c)
            BY <1>4, <1>6, <1>7, <1>8, <2>1, KindClass DEF SentTo
        <3>2. SentTo(c) = {r} /\ SentTo(c)' = {}
            BY <1>6, <1>7, <1>23, <3>1 DEF Cycles, OneSend
        <3>3. OneFlight' /\ OneSend'
            BY <1>6, <1>23 DEF Cycles, OneFlight, OneSend
        <3>4. ASSUME load.faulty = {}, NEW d \in Children PROVE ChainAt(d)'
            <4>1. ChainAt(d) /\ (Target' <=> Target)
                BY <1>6, <1>23, <3>4 DEF Cycles, Chains
            <4>2. CASE d = c
                <5>1. PICK cy : cy = Num(cycle[c])
                    OBVIOUS
                <5>2. PICK g : g = Num(Target)
                    OBVIOUS
                <5>3. PICK R : R = reqs
                    OBVIOUS
                <5>4. PICK F : F = Flying(c)
                    OBVIOUS
                <5>5. ChainOK(cy, F, q, {r}, R, g)
                    BY <1>11, <3>1, <3>2, <4>1, <4>2, <5>1, <5>2, <5>3, <5>4 DEF ChainAt
                <5>6. r \in Ids /\ q \in Seq(Ids)
                    BY <1>7
                <5>7. ChainOK(cy, F, n, {}, R, g)
                    BY ONLY <1>13, <5>5, <5>6, ChainEnqueue
                <5>8. Num(Target') = g
                    BY <4>1, <5>2 DEF Num
                <5> QED BY <1>5, <1>15, <1>23, <3>1, <3>2, <4>2, <5>1, <5>3, <5>4, <5>7, <5>8 DEF ChainAt
            <4>3. CASE d # c
                <5>1. queue'[d]["ref"] = queue[d]["ref"] /\ SentTo(d)' = SentTo(d)
                    BY <1>15, <1>23, <4>3 DEF Classes
                <5> QED BY <1>5, <1>6, <1>23, <4>1, <5>1, SameChain
            <4> QED BY <4>2, <4>3
        <3> QED BY <1>23, <3>3, <3>4 DEF Cycles, Chains
    <2>2. CASE ~Refreshing(r)
        <3>1. cl # "ref" /\ \A d \in Children : SentTo(d)' = SentTo(d)
            BY <1>4, <1>6, <1>7, <1>23, <2>2, KindClass DEF SentTo
        <3>2. \A d \in Children : queue'[d]["ref"] = queue[d]["ref"]
            BY <1>15, <3>1 DEF Classes
        <3> QED BY <1>5, <1>6, <1>23, <3>1, <3>2, SameCycles
    <2> QED BY <2>1, <2>2
<1> QED BY <1>9, <1>17, <1>18, <1>19, <1>21, <1>22, <1>24 DEF Answering, Ways

\* A child's loop hands a request to the store.
LEMMA InitiateStep ==
    ASSUME Answering, Inv', NEW c \in Children, initiate_requests(c), UNCHANGED load
    PROVE Answering' /\ (OutstandingExact => OutstandingExact')
<1>1. PICK x \in Pending(c) :
          /\ flight' = flight \cup {<<Head(queue[c][Priority[x]]), c>>}
          /\ queue' = [queue EXCEPT ![c][Priority[x]] = Tail(@)]
    BY DEF initiate_requests
<1>2. PICK cl \in Classes : cl = Priority[x] /\ queue[c][cl] # <<>>
    BY <1>1 DEF Pending, Priority, Classes
<1>3. Inv /\ Typed /\ Tidy /\ Queues /\ Separate /\ Enough /\ Told /\ Cycles
    BY DEF Answering, Ways
<1>4. PICK q \in Seq(Ids) : q = queue[c][cl] /\ q # <<>>
    BY <1>2, <1>3 DEF Typed
<1>5. PICK r : r = Head(q)
    OBVIOUS
<1>6. PICK n : n = Tail(q)
    OBVIOUS
<1>7. QueueOK(q, cl, reqs)
    BY <1>3, <1>4 DEF Queues
<1>8. /\ n \in Seq(Ids) /\ QueueOK(n, cl, reqs) /\ Elements(n) = Elements(q) \ {r}
      /\ r \in Elements(q) /\ r \in Ids
    BY <1>4, <1>5, <1>6, <1>7, QueueTail
<1>9. /\ flight' = flight \cup {<<r, c>>} /\ queue' = [queue EXCEPT ![c][cl] = Tail(@)]
      /\ UNCHANGED <<reqs, threads, cycle, begun>> /\ ~Busy(c)
    BY <1>1, <1>2, <1>4, <1>5 DEF initiate_requests, stores, AtTop
<1>10. /\ queue' \in [Children -> [Classes -> Seq(Ids)]] /\ queue'[c][cl] = n
       /\ \A d \in Children, k \in Classes : d # c \/ k # cl => queue'[d][k] = queue[d][k]
    <2>1. queue' = [queue EXCEPT ![c] = [queue[c] EXCEPT ![cl] = n]]
        BY <1>3, <1>4, <1>6, <1>9 DEF Typed
    <2>2. [queue[c] EXCEPT ![cl] = n] \in [Classes -> Seq(Ids)]
        BY <1>3, <1>8 DEF Typed
    <2> QED BY <1>3, <2>1, <2>2 DEF Typed
<1>11. Class(reqs[r].kind) = cl /\ QueuedAt(r, c) /\ reqs[r].kind \in AllKinds
    <2>1. Class(reqs[r].kind) = cl
        BY <1>7, <1>8 DEF QueueOK, Elements
    <2> QED BY <1>3, <1>4, <1>8, <2>1, KindClass DEF QueuedAt
<1>12. \A s \in Ids, d \in Children : QueuedAt(s, d)' <=> QueuedAt(s, d) /\ ~(s = r /\ d = c)
    <2>1. \A d \in Children, k \in Classes : r \in Elements(queue[d][k]) => k = cl
        BY <1>3, <1>11 DEF Queues, QueueOK, Elements
    <2>2. ASSUME NEW s \in Ids, NEW d \in Children, NEW k \in Classes
          PROVE s \in Elements(queue'[d][k]) <=> s \in Elements(queue[d][k]) /\ ~(s = r /\ d = c)
        <3>1. CASE d = c /\ k = cl
            BY <1>4, <1>8, <1>10, <3>1
        <3>2. CASE ~(d = c /\ k = cl)
            BY <1>10, <2>1, <3>2
        <3> QED BY <3>1, <3>2
    <2> QED BY <2>2 DEF QueuedAt
<1>13. /\ \A s \in Ids : Tell(s)' <=> Tell(s)
       /\ \A s \in Ids, d \in Children : (Asked(s, d)' <=> Asked(s, d)) /\ (Sent(s, d)' <=> Sent(s, d))
    BY <1>9 DEF Tell, Asked, Sent, InThreads
<1>14. Tidy' /\ Queues'
    <2>1. Tidy'
        BY <1>3, <1>9 DEF Tidy, AtMostOne
    <2>2. ASSUME NEW d \in Children, NEW k \in Classes PROVE QueueOK(queue'[d][k], k, reqs)
        BY <1>3, <1>8, <1>10 DEF Queues
    <2> QED BY <1>9, <2>1, <2>2 DEF Queues
<1>15. Typed'
    <2>1. flight' \subseteq Ids \X Children
        BY <1>3, <1>8, <1>9 DEF Typed
    <2>2. \A s \in Ids, d \in Children : <<s, d>> \in flight' => reqs[s].kind \in AllKinds
        BY <1>3, <1>9, <1>11 DEF Typed
    <2> QED BY <1>3, <1>9, <1>10, <2>1, <2>2 DEF Typed
<1>16. Separate'
    <2> SUFFICES ASSUME NEW s \in Ids, NEW d \in Children
                 PROVE /\ Asked(s, d) => ~QueuedAt(s, d)' /\ <<s, d>> \notin flight'
                       /\ <<s, d>> \in flight' => ~QueuedAt(s, d)'
        BY <1>13 DEF Separate
    <2>1. /\ Asked(s, d) => ~QueuedAt(s, d) /\ <<s, d>> \notin flight
          /\ <<s, d>> \in flight => ~QueuedAt(s, d)
        BY <1>3 DEF Separate
    <2> QED BY <1>9, <1>11, <1>12, <2>1
<1>17. \A s \in Ids, d \in Children : Waiting(s, d)' <=> Waiting(s, d)
    BY <1>9, <1>11, <1>12, <1>13 DEF Waiting
<1>18. Enough' /\ (OutstandingExact => OutstandingExact')
    BY <1>3, <1>9, <1>15, <1>17, SameWaits
<1>19. Told'
    BY <1>3, <1>9, <1>13, SameTold
<1>20. /\ \A d \in Children : SentTo(d)' = SentTo(d)
       /\ \A d \in Children \ {c} : Flying(d)' = Flying(d)
       /\ load.faulty = {} => OneStart' /\ (Target' <=> Target)
    <2>1. \A s \in Ids : Started(s)' <=> Started(s)
        BY <1>9 DEF Started
    <2> QED BY <1>3, <1>9, <1>13, <2>1, SameStarts DEF Flying, SentTo, Refreshing
<1>21. Cycles'
    <2>1. CASE Refreshing(r)
        <3>1. cl = "ref"
            BY <1>3, <1>8, <1>11, <2>1, KindClass
        <3>2. Flying(c) = {}
            BY <1>9 DEF Busy, InLoop, Flying, Refreshing, RefreshKinds
        <3>3. Flying(c)' = {r}
            BY <1>8, <1>9, <2>1, <3>2 DEF Flying, Refreshing
        <3>4. OneFlight' /\ OneSend'
            BY <1>3, <1>20, <3>3 DEF Cycles, OneFlight, OneSend
        <3>5. ASSUME load.faulty = {}, NEW d \in Children PROVE ChainAt(d)'
            <4>1. ChainAt(d) /\ (Target' <=> Target)
                BY <1>3, <1>20, <3>5 DEF Cycles, Chains
            <4>2. CASE d = c
                <5>1. PICK cy : cy = Num(cycle[c])
                    OBVIOUS
                <5>2. PICK g : g = Num(Target)
                    OBVIOUS
                <5>3. PICK R : R = reqs
                    OBVIOUS
                <5>4. PICK D : D = SentTo(c)
                    OBVIOUS
                <5>5. ChainOK(cy, {}, q, D, R, g) /\ q \in Seq(Ids) /\ q # <<>>
                    BY <1>4, <3>1, <3>2, <4>1, <4>2, <5>1, <5>2, <5>3, <5>4 DEF ChainAt
                <5>6. ChainOK(cy, {Head(q)}, Tail(q), D, R, g)
                    BY ONLY <5>5, ChainInitiate
                <5>7. Num(Target') = g
                    BY <4>1, <5>2 DEF Num
                <5>8. ChainOK(cy, {r}, n, D, R, g)
                    BY <1>5, <1>6, <5>6
                <5> QED BY <1>9, <1>10, <1>20, <3>1, <3>3, <4>2, <5>1, <5>3, <5>4, <5>7, <5>8 DEF ChainAt
            <4>3. CASE d # c
                <5>1. queue'[d]["ref"] = queue[d]["ref"] /\ Flying(d)' = Flying(d)
                    BY <1>10, <1>20, <4>3 DEF Classes
                <5> QED BY <1>3, <1>9, <1>20, <4>1, <5>1, SameChain
            <4> QED BY <4>2, <4>3
        <3> QED BY <1>20, <3>4, <3>5 DEF Cycles, Chains
    <2>2. CASE ~Refreshing(r)
        <3>1. cl # "ref" /\ Flying(c)' = Flying(c)
            BY <1>3, <1>8, <1>9, <1>11, <2>2, KindClass DEF Flying, Refreshing
        <3>2. \A d \in Children : queue'[d]["ref"] = queue[d]["ref"] /\ Flying(d)' = Flying(d)
            BY <1>10, <1>20, <3>1 DEF Classes
        <3> QED BY <1>3, <1>9, <1>20, <3>2, SameCycles
    <2> QED BY <2>1, <2>2
<1> QED BY <1>14, <1>15, <1>16, <1>18, <1>19, <1>21 DEF Answering, Ways

-----------------------------------------------------------------------------
(* A store performs a request *)

\* What the store behind c may do with r.
LEMMA OutcomeIs ==
    ASSUME Typed, NEW c \in Children, NEW r \in Ids, NEW o \in Outcomes(c, r)
    PROVE /\ o.answer \in {"good", "notfound", "missing", "failed", "throws"} /\ o.cycle \in BOOLEAN
          /\ ~Refreshing(r) => o.cycle = cycle[c]
          /\ o.answer = "throws" => reqs[r].kind \in {"block", "head"}
          /\ load.faulty = {} /\ o.answer = "throws" => reqs[r].kind = "block"
          /\ load.faulty = {} /\ Refreshing(r) /\ Num(cycle[c]) = Need(reqs[r].kind) =>
                /\ Num(o.cycle) = Gives(reqs[r].kind) /\ o.answer # "throws"
                /\ reqs[r].kind = "start" => o.answer = "good"
<1>1. PICK k : k = reqs[r].kind
    OBVIOUS
<1>2. cycle[c] = TRUE \/ cycle[c] = FALSE
    BY DEF Typed
<1>3. load.faulty = {} => c \notin Faulty
    BY DEF Faulty
<1>4. Num(TRUE) = 1 /\ Num(FALSE) = 0
    BY DEF Num
<1>5. CASE k = "start"
    <2>1. CASE cycle[c] = TRUE
        <3>1. o = Outcome("failed", has[c], TRUE)
            BY <1>1, <1>5, <2>1 DEF Outcomes
        <3>2. o.answer = "failed" /\ o.cycle = TRUE
            BY <3>1 DEF Outcome
        <3>3. Num(cycle[c]) = 1
            BY <1>4, <2>1, Zenon
        <3>4. Num(cycle[c]) # Need(reqs[r].kind)
            BY <1>1, <1>5, <3>3 DEF Need
        <3>5. o.cycle \in BOOLEAN
            BY <3>2, Zenon
        <3> QED BY <1>1, <1>5, <3>2, <3>4, <3>5 DEF Refreshing, RefreshKinds
    <2>2. CASE cycle[c] = FALSE
        <3>1. \/ o = Outcome("good", has[c], TRUE)
              \/ c \in Faulty /\ o = Outcome("failed", has[c], FALSE)
            BY <1>1, <1>5, <2>2 DEF Outcomes
        <3>2. \/ o.answer = "good" /\ o.cycle = TRUE
              \/ c \in Faulty /\ o.answer = "failed" /\ o.cycle = FALSE
            BY <3>1 DEF Outcome
        <3> QED BY <1>1, <1>3, <1>4, <1>5, <2>2, <3>2 DEF Refreshing, RefreshKinds, Need, Gives
    <2> QED BY <1>2, <2>1, <2>2
<1>6. CASE k = "block"
    <2>1. CASE cycle[c] = TRUE
        <3>1. \/ o = Outcome("good", has[c], TRUE) \/ o = Outcome("missing", has[c], TRUE)
              \/ c \in Faulty /\ o = Outcome("throws", has[c], TRUE)
            BY <1>1, <1>6, <2>1 DEF Outcomes
        <3>2. /\ o.cycle = TRUE
              /\ o.answer \in {"good", "missing"} \/ (c \in Faulty /\ o.answer = "throws")
            BY <3>1 DEF Outcome
        <3> QED BY <1>1, <1>3, <1>4, <1>6, <2>1, <3>2 DEF Refreshing, RefreshKinds, Need, Gives
    <2>2. CASE cycle[c] = FALSE
        <3>1. o = Outcome("throws", has[c], FALSE)
            BY <1>1, <1>6, <2>2 DEF Outcomes
        <3>2. o.answer = "throws" /\ o.cycle = FALSE
            BY <3>1 DEF Outcome
        <3>3. Num(cycle[c]) = 0
            BY <1>4, <2>2, Zenon
        <3>4. Num(cycle[c]) # Need(reqs[r].kind)
            BY <1>1, <1>6, <3>3 DEF Need
        <3>5. o.cycle \in BOOLEAN
            BY <3>2, Zenon
        <3> QED BY <1>1, <1>6, <3>2, <3>4, <3>5 DEF Refreshing, RefreshKinds
    <2> QED BY <1>2, <2>1, <2>2
<1>7. CASE k = "finish"
    <2>1. CASE cycle[c] = TRUE
        <3>1. \/ o = Outcome("good", has[c], FALSE)
              \/ c \in Faulty /\ o = Outcome("failed", has[c], TRUE)
            BY <1>1, <1>7, <2>1 DEF Outcomes
        <3>2. \/ o.answer = "good" /\ o.cycle = FALSE
              \/ c \in Faulty /\ o.answer = "failed" /\ o.cycle = TRUE
            BY <3>1 DEF Outcome
        <3> QED BY <1>1, <1>3, <1>4, <1>7, <2>1, <3>2 DEF Refreshing, RefreshKinds, Need, Gives
    <2>2. CASE cycle[c] = FALSE
        <3>1. o = Outcome("failed", has[c], FALSE)
            BY <1>1, <1>7, <2>2 DEF Outcomes
        <3>2. o.answer = "failed" /\ o.cycle = FALSE
            BY <3>1 DEF Outcome
        <3> QED BY <1>1, <1>4, <1>7, <2>2, <3>2 DEF Refreshing, RefreshKinds, Need, Gives
    <2> QED BY <1>2, <2>1, <2>2
<1>8. CASE k = "head"
    <2>1. \/ o = Outcome("good", has[c], cycle[c])
          \/ c \in Faulty /\ o = Outcome("throws", has[c], cycle[c])
        BY <1>1, <1>8 DEF Outcomes
    <2>2. o.cycle = cycle[c] /\ (o.answer = "good" \/ (c \in Faulty /\ o.answer = "throws"))
        BY <2>1 DEF Outcome
    <2>3. o.cycle \in BOOLEAN
        BY <1>2, <2>2, Zenon
    <2> QED BY <1>1, <1>3, <1>8, <2>2, <2>3 DEF Refreshing, RefreshKinds
<1>9. CASE k \notin {"start", "block", "finish", "head"}
    <2>1. \E h, a : a \in {"good", "notfound", "failed"} /\ o = Outcome(a, h, cycle[c])
        BY <1>1, <1>9 DEF Outcomes
    <2>2. o.cycle = cycle[c] /\ o.answer \in {"good", "notfound", "failed"}
        BY <2>1 DEF Outcome
    <2>3. o.cycle \in BOOLEAN
        BY <1>2, <2>2, Zenon
    <2> QED BY <1>1, <1>9, <2>2, <2>3 DEF Refreshing, RefreshKinds
<1> QED BY <1>5, <1>6, <1>7, <1>8, <1>9

\* Fewer children are waited for than before.
LEMMA FewerWaits ==
    ASSUME Typed, Inv, Enough, Typed',
           \A r \in Ids : /\ reqs'[r].m_needy = reqs[r].m_needy
                          /\ reqs'[r].m_outstanding = reqs[r].m_outstanding,
           \A r \in Ids, c \in Children : Waiting(r, c)' => Waiting(r, c)
    PROVE Enough'
<1> SUFFICES ASSUME NEW r \in Ids, reqs'[r].m_needy = {}
             PROVE Cardinality(Awaited(r)') <= reqs'[r].m_outstanding
    BY DEF Enough
<1>1. PICK S \in SUBSET Children : S = Awaited(r)
    BY DEF Awaited
<1>2. PICK T : T = Awaited(r)'
    OBVIOUS
<1>3. S = {c \in Children : Waiting(r, c)}
    BY <1>1, AwaitedIs
<1>4. T = {c \in Children : Waiting(r, c)'}
    BY <1>2, AwaitedNext
<1>5. T \in SUBSET S /\ T \in SUBSET Children
    BY <1>3, <1>4
<1>6. IsFiniteSet(S) /\ Cardinality(S) \in Nat /\ Cardinality(T) \in Nat
    BY <1>5, SomeChildren
<1>7. Cardinality(T) <= Cardinality(S)
    BY <1>5, <1>6, FS_Subset
<1>8. Cardinality(S) <= reqs[r].m_outstanding /\ reqs[r].m_outstanding \in Int
    BY <1>1 DEF Enough, Inv, Shapes, RequestOK
<1> QED BY <1>2, <1>6, <1>7, <1>8

\* The store behind c has performed r: the answer is on its way, unless it let an
\* exception out.
LEMMA PerformAnswers ==
    ASSUME Answering, Inv', NEW r \in Ids, NEW c \in Children, Perform(c, r), UNCHANGED load
    PROVE Answering' /\ (NoThrow /\ OutstandingExact => OutstandingExact')
<1> DEFINE by == IF InLoop(c, r) THEN "loop" ELSE "store"
<1>1. PICK o \in Outcomes(c, r) :
          /\ <<r, c>> \in flight /\ flight' = flight \ {<<r, c>>}
          /\ cycle' = [cycle EXCEPT ![c] = o.cycle]
          /\ IF o.answer = "throws" THEN UNCHANGED threads
             ELSE threads' = threads \cup {[by |-> by, cp |-> c, req |-> r,
                      todo |-> <<Do(o.answer, r, c)>> \o When(~InLoop(c, r), Do("unsat", r, c))]}
          /\ UNCHANGED <<reqs, queue, begun>>
    BY DEF Perform
<1>2. Inv /\ Typed /\ Tidy /\ Queues /\ Separate /\ Enough /\ Told /\ Cycles
    BY DEF Answering, Ways
<1> HIDE DEF by
<1>3. /\ o.answer \in {"good", "notfound", "missing", "failed", "throws"} /\ o.cycle \in BOOLEAN
      /\ ~Refreshing(r) => o.cycle = cycle[c]
      /\ o.answer = "throws" => reqs[r].kind \in {"block", "head"}
      /\ load.faulty = {} /\ o.answer = "throws" => reqs[r].kind = "block"
      /\ load.faulty = {} /\ Refreshing(r) /\ Num(cycle[c]) = Need(reqs[r].kind) =>
            /\ Num(o.cycle) = Gives(reqs[r].kind) /\ o.answer # "throws"
            /\ reqs[r].kind = "start" => o.answer = "good"
    BY <1>1, <1>2, OutcomeIs
<1>4. ~Asked(r, c) /\ ~QueuedAt(r, c) /\ reqs[r].kind \in AllKinds
    BY <1>1, <1>2 DEF Separate, Typed
<1>5. ASSUME load.faulty = {}, Refreshing(r)
      PROVE /\ Num(cycle[c]) = Need(reqs[r].kind)
            /\ ChainOK(Gives(reqs[r].kind), {}, queue[c]["ref"], SentTo(c), reqs, Num(Target))
    <2>1. Flying(c) = {r}
        BY <1>1, <1>2, <1>5 DEF Cycles, OneFlight, Flying
    <2>2. PICK cy : cy = Num(cycle[c])
        OBVIOUS
    <2>3. PICK q : q = queue[c]["ref"]
        OBVIOUS
    <2>4. PICK D : D = SentTo(c)
        OBVIOUS
    <2>5. PICK g : g = Num(Target)
        OBVIOUS
    <2>6. PICK R : R = reqs
        OBVIOUS
    <2>7. ChainOK(cy, {r}, q, D, R, g)
        BY <1>2, <1>5, <2>1, <2>2, <2>3, <2>4, <2>5, <2>6 DEF Cycles, Chains, ChainAt
    <2>8. cy = Need(R[r].kind) /\ ChainOK(Gives(R[r].kind), {}, q, D, R, g)
        BY ONLY <2>7, ChainPerform
    <2> QED BY <2>2, <2>3, <2>4, <2>5, <2>6, <2>8
<1>6. /\ Tidy' /\ \A s \in Ids : Tell(s)' <=> Tell(s)
      /\ \A s \in Ids, d \in Children :
            /\ Asked(s, d)' <=> Asked(s, d) \/ (s = r /\ d = c /\ o.answer # "throws")
            /\ Sent(s, d)' <=> Sent(s, d)
      /\ \A u \in threads' : AllIn(u.todo, Fitting(u.by, u.req, reqs, load))
    <2>1. CASE o.answer = "throws"
        <3>1. threads' = threads
            BY <1>1, <2>1
        <3> QED BY <1>2, <2>1, <3>1 DEF Tidy, AtMostOne, Tell, Asked, Sent, InThreads, Typed
    <2>2. CASE o.answer # "throws"
        <3>1. PICK x : x = Do(o.answer, r, c)
            OBVIOUS
        <3>2. PICK y : y = Do("unsat", r, c)
            OBVIOUS
        <3>3. x \in Item /\ y \in Item /\ x.op = o.answer /\ x.op \in Answers /\ x.req = r /\ x.cp = c
              /\ y.op = "unsat" /\ y.req = r
            BY <1>3, <2>2, <3>1, <3>2 DEF Do, Item, Ops, Answers
        <3>4. PICK out : out = ~InLoop(c, r)
            OBVIOUS
        <3>5. PICK A : A = <<x>> \o When(out, y)
            OBVIOUS
        <3>6. PICK n : n = [by |-> by, cp |-> c, req |-> r, todo |-> A]
            OBVIOUS
        <3>7. threads' = threads \cup {n} /\ n.todo = A /\ n.req = r
            BY <1>1, <2>2, <3>1, <3>2, <3>4, <3>5, <3>6
        <3>8. A = When(TRUE, x) \o When(out, y)
            BY <3>5 DEF When
        <3>9. ASSUME NEW P
              PROVE (HasIn(A, P) <=> x \in P \/ (out /\ y \in P)) /\ (y \notin P => OneIn(A, P))
            <4>1. PICK a : a = When(TRUE, x)
                OBVIOUS
            <4>2. PICK b : b = When(out, y)
                OBVIOUS
            <4>3. IsList(a) /\ OneIn(a, P) /\ (HasIn(a, P) <=> x \in P)
                BY <4>1, WhenIn
            <4>4. IsList(b) /\ OneIn(b, P) /\ (HasIn(b, P) <=> out /\ y \in P)
                BY <4>2, WhenIn
            <4>5. A = a \o b
                BY <3>8, <4>1, <4>2
            <4> QED BY <4>3, <4>4, <4>5, JoinIn
        <3>10. \A s, d : y \notin Telling(s) /\ y \notin Asking(s, d) /\ y \notin Sending(s, d)
                         /\ x \notin Telling(s) /\ x \notin Sending(s, d)
            BY <3>3 DEF Telling, Asking, Sending, AskOps, Answers
        <3>11. \A s, d : x \in Asking(s, d) <=> s = r /\ d = c
            BY <3>3 DEF Asking, AskOps
        <3>12. ASSUME NEW s \in Ids PROVE AtMostOne(Telling(s))' /\ (Tell(s)' <=> Tell(s))
            <4>1. PICK P : P = Telling(s)
                OBVIOUS
            <4>2. AtMostOne(P) /\ OneIn(n.todo, P) /\ ~HasIn(n.todo, P)
                BY <1>2, <3>7, <3>9, <3>10, <4>1, OnceEach
            <4>3. AtMostOne(P)' /\ (InThreads(P)' <=> HasIn(n.todo, P) \/ InThreads(P))
                BY <3>7, <4>2, Begins
            <4> QED BY <4>1, <4>2, <4>3 DEF Tell
        <3>13. ASSUME NEW s \in Ids, NEW d \in Children
               PROVE /\ AtMostOne(Asking(s, d))' /\ (Asked(s, d)' <=> Asked(s, d) \/ (s = r /\ d = c))
                     /\ (Sent(s, d)' <=> Sent(s, d))
            <4>1. PICK P : P = Asking(s, d)
                OBVIOUS
            <4>2. PICK Q : Q = Sending(s, d)
                OBVIOUS
            <4>3. /\ AtMostOne(P) /\ OneIn(n.todo, P) /\ (HasIn(n.todo, P) <=> s = r /\ d = c)
                  /\ HasIn(n.todo, P) => ~InThreads(P)
                BY <1>2, <1>4, <3>7, <3>9, <3>10, <3>11, <4>1, OnceEach DEF Asked
            <4>4. AtMostOne(P)' /\ (InThreads(P)' <=> HasIn(n.todo, P) \/ InThreads(P))
                BY <3>7, <4>3, Begins
            <4>5. AtMostOne(Q) /\ OneIn(n.todo, Q) /\ ~HasIn(n.todo, Q)
                BY <1>2, <3>7, <3>9, <3>10, <4>2, OnceEach
            <4>6. AtMostOne(Q)' /\ (InThreads(Q)' <=> HasIn(n.todo, Q) \/ InThreads(Q))
                BY <3>7, <4>5, Begins
            <4> QED BY <4>1, <4>2, <4>3, <4>4, <4>5, <4>6 DEF Asked, Sent
        <3>14. AllIn(n.todo, Fitting(n.by, n.req, reqs, load))
            <4>1. PICK F : F = Fitting(n.by, n.req, reqs, load)
                OBVIOUS
            <4>2. load.faulty = {} /\ x.op \in BadNews => reqs[r].kind # "start"
                BY <1>3, <1>5, <3>3 DEF BadNews, Refreshing, RefreshKinds
            <4>3. x \in F /\ y \in F
                BY <1>4, <3>3, <4>1, <4>2 DEF Fitting, AskOps, Answers, BadNews
            <4>4. AllIn(When(TRUE, x), F) /\ AllIn(When(out, y), F)
                BY <4>3, WhenAll
            <4>5. IsList(When(TRUE, x)) /\ IsList(When(out, y))
                BY WhenIn
            <4>6. AllIn(A, F)
                BY <3>8, <4>4, <4>5, JoinAll
            <4> QED BY <3>7, <4>1, <4>6
        <3>15. \A u \in threads' : AllIn(u.todo, Fitting(u.by, u.req, reqs, load))
            BY <1>2, <3>7, <3>14 DEF Typed
        <3> QED BY <2>2, <3>12, <3>13, <3>15 DEF Tidy
    <2> QED BY <2>1, <2>2
<1>7. Typed'
    <2>1. flight' \subseteq Ids \X Children /\ cycle' \in [Children -> BOOLEAN]
        BY <1>1, <1>2, <1>3 DEF Typed
    <2> QED BY <1>1, <1>2, <1>6, <2>1 DEF Typed
<1>8. Queues' /\ \A s, d : QueuedAt(s, d)' <=> QueuedAt(s, d)
    BY <1>1, <1>2 DEF Queues, QueuedAt
<1>9. Separate'
    <2> SUFFICES ASSUME NEW s \in Ids, NEW d \in Children
                 PROVE /\ Asked(s, d)' => ~QueuedAt(s, d) /\ <<s, d>> \notin flight'
                       /\ <<s, d>> \in flight' => ~QueuedAt(s, d)
        BY <1>8 DEF Separate
    <2>1. /\ Asked(s, d) => ~QueuedAt(s, d) /\ <<s, d>> \notin flight
          /\ <<s, d>> \in flight => ~QueuedAt(s, d)
        BY <1>2 DEF Separate
    <2> QED BY <1>1, <1>4, <1>6, <2>1
<1>10. \A s \in Ids, d \in Children :
           Waiting(s, d)' <=> Waiting(s, d) /\ ~(s = r /\ d = c /\ o.answer = "throws")
    BY <1>1, <1>4, <1>6, <1>8 DEF Waiting
<1>11. Enough'
    BY <1>1, <1>2, <1>7, <1>10, FewerWaits
<1>12. ASSUME NoThrow, OutstandingExact PROVE OutstandingExact'
    <2>1. o.answer # "throws"
        <3> SUFFICES ASSUME o.answer = "throws" PROVE FALSE
            OBVIOUS
        <3>1. reqs[r].kind \in load.kinds
            BY <1>2, <1>3 DEF Typed, RequestFits
        <3>2. load.faulty = {}
            BY <1>2, <1>3, <1>12, <3>1 DEF NoThrow, Inv, Shapes
        <3>3. Refreshing(r)
            BY <1>3, <3>2 DEF Refreshing, RefreshKinds
        <3> QED BY <1>3, <1>5, <3>2, <3>3
    <2>2. \A s \in Ids, d \in Children : Waiting(s, d)' <=> Waiting(s, d)
        BY <1>10, <2>1
    <2> QED BY <1>1, <1>2, <1>7, <1>12, <2>2, SameWaits
<1>13. Told'
    BY <1>1, <1>2, <1>6, SameTold
<1>14. /\ \A d \in Children : SentTo(d)' = SentTo(d)
       /\ \A d \in Children \ {c} : Flying(d)' = Flying(d)
       /\ load.faulty = {} => OneStart' /\ (Target' <=> Target)
    <2>1. \A s \in Ids : Started(s)' <=> Started(s)
        BY <1>1 DEF Started
    <2> QED BY <1>1, <1>2, <1>6, <2>1, SameStarts DEF Flying, SentTo, Refreshing
<1>15. Cycles'
    <2>1. CASE Refreshing(r)
        <3>1. Flying(c) = {r}
            BY <1>1, <1>2, <2>1 DEF Cycles, OneFlight, Flying
        <3>2. Flying(c)' = {}
            BY <1>1, <3>1 DEF Flying, Refreshing
        <3>3. OneFlight' /\ OneSend'
            BY <1>2, <1>14, <3>2 DEF Cycles, OneFlight, OneSend
        <3>4. ASSUME load.faulty = {}, NEW d \in Children PROVE ChainAt(d)'
            <4>1. ChainAt(d) /\ (Target' <=> Target)
                BY <1>2, <1>14, <3>4 DEF Cycles, Chains
            <4>2. CASE d = c
                <5>1. Num(o.cycle) = Gives(reqs[r].kind)
                    BY <1>3, <1>5, <2>1, <3>4
                <5>2. cycle'[c] = o.cycle
                    BY <1>1, <1>2 DEF Typed
                <5>3. PICK g : g = Num(Target)
                    OBVIOUS
                <5>4. Num(Target') = g
                    BY <4>1, <5>3 DEF Num
                <5>5. ChainOK(Gives(reqs[r].kind), {}, queue[c]["ref"], SentTo(c), reqs, g)
                    BY <1>5, <2>1, <3>4, <5>3
                <5>6. PICK cy : cy = Gives(reqs[r].kind)
                    OBVIOUS
                <5>7. Num(cycle'[c]) = cy
                    BY <5>1, <5>2, <5>6, Zenon
                <5> QED BY <1>1, <1>14, <3>2, <4>2, <5>4, <5>5, <5>6, <5>7 DEF ChainAt
            <4>3. CASE d # c
                <5>1. cycle'[d] = cycle[d] /\ Flying(d)' = Flying(d)
                    BY <1>1, <1>2, <1>14, <4>3 DEF Typed
                <5> QED BY <1>1, <1>2, <1>14, <4>1, <5>1, SameChain
            <4> QED BY <4>2, <4>3
        <3> QED BY <1>14, <3>3, <3>4 DEF Cycles, Chains
    <2>2. CASE ~Refreshing(r)
        <3>1. \A d \in Children : Flying(d)' = Flying(d)
            BY <1>1, <1>14, <2>2 DEF Flying, Refreshing
        <3>2. cycle' = cycle
            BY <1>1, <1>2, <1>3, <2>2 DEF Typed
        <3> QED BY <1>1, <1>2, <1>14, <3>1, <3>2, SameCycles
    <2> QED BY <2>1, <2>2
<1> QED BY <1>6, <1>7, <1>8, <1>9, <1>11, <1>12, <1>13, <1>15 DEF Answering, Ways

-----------------------------------------------------------------------------
(* A child's answer *)

\* The list A of what is to be done after the answer i: things of the sorts U for the
\* same request, telling the client once if tells.
Follows(A, i, tells, U) ==
    /\ IsList(A) /\ AllIn(A, {x \in Item : x.op \in U /\ x.req = i.req})
    /\ \A s \in Ids : OneIn(A, Telling(s)) /\ (HasIn(A, Telling(s)) <=> tells /\ s = i.req)

\* One of the two tells the client, or none.
LEMMA JoinFollows ==
    ASSUME NEW a, NEW b, NEW i, NEW v, NEW w, NEW U, Follows(a, i, v, U), Follows(b, i, w, U), ~(v /\ w)
    PROVE Follows(a \o b, i, v \/ w, U)
<1>1. IsList(a) /\ IsList(b)
    BY DEF Follows
<1>2. IsList(a \o b)
    BY <1>1, JoinList
<1>3. PICK X : X = {x \in Item : x.op \in U /\ x.req = i.req}
    OBVIOUS
<1>4. AllIn(a, X) /\ AllIn(b, X)
    BY <1>3 DEF Follows
<1>5. AllIn(a \o b, X)
    BY <1>1, <1>4, JoinAll
<1>6. ASSUME NEW s \in Ids
      PROVE OneIn(a \o b, Telling(s)) /\ (HasIn(a \o b, Telling(s)) <=> (v \/ w) /\ s = i.req)
    <2>1. PICK P : P = Telling(s)
        OBVIOUS
    <2>2. /\ OneIn(a, P) /\ (HasIn(a, P) <=> v /\ s = i.req)
          /\ OneIn(b, P) /\ (HasIn(b, P) <=> w /\ s = i.req)
        BY <2>1 DEF Follows
    <2>3. ~(HasIn(a, P) /\ HasIn(b, P))
        BY <2>2
    <2>4. /\ HasIn(a \o b, P) <=> HasIn(a, P) \/ HasIn(b, P)
          /\ OneIn(a \o b, P)
        BY <1>1, <2>2, <2>3, JoinIn
    <2> QED BY <2>1, <2>2, <2>4
<1> QED BY <1>2, <1>3, <1>5, <1>6 DEF Follows

\* A list of at most one thing.
LEMMA WhenFollows ==
    ASSUME NEW i \in Item, NEW U \in SUBSET Ops, NEW op \in U, NEW cond
    PROVE Follows(When(cond, Do(op, i.req, i.cp)), i, op \in {"upgood", "upbad"} /\ cond, U)
<1>1. PICK x : x = Do(op, i.req, i.cp)
    OBVIOUS
<1>2. x \in Item /\ x.op = op /\ x.req = i.req
    BY <1>1 DEF Do, Item
<1>3. PICK X : X = {y \in Item : y.op \in U /\ y.req = i.req}
    OBVIOUS
<1>4. x \in X
    BY <1>2, <1>3
<1>5. IsList(When(cond, x)) /\ AllIn(When(cond, x), X)
    BY <1>4, WhenAll, WhenIn
<1>6. ASSUME NEW s \in Ids
      PROVE /\ OneIn(When(cond, x), Telling(s))
            /\ HasIn(When(cond, x), Telling(s)) <=> (op \in {"upgood", "upbad"} /\ cond) /\ s = i.req
    <2>1. PICK P : P = Telling(s)
        OBVIOUS
    <2>2. x \in P <=> op \in {"upgood", "upbad"} /\ s = i.req
        BY <1>2, <2>1 DEF Telling
    <2>3. OneIn(When(cond, x), P) /\ (HasIn(When(cond, x), P) <=> cond /\ x \in P)
        BY WhenIn
    <2> QED BY <2>1, <2>2, <2>3
<1> QED BY <1>1, <1>3, <1>5, <1>6 DEF Follows

\* The same list, said otherwise.
LEMMA SameFollows ==
    ASSUME NEW A, NEW i, NEW v, NEW w, NEW U, Follows(A, i, v, U), v <=> w
    PROVE Follows(A, i, w, U)
BY DEF Follows

\* Whether the client is told after a good answer and after an error.
TellsGood(q) == q.m_cmpl /\ IF q.kind \in {"start", "follow"} THEN LastBack(q) ELSE FirstBack(q)
TellsError(q) == q.m_cmpl /\ LastBack(q) /\ (q.kind # "follow" => ~q.m_succeeded)

GoodOps == {"upgood", "cancel", "fill", "done"}
ErrorOps == {"upgood", "upbad", "need", "done"}

\* What follows a good answer.
LEMMA GoodFollows ==
    ASSUME NEW i \in Item, reqs[i.req].kind \in AllKinds
    PROVE Follows(AfterGood(i), i, TellsGood(reqs[i.req]), GoodOps)
<1> DEFINE q == reqs[i.req]
           U == GoodOps
           tells == FirstTells(i)
           last == LastTells(i)
           cancel == When(q.m_cmpl /\ FirstBack(q), Do("cancel", i.req, i.cp))
           fill == When(q.m_needy # {} /\ FirstBack(q), Do("fill", i.req, i.cp))
           end == LastIsDone(i)
<1>1. U \in SUBSET Ops /\ "upgood" \in U /\ "cancel" \in U /\ "fill" \in U /\ "done" \in U
    BY DEF GoodOps, Ops
<1>2. Follows(tells, i, "upgood" \in {"upgood", "upbad"} /\ (q.m_cmpl /\ FirstBack(q)), U)
    BY <1>1, WhenFollows DEF FirstTells
<1>3. Follows(last, i, "upgood" \in {"upgood", "upbad"} /\ (q.m_cmpl /\ LastBack(q)), U)
    BY <1>1, WhenFollows DEF LastTells
<1>4. Follows(cancel, i, "cancel" \in {"upgood", "upbad"} /\ (q.m_cmpl /\ FirstBack(q)), U)
    BY <1>1, WhenFollows
<1>5. Follows(fill, i, "fill" \in {"upgood", "upbad"} /\ (q.m_needy # {} /\ FirstBack(q)), U)
    BY <1>1, WhenFollows
<1>6. Follows(end, i, "done" \in {"upgood", "upbad"} /\ LastBack(q), U)
    BY <1>1, WhenFollows DEF LastIsDone
<1>7. PICK first \in BOOLEAN : first <=> q.m_cmpl /\ FirstBack(q)
    OBVIOUS
<1>8. PICK final \in BOOLEAN : final <=> q.m_cmpl /\ LastBack(q)
    OBVIOUS
<1>9. /\ Follows(tells, i, first, U) /\ Follows(last, i, final, U)
      /\ Follows(cancel, i, FALSE, U) /\ Follows(fill, i, FALSE, U) /\ Follows(end, i, FALSE, U)
    BY <1>2, <1>3, <1>4, <1>5, <1>6, <1>7, <1>8, SameFollows
<1> HIDE DEF U, tells, last, cancel, fill, end
<1>10. Follows(tells \o end, i, first, U) /\ Follows(last \o end, i, final, U)
    BY <1>9, JoinFollows, SameFollows
<1>11. Follows(tells \o cancel, i, first, U)
    BY <1>9, JoinFollows, SameFollows
<1>12. Follows((tells \o cancel) \o fill, i, first, U)
    BY <1>9, <1>11, JoinFollows, SameFollows
<1>13. Follows(((tells \o cancel) \o fill) \o end, i, first, U)
    BY <1>9, <1>12, JoinFollows, SameFollows
<1>14. CASE q.kind = "get"
    <2>1. AfterGood(i) = ((tells \o cancel) \o fill) \o end
        BY <1>14 DEF AfterGood, bg_complete, tells, cancel, fill, end
    <2>2. TellsGood(q) <=> first
        BY <1>7, <1>14 DEF TellsGood
    <2> QED BY <1>13, <2>1, <2>2, SameFollows DEF U
<1>15. CASE q.kind \in {"put", "block", "finish", "head"}
    <2>1. AfterGood(i) = tells \o end
        BY <1>15 DEF AfterGood, bp_complete, rb_complete, rf_complete, hei_complete, tells, end
    <2>2. TellsGood(q) <=> first
        BY <1>7, <1>15 DEF TellsGood
    <2> QED BY <1>10, <2>1, <2>2, SameFollows DEF U
<1>16. CASE q.kind \in {"start", "follow"}
    <2>1. AfterGood(i) = last \o end
        BY <1>16 DEF AfterGood, rs_complete, het_complete, last, end
    <2>2. TellsGood(q) <=> final
        BY <1>8, <1>16 DEF TellsGood
    <2> QED BY <1>10, <2>1, <2>2, SameFollows DEF U
<1> QED BY <1>14, <1>15, <1>16 DEF AllKinds, RefreshKinds

\* What follows an error.
LEMMA ErrorFollows ==
    ASSUME NEW i \in Item, reqs[i.req].kind \in AllKinds
    PROVE Follows(AfterError(i), i, TellsError(reqs[i.req]), ErrorOps)
<1> DEFINE q == reqs[i.req]
           U == ErrorOps
           error == LastTellsError(i)
           last == LastTells(i)
           lacks == When(i.op = "notfound", Do("need", i.req, i.cp))
           need == <<Do("need", i.req, i.cp)>>
           late == IF q.m_succeeded THEN last ELSE <<>>
           end == LastIsDone(i)
<1>1. U \in SUBSET Ops /\ "upgood" \in U /\ "upbad" \in U /\ "need" \in U /\ "done" \in U
    BY DEF ErrorOps, Ops
<1>2. PICK bad \in BOOLEAN : bad <=> q.m_cmpl /\ LastBack(q) /\ ~q.m_succeeded
    OBVIOUS
<1>3. PICK good \in BOOLEAN : good <=> q.m_cmpl /\ LastBack(q) /\ q.m_succeeded
    OBVIOUS
<1>4. Follows(error, i, bad, U)
    <2>1. Follows(error, i, "upbad" \in {"upgood", "upbad"}
                            /\ (q.m_cmpl /\ LastBack(q) /\ ~q.m_succeeded), U)
        BY <1>1, WhenFollows DEF LastTellsError
    <2> QED BY <1>2, <2>1, SameFollows
<1>5. Follows(lacks, i, FALSE, U)
    <2>1. Follows(lacks, i, "need" \in {"upgood", "upbad"} /\ i.op = "notfound", U)
        BY <1>1, WhenFollows
    <2> QED BY <2>1, SameFollows
<1>6. Follows(need, i, FALSE, U)
    <2>1. Follows(When(TRUE, Do("need", i.req, i.cp)), i, "need" \in {"upgood", "upbad"} /\ TRUE, U)
        BY <1>1, WhenFollows
    <2> QED BY <2>1, SameFollows DEF When
<1>7. Follows(end, i, FALSE, U)
    <2>1. Follows(end, i, "done" \in {"upgood", "upbad"} /\ LastBack(q), U)
        BY <1>1, WhenFollows DEF LastIsDone
    <2> QED BY <2>1, SameFollows
<1>8. Follows(late, i, good, U)
    <2>1. CASE q.m_succeeded
        <3>1. Follows(last, i, "upgood" \in {"upgood", "upbad"} /\ (q.m_cmpl /\ LastBack(q)), U)
            BY <1>1, WhenFollows DEF LastTells
        <3> QED BY <1>3, <2>1, <3>1, SameFollows
    <2>2. CASE ~q.m_succeeded
        <3>1. Follows(When(FALSE, Do("need", i.req, i.cp)), i, "need" \in {"upgood", "upbad"} /\ FALSE, U)
            BY <1>1, WhenFollows
        <3>2. late = When(FALSE, Do("need", i.req, i.cp))
            BY <2>2 DEF When
        <3> QED BY <1>3, <2>2, <3>1, <3>2, SameFollows
    <2> QED BY <2>1, <2>2
<1> HIDE DEF U, error, last, lacks, need, late, end
<1>9. Follows(error \o end, i, bad, U)
    BY <1>4, <1>7, JoinFollows, SameFollows
<1>10. Follows((error \o lacks) \o end, i, bad, U)
    <2>1. Follows(error \o lacks, i, bad, U)
        BY <1>4, <1>5, JoinFollows, SameFollows
    <2> QED BY <1>7, <2>1, JoinFollows, SameFollows
<1>11. Follows((error \o need) \o end, i, bad, U)
    <2>1. Follows(error \o need, i, bad, U)
        BY <1>4, <1>6, JoinFollows, SameFollows
    <2> QED BY <1>7, <2>1, JoinFollows, SameFollows
<1>12. Follows((error \o late) \o end, i, bad \/ good, U)
    <2>1. Follows(error \o late, i, bad \/ good, U)
        BY <1>2, <1>3, <1>4, <1>8, JoinFollows
    <2> QED BY <1>7, <2>1, JoinFollows, SameFollows
<1>13. CASE q.kind = "follow"
    <2>1. AfterError(i) = (error \o late) \o end
        BY <1>13 DEF AfterError, het_error, error, late, last, end
    <2>2. TellsError(q) <=> bad \/ good
        BY <1>2, <1>3, <1>13 DEF TellsError
    <2> QED BY <1>12, <2>1, <2>2, SameFollows DEF U
<1>14. CASE q.kind # "follow"
    <2>1. \/ AfterError(i) = (error \o lacks) \o end \/ AfterError(i) = (error \o need) \o end
          \/ AfterError(i) = error \o end
        BY <1>14 DEF AfterError, bg_error, bp_error, rs_error, rb_missing, rf_error, hei_error,
                     AllKinds, RefreshKinds, error, lacks, need, end
    <2>2. TellsError(q) <=> bad
        BY <1>2, <1>14 DEF TellsError
    <2> QED BY <1>9, <1>10, <1>11, <2>1, <2>2, SameFollows DEF U
<1> QED BY <1>13, <1>14

\* A request in which a child has answered.
LEMMA AnsweredRequest ==
    ASSUME Inv, NEW t \in threads, Complete(t) \/ Fail(t), NEW r \in Ids, r = Head(t.todo).req
    PROVE /\ \E ok : /\ reqs'[r] = [kind |-> reqs[r].kind, key |-> reqs[r].key,
                                    m_outstanding |-> reqs[r].m_outstanding - 1, m_succeeded |-> ok,
                                    m_cmpl |-> reqs[r].m_cmpl, m_needy |-> reqs[r].m_needy,
                                    upcalls |-> reqs[r].upcalls]
                     /\ Complete(t) => ok = TRUE
                     /\ Fail(t) => ok = reqs[r].m_succeeded
          /\ \A s \in Ids \ {r} : reqs'[s] = reqs[s]
<1>1. PICK q : q = reqs[r]
    OBVIOUS
<1>2. RequestOK(q) /\ DOMAIN reqs = Ids
    BY <1>1 DEF Inv, Shapes
<1>3. /\ Complete(t) => reqs'[r] = [q EXCEPT !.m_succeeded = TRUE, !.m_outstanding = @ - 1]
      /\ Fail(t) => reqs'[r] = [q EXCEPT !.m_outstanding = @ - 1]
    BY <1>1, <1>2 DEF Complete, Fail, RequestOK
<1>4. ~(Complete(t) /\ Fail(t))
    BY DEF Complete, Fail
<1>5. /\ Complete(t) => reqs'[r] =
              [kind |-> q.kind, key |-> q.key, m_outstanding |-> q.m_outstanding - 1,
               m_succeeded |-> TRUE, m_cmpl |-> q.m_cmpl, m_needy |-> q.m_needy, upcalls |-> q.upcalls]
      /\ Fail(t) => reqs'[r] =
              [kind |-> q.kind, key |-> q.key, m_outstanding |-> q.m_outstanding - 1,
               m_succeeded |-> q.m_succeeded, m_cmpl |-> q.m_cmpl, m_needy |-> q.m_needy,
               upcalls |-> q.upcalls]
    BY <1>2, <1>3 DEF RequestOK
<1>6. \A s \in Ids \ {r} : reqs'[s] = reqs[s]
    BY <1>2 DEF Complete, Fail
<1> QED BY <1>1, <1>4, <1>5, <1>6

\* A child answers: one is waited for less, and the client is told if it was the one
\* whose answer counts.
LEMMA AnswerAnswers ==
    ASSUME Answering, Inv', NEW t \in threads, Complete(t) \/ Fail(t), UNCHANGED load
    PROVE Answering' /\ (OutstandingExact => OutstandingExact')
<1>1. PICK i : i = Head(t.todo)
    OBVIOUS
<1>2. PICK r : r = i.req
    OBVIOUS
<1>3. PICK c : c = i.cp
    OBVIOUS
<1>4. Inv /\ Typed /\ Tidy /\ Queues /\ Separate /\ Enough /\ Told /\ Cycles
    BY DEF Answering, Ways
<1>5. /\ i \in Fitting(t.by, t.req, reqs, load) /\ i \in Item /\ r \in Ids /\ c \in Children
      /\ \A P : i \in P => InThreads(P)
    BY <1>1, <1>2, <1>3, <1>4, FirstFits
<1>6. i.op \in Answers /\ (Complete(t) => i.op = "good") /\ (Fail(t) => i.op \in Answers \ {"good"})
    BY <1>1 DEF Complete, Fail, Answers
<1>7. reqs[r].kind \in AllKinds
    BY <1>2, <1>5, <1>6 DEF Fitting, AskOps
<1>8. PICK a : a = reqs[r]
    OBVIOUS
<1>9. RequestOK(a) /\ RequestFits(a, load) /\ a.m_outstanding \in Int
    BY <1>4, <1>5, <1>8 DEF Inv, Shapes, Typed, RequestOK
<1>10. PICK ok : /\ reqs'[r] = [kind |-> a.kind, key |-> a.key, m_outstanding |-> a.m_outstanding - 1,
                                m_succeeded |-> ok, m_cmpl |-> a.m_cmpl, m_needy |-> a.m_needy,
                                upcalls |-> a.upcalls]
                 /\ Complete(t) => ok = TRUE
                 /\ Fail(t) => ok = a.m_succeeded
    <2>1. r = Head(t.todo).req /\ Inv /\ r \in Ids
        BY <1>1, <1>2, <1>4, <1>5
    <2>2. \E ok : /\ reqs'[r] = [kind |-> reqs[r].kind, key |-> reqs[r].key,
                                 m_outstanding |-> reqs[r].m_outstanding - 1, m_succeeded |-> ok,
                                 m_cmpl |-> reqs[r].m_cmpl, m_needy |-> reqs[r].m_needy,
                                 upcalls |-> reqs[r].upcalls]
                  /\ Complete(t) => ok = TRUE
                  /\ Fail(t) => ok = reqs[r].m_succeeded
        BY <2>1, AnsweredRequest
    <2> QED BY <1>8, <2>2
<1>11. PICK b : b = reqs'[r]
    OBVIOUS
<1>12. /\ b.kind = a.kind /\ b.m_outstanding = a.m_outstanding - 1 /\ b.m_succeeded = ok
       /\ b.m_cmpl = a.m_cmpl /\ b.m_needy = a.m_needy /\ b.upcalls = a.upcalls
       /\ \A s \in Ids \ {r} : reqs'[s] = reqs[s]
    <2>1. \A s \in Ids \ {r} : reqs'[s] = reqs[s]
        BY <1>1, <1>2, <1>4, <1>5, AnsweredRequest
    <2> QED BY <1>10, <1>11, <2>1
<1>13. UNCHANGED <<queue, flight, cycle, begun>>
    BY DEF Complete, Fail, kids, stores
<1>14. \A s \in Ids : /\ reqs'[s].kind = reqs[s].kind /\ reqs'[s].upcalls = reqs[s].upcalls
                      /\ reqs'[s].m_needy = reqs[s].m_needy /\ reqs'[s].m_cmpl = reqs[s].m_cmpl
    BY <1>8, <1>11, <1>12
<1>15. Asked(r, c)
    <2>1. i \in Asking(r, c)
        BY <1>2, <1>3, <1>5, <1>6 DEF Asking, AskOps
    <2> QED BY <1>5, <2>1 DEF Asked
<1>16. a.m_needy = {} => a.m_outstanding >= 1
    <2> SUFFICES ASSUME a.m_needy = {} PROVE a.m_outstanding >= 1
        OBVIOUS
    <2>1. PICK S \in SUBSET Children : S = Awaited(r)
        BY DEF Awaited
    <2>2. c \in S
        BY <1>4, <1>5, <1>15, <2>1, AwaitedIs DEF Waiting
    <2>3. IsFiniteSet(S) /\ Cardinality(S) \in Nat /\ Cardinality(S) # 0
        BY <2>2, SomeChildren, FS_EmptySet
    <2>4. Cardinality(S) <= a.m_outstanding
        BY <1>4, <1>5, <1>8, <2>1 DEF Enough
    <2> QED BY <1>9, <2>3, <2>4
<1>17. a.m_cmpl => a.m_outstanding >= 1
    BY <1>9, <1>16 DEF RequestFits
<1> DEFINE tells == IF Complete(t) THEN TellsGood(a) ELSE TellsError(a)
<1>18. PICK A, U :
          /\ Follows(A, i, tells, U) /\ Continue(t, A \o Tail(t.todo))
          /\ \/ Complete(t) /\ U = GoodOps /\ (tells <=> TellsGood(a))
             \/ Fail(t) /\ U = ErrorOps /\ (tells <=> TellsError(a))
    <2>1. CASE Complete(t)
        <3>1. Follows(AfterGood(i), i, TellsGood(a), GoodOps)
            BY <1>2, <1>5, <1>7, <1>8, GoodFollows
        <3>2. Follows(AfterGood(i), i, tells, GoodOps)
            BY <2>1, <3>1, SameFollows
        <3>3. Continue(t, AfterGood(i) \o Tail(t.todo))
            BY <1>1, <2>1 DEF Complete
        <3> QED BY <2>1, <3>2, <3>3
    <2>2. CASE Fail(t) /\ ~Complete(t)
        <3>1. Follows(AfterError(i), i, TellsError(a), ErrorOps)
            BY <1>2, <1>5, <1>7, <1>8, ErrorFollows
        <3>2. Follows(AfterError(i), i, tells, ErrorOps)
            BY <2>2, <3>1, SameFollows
        <3>3. Continue(t, AfterError(i) \o Tail(t.todo))
            BY <1>1, <2>2 DEF Fail
        <3> QED BY <2>2, <3>2, <3>3
    <2> QED BY <2>1, <2>2
<1> HIDE DEF tells
<1>19. tells => a.m_cmpl /\ ~ToldOf(a) /\ ToldOf(b)
    <2>1. a.m_succeeded \in BOOLEAN
        BY <1>9 DEF RequestFits
    <2>2. CASE Complete(t)
        <3>1. ok = TRUE /\ (tells <=> TellsGood(a))
            BY <1>6, <1>10, <1>18, <2>2
        <3> QED BY <1>9, <1>12, <1>17, <2>1, <3>1 DEF TellsGood, LastBack, FirstBack, ToldOf
    <2>3. CASE Fail(t)
        <3>1. ok = a.m_succeeded /\ (tells <=> TellsError(a))
            BY <1>6, <1>10, <1>18, <2>3
        <3> QED BY <1>9, <1>12, <1>17, <2>1, <3>1 DEF TellsError, LastBack, ToldOf
    <2> QED BY <2>2, <2>3
<1>20. /\ Tell(r) \/ a.upcalls # <<>> => a.m_cmpl /\ ToldOf(a)
       /\ Len(a.upcalls) <= 1 /\ (Tell(r) => a.upcalls = <<>>)
       /\ (a.kind = "start" => load.faulty = {}) /\ a.m_cmpl /\ ToldOf(a)
             => Tell(r) \/ a.upcalls # <<>>
    BY <1>4, <1>5, <1>8 DEF Told, ToldFits
<1>21. IsList(A) /\ AllIn(A, {x \in Item : x.op \in U /\ x.req = r})
       /\ \A s \in Ids : OneIn(A, Telling(s)) /\ (HasIn(A, Telling(s)) <=> tells /\ s = r)
    BY <1>2, <1>18 DEF Follows
<1>22. ASSUME NEW s \in Ids
       PROVE AtMostOne(Telling(s))' /\ (Tell(s)' <=> Tell(s) \/ (tells /\ s = r))
    <2>1. PICK P : P = Telling(s)
        OBVIOUS
    <2>2. AtMostOne(P) /\ OneIn(A, P) /\ (HasIn(A, P) <=> tells /\ s = r)
        BY <1>4, <1>21, <2>1, OnceEach
    <2>3. HasIn(A, P) => ~InThreads(P)
        BY <1>19, <1>20, <2>1, <2>2 DEF Tell
    <2>4. Head(t.todo) \notin P
        BY <1>1, <1>6, <2>1 DEF Telling, Answers
    <2>5. AtMostOne(P)' /\ (InThreads(P)' <=> HasIn(A, P) \/ (InThreads(P) /\ Head(t.todo) \notin P))
        BY <1>4, <1>18, <1>21, <2>2, <2>3, GoesOn
    <2> QED BY <2>1, <2>2, <2>4, <2>5 DEF Tell
<1>23. ASSUME NEW s \in Ids, NEW d \in Children
       PROVE /\ AtMostOne(Asking(s, d))' /\ (Asked(s, d)' <=> Asked(s, d) /\ ~(s = r /\ d = c))
             /\ Sent(s, d)' <=> Sent(s, d)
    <2>1. PICK P : P = Asking(s, d)
        OBVIOUS
    <2>2. PICK Q : Q = Sending(s, d)
        OBVIOUS
    <2>3. PICK X : X = {x \in Item : x.op \in U /\ x.req = r}
        OBVIOUS
    <2>4. \A x \in X : x \notin P /\ x \notin Q
        BY <1>18, <2>1, <2>2, <2>3 DEF Asking, Sending, AskOps, Answers, GoodOps, ErrorOps
    <2>5. OneIn(A, P) /\ ~HasIn(A, P) /\ OneIn(A, Q) /\ ~HasIn(A, Q)
        BY <1>21, <2>3, <2>4, NoneIn
    <2>6. AtMostOne(P) /\ AtMostOne(Q)
        BY <1>4, <2>1, <2>2, OnceEach
    <2>7. AtMostOne(P)' /\ (InThreads(P)' <=> HasIn(A, P) \/ (InThreads(P) /\ Head(t.todo) \notin P))
        BY <1>4, <1>18, <1>21, <2>5, <2>6, GoesOn
    <2>8. AtMostOne(Q)' /\ (InThreads(Q)' <=> HasIn(A, Q) \/ (InThreads(Q) /\ Head(t.todo) \notin Q))
        BY <1>4, <1>18, <1>21, <2>5, <2>6, GoesOn
    <2>9. (i \in P <=> s = r /\ d = c) /\ i \notin Q
        BY <1>2, <1>3, <1>5, <1>6, <2>1, <2>2 DEF Asking, Sending, AskOps, Answers
    <2> QED BY <1>1, <2>1, <2>2, <2>5, <2>7, <2>8, <2>9 DEF Asked, Sent
<1>24. Tidy'
    BY <1>22, <1>23 DEF Tidy
<1>25. Typed'
    <2>1. ASSUME NEW s \in Ids PROVE RequestFits(reqs'[s], load')
        <3>1. ok \in BOOLEAN
            BY <1>9, <1>10 DEF RequestFits
        <3>2. RequestFits(b, load)
            BY <1>9, <1>12, <3>1 DEF RequestFits
        <3> QED BY <1>4, <1>11, <1>12, <3>2 DEF Typed
    <2>2. \A u \in threads' : AllIn(u.todo, Fitting(u.by, u.req, reqs', load'))
        <3>1. PICK q : q = reqs'
            OBVIOUS
        <3>2. PICK l : l = load
            OBVIOUS
        <3>3. \A u \in threads : AllIn(u.todo, Fitting(u.by, u.req, q, l))
            BY <1>4, <1>14, <3>1, <3>2, KindsFit
        <3>4. PICK F : F = Fitting(t.by, t.req, q, l)
            OBVIOUS
        <3>5. {x \in Item : x.op \in U /\ x.req = r} \subseteq F
            <4>1. Fail(t) /\ load.faulty = {} => reqs[r].kind # "start"
                BY <1>2, <1>5, <1>6 DEF Fitting, BadNews, Answers
            <4>2. q[r].kind = reqs[r].kind
                BY <1>5, <1>14, <3>1
            <4>3. \A x \in Item : (x.op \in GoodOps \/ (Fail(t) /\ x.op \in ErrorOps)) /\ x.req = r =>
                      /\ x.op \notin AskOps
                      /\ l.faulty = {} /\ x.op \in BadNews => q[x.req].kind # "start"
                BY <3>2, <4>1, <4>2 DEF GoodOps, ErrorOps, AskOps, Answers, BadNews
            <4>4. \A x \in Item : x.op = "send" => x.op \in AskOps
                BY DEF AskOps
            <4> QED BY <1>18, <3>4, <4>3, <4>4 DEF Fitting
        <3>6. AllIn(A, F)
            BY <1>21, <3>5 DEF AllIn
        <3>7. \A u \in threads' : AllIn(u.todo, Fitting(u.by, u.req, q, l))
            BY <1>4, <1>18, <1>21, <3>3, <3>4, <3>6, GoesOnFit
        <3> QED BY <3>1, <3>2, <3>7
    <2> QED BY <1>4, <1>13, <1>14, <2>1, <2>2 DEF Typed
<1>26. \A s, d : QueuedAt(s, d)' <=> QueuedAt(s, d)
    BY <1>13 DEF QueuedAt
<1>27. Queues'
    <2>1. ASSUME NEW d \in Children, NEW cl \in Classes PROVE QueueOK(queue[d][cl], cl, reqs')
        <3>1. Elements(queue[d][cl]) \subseteq Ids
            BY <1>4 DEF Typed, Elements
        <3>2. \A s \in Elements(queue[d][cl]) : reqs'[s].kind = reqs[s].kind
            BY <1>14, <3>1
        <3>3. QueueOK(queue[d][cl], cl, reqs)
            BY <1>4 DEF Queues
        <3> QED BY <3>2, <3>3, QueueSame
    <2> QED BY <1>13, <2>1 DEF Queues
<1>28. Separate'
    BY <1>4, <1>13, <1>23, <1>26 DEF Separate
<1>29. \A s \in Ids, d \in Children : Waiting(s, d)' <=> Waiting(s, d) /\ ~(s = r /\ d = c)
    <2>1. ~QueuedAt(r, c) /\ <<r, c>> \notin flight
        BY <1>4, <1>5, <1>15 DEF Separate
    <2> QED BY <1>13, <1>23, <1>26, <2>1 DEF Waiting
<1>30. ASSUME NEW s \in Ids
       PROVE /\ Cardinality(Awaited(s)) \in Nat
             /\ Cardinality(Awaited(s)') = Cardinality(Awaited(s)) - (IF s = r THEN 1 ELSE 0)
             /\ reqs'[s].m_outstanding = reqs[s].m_outstanding - (IF s = r THEN 1 ELSE 0)
             /\ reqs[s].m_outstanding \in Int
    <2>1. PICK S \in SUBSET Children : S = Awaited(s)
        BY DEF Awaited
    <2>2. S = {d \in Children : Waiting(s, d)} /\ Awaited(s)' = {d \in Children : Waiting(s, d)'}
        BY <1>4, <1>25, <2>1, AwaitedIs, AwaitedNext
    <2>3. IsFiniteSet(S) /\ Cardinality(S) \in Nat
        BY SomeChildren
    <2>4. reqs[s].m_outstanding \in Int
        BY <1>4 DEF Inv, Shapes, RequestOK
    <2>5. CASE s = r
        <3>1. c \in S
            BY <1>5, <1>15, <2>2, <2>5 DEF Waiting
        <3>2. Awaited(s)' = S \ {c}
            BY <1>29, <2>2, <2>5
        <3>3. Cardinality(S \ {c}) = Cardinality(S) - 1
            BY <2>3, <3>1, FS_RemoveElement
        <3> QED BY <1>8, <1>11, <1>12, <2>1, <2>3, <2>4, <2>5, <3>2, <3>3
    <2>6. CASE s # r
        <3>1. Awaited(s)' = S
            BY <1>29, <2>2, <2>6
        <3> QED BY <1>12, <2>1, <2>3, <2>4, <2>6, <3>1
    <2> QED BY <2>5, <2>6
<1>31. Enough' /\ (OutstandingExact => OutstandingExact')
    <2>1. ASSUME NEW s \in Ids, reqs'[s].m_needy = {}
          PROVE Cardinality(Awaited(s)') <= reqs'[s].m_outstanding
        <3>1. Cardinality(Awaited(s)) <= reqs[s].m_outstanding
            BY <1>4, <1>14, <2>1 DEF Enough
        <3> QED BY <1>30, <3>1
    <2>2. ASSUME OutstandingExact, NEW s \in Ids, reqs'[s].m_needy = {}
          PROVE reqs'[s].m_outstanding = Cardinality(Awaited(s)')
        <3>1. reqs[s].m_outstanding = Cardinality(Awaited(s))
            BY <1>14, <2>2 DEF OutstandingExact
        <3> QED BY <1>30, <3>1
    <2> QED BY <2>1, <2>2 DEF Enough, OutstandingExact
<1>32. Told'
    <2> SUFFICES ASSUME NEW s \in Ids
                 PROVE /\ ToldFits(reqs'[s], Tell(s)')
                       /\ /\ reqs'[s].kind = "start" => load'.faulty = {}
                          /\ reqs'[s].m_cmpl /\ ToldOf(reqs'[s])
                          => Tell(s)' \/ reqs'[s].upcalls # <<>>
        BY DEF Told, ToldFits, ToldOf
    <2>1. CASE s # r
        <3>1. reqs'[s] = reqs[s] /\ (Tell(s)' <=> Tell(s))
            BY <1>12, <1>22, <2>1
        <3> QED BY <1>4, <3>1 DEF Told, ToldFits
    <2>2. CASE s = r
        <3>1. Tell(s)' <=> Tell(r) \/ tells
            BY <1>22, <2>2
        <3>2. a.m_cmpl /\ ToldOf(a) => ToldOf(b)
            <4>1. CASE Complete(t)
                BY <1>9, <1>10, <1>12, <4>1 DEF ToldOf
            <4>2. CASE Fail(t)
                BY <1>9, <1>10, <1>12, <4>2 DEF ToldOf
            <4> QED BY <4>1, <4>2
        <3>3. ToldFits(b, Tell(s)')
            BY <1>12, <1>19, <1>20, <3>1, <3>2 DEF ToldFits
        <3>4. (a.kind = "start" => load.faulty = {}) /\ a.m_cmpl /\ ToldOf(b) => ToldOf(a) \/ tells
            <4>1. a.m_succeeded \in BOOLEAN
                BY <1>9 DEF RequestFits
            <4>2. CASE Complete(t)
                <5>1. ok = TRUE /\ (tells <=> TellsGood(a))
                    BY <1>6, <1>10, <1>18, <4>2
                <5> QED BY <1>9, <1>12, <1>17, <4>1, <5>1 DEF TellsGood, LastBack, FirstBack, ToldOf
            <4>3. CASE Fail(t)
                <5>1. ok = a.m_succeeded /\ (tells <=> TellsError(a))
                    BY <1>6, <1>10, <1>18, <4>3
                <5>2. load.faulty = {} => a.kind # "start"
                    BY <1>2, <1>5, <1>6, <1>8, <4>3 DEF Fitting, BadNews, Answers
                <5> QED BY <1>9, <1>12, <1>17, <4>1, <5>1, <5>2 DEF TellsError, LastBack, ToldOf
            <4> QED BY <4>2, <4>3
        <3> QED BY <1>11, <1>12, <1>20, <2>2, <3>1, <3>3, <3>4
    <2> QED BY <2>1, <2>2
<1>33. Cycles'
    <2>1. \A d \in Children : Flying(d)' = Flying(d) /\ SentTo(d)' = SentTo(d)
        BY <1>13, <1>14, <1>23 DEF Flying, SentTo, Refreshing
    <2>2. \A s \in Ids : Started(s)' <=> Started(s)
        BY <1>14 DEF Started
    <2>3. load.faulty = {} => OneStart' /\ (Target' <=> Target)
        BY <1>4, <1>13, <2>2, SameStarts
    <2>4. ASSUME NEW d \in Children,
                 NEW s \in Flying(d) \cup SentTo(d) \cup Elements(queue[d]["ref"])
          PROVE reqs'[s].kind = reqs[s].kind
        <3>1. s \in Ids
            BY <1>4 DEF Flying, SentTo, Typed, Classes, Elements
        <3> QED BY <1>14, <3>1
    <2> QED BY <1>4, <1>13, <2>1, <2>3, <2>4, SameCycles
<1> QED BY <1>24, <1>25, <1>27, <1>28, <1>31, <1>32, <1>33 DEF Answering, Ways

-----------------------------------------------------------------------------
(* The gets that are canceled *)

\* A set of numbers that is not empty has a least one.
LEMMA LeastOf ==
    ASSUME NEW T \in SUBSET Nat, T # {}
    PROVE  \E n \in T : \A m \in T : n <= m
<1> DEFINE R == {s \in Nat \X Nat : s[1] < s[2]}
<1>0. IsWellFoundedOn(R, Nat)
    BY NatLessThanWellFounded DEF OpToRel
<1>1. T \subseteq Nat
    OBVIOUS
<1>2. PICK n \in T : \A m \in T : ~(<<m, n>> \in R)
    <2> HIDE DEF R
    <2> QED BY <1>0, <1>1, WFMin
<1>3. ASSUME NEW m \in T PROVE n <= m
    <2>1. <<m, n>> \in Nat \X Nat /\ <<m, n>>[1] = m /\ <<m, n>>[2] = n
        OBVIOUS
    <2>2. ~(<<m, n>>[1] < <<m, n>>[2])
        BY <1>2, <2>1, Zenon
    <2> QED BY <2>1, <2>2
<1> QED BY <1>3

\* The get that is found is in the queue.
LEMMA FirstMatchIn ==
    ASSUME Typed, NEW c \in Children, NEW k, Matches(c, k) # {}
    PROVE FirstMatch(c, k) \in 1..Len(queue[c]["get"])
<1>1. Matches(c, k) \in SUBSET Nat
    BY DEF Matches, Typed, Classes
<1>2. \E n \in Matches(c, k) : \A m \in Matches(c, k) : n <= m
    BY <1>1, LeastOf
<1>3. FirstMatch(c, k) \in Matches(c, k)
    BY <1>2 DEF FirstMatch
<1> QED BY <1>3 DEF Matches

\* The first get of the block in each other child's queue is to be answered instead.
LEMMA CancelAnswers ==
    ASSUME Answering, Inv', NEW t \in threads, cancel_get(t), UNCHANGED load
    PROVE Answering' /\ (OutstandingExact => OutstandingExact')
<1>1. PICK i : i = Head(t.todo)
    OBVIOUS
<1>2. PICK k : k = reqs[i.req].key
    OBVIOUS
<1>3. PICK S \in SUBSET Children : S = {c \in Children \ {i.cp} : Matches(c, k) # {}}
    OBVIOUS
<1>4. PICK v : v = [c \in S |-> queue[c]["get"][FirstMatch(c, k)]]
    OBVIOUS
<1>5. PICK x : x = [c \in S |-> Do("canceled", v[c], c)]
    OBVIOUS
<1>6. PICK f : f = Listed(S, x)
    OBVIOUS
<1>7. Inv /\ Typed /\ Tidy /\ Queues /\ Separate /\ Enough /\ Told /\ Cycles
    BY DEF Answering, Ways
<1>8. Continue(t, f \o Tail(t.todo))
    <2> DEFINE key == reqs[Head(t.todo).req].key
               hit == {c \in Children \ {Head(t.todo).cp} : Matches(c, key) # {}}
    <2>1. PICK g : g = ForEach(hit, LAMBDA c : Do("canceled", queue[c]["get"][FirstMatch(c, key)], c))
        OBVIOUS
    <2>2. Continue(t, g \o Tail(t.todo))
        BY <2>1 DEF cancel_get
    <2>3. hit = S /\ key = k
        BY <1>1, <1>2, <1>3
    <2>4. g = ForEach(S, LAMBDA c : Do("canceled", queue[c]["get"][FirstMatch(c, k)], c))
        BY <2>1, <2>3
    <2>5. \A j \in 1..Cardinality(S) : (CHOOSE c \in S : Cardinality({d \in S : d < c}) = j - 1) \in S
        <3>1. \A j \in 1..Cardinality(S) : \E c \in S : Rank(S, c) = j - 1
            BY Ranks
        <3> QED BY <3>1 DEF Rank
    <2>6. \A c \in S : x[c] = Do("canceled", queue[c]["get"][FirstMatch(c, k)], c)
        BY <1>4, <1>5
    <2>7. g = f
        BY <1>6, <2>4, <2>5, <2>6 DEF ForEach, Listed
    <2> QED BY <2>2, <2>7
<1>9. /\ i.op = "cancel" /\ Continue(t, f \o Tail(t.todo))
      /\ queue' = [c \in Children |->
                      IF c \in S THEN [queue[c] EXCEPT !["get"] = Without(@, FirstMatch(c, k))]
                      ELSE queue[c]]
      /\ UNCHANGED <<reqs, flight, cycle, begun>>
    BY <1>1, <1>2, <1>3, <1>8 DEF cancel_get, stores
<1>10. /\ IsList(f)
       /\ \A P : HasIn(f, P) <=> \E c \in S : x[c] \in P
       /\ \A P : (\A c, d \in S : x[c] \in P /\ x[d] \in P => c = d) => OneIn(f, P)
       /\ \A P : (\A c \in S : x[c] \in P) => AllIn(f, P)
    BY <1>6, EachOnce
<1>11. ASSUME NEW c \in S
       PROVE /\ queue'[c]["get"] \in Seq(Ids) /\ QueueOK(queue'[c]["get"], "get", reqs)
             /\ Elements(queue'[c]["get"]) = Elements(queue[c]["get"]) \ {v[c]}
             /\ v[c] \in Elements(queue[c]["get"]) /\ v[c] \in Ids
             /\ \A cl \in Classes \ {"get"} : queue'[c][cl] = queue[c][cl]
             /\ queue'[c] \in [Classes -> Seq(Ids)]
    <2>1. PICK q \in Seq(Ids) : q = queue[c]["get"]
        BY <1>7 DEF Typed, Classes
    <2>2. PICK n : n = FirstMatch(c, k)
        OBVIOUS
    <2>3. n \in 1..Len(q) /\ QueueOK(q, "get", reqs) /\ v[c] = q[n]
        BY <1>3, <1>4, <1>7, <2>1, <2>2, FirstMatchIn DEF Queues, Classes
    <2>4. /\ Without(q, n) \in Seq(Ids) /\ QueueOK(Without(q, n), "get", reqs)
          /\ Elements(Without(q, n)) = Elements(q) \ {q[n]} /\ q[n] \in Elements(q) /\ q[n] \in Ids
        BY <2>3, QueueWithout
    <2>5. queue'[c] = [queue[c] EXCEPT !["get"] = Without(q, n)]
        BY <1>9, <2>1, <2>2
    <2>6. queue[c] \in [Classes -> Seq(Ids)] /\ "get" \in Classes
        BY <1>7 DEF Typed, Classes
    <2> QED BY <2>1, <2>3, <2>4, <2>5, <2>6
<1>12. \A c \in Children \ S : queue'[c] = queue[c]
    BY <1>9
<1>13. ASSUME NEW c \in S PROVE reqs[v[c]].kind = "get" /\ QueuedAt(v[c], c)
    <2>1. QueueOK(queue[c]["get"], "get", reqs)
        BY <1>7 DEF Queues, Classes
    <2>2. Class(reqs[v[c]].kind) = "get"
        BY <1>11, <2>1 DEF QueueOK, Elements
    <2> QED BY <1>7, <1>11, <2>2, KindClass DEF QueuedAt, Classes
<1>14. \A s \in Ids, d \in Children : QueuedAt(s, d)' <=> QueuedAt(s, d) /\ ~(d \in S /\ s = v[d])
    <2>1. ASSUME NEW s \in Ids, NEW d \in S, NEW cl \in Classes
          PROVE s \in Elements(queue'[d][cl]) <=> s \in Elements(queue[d][cl]) /\ s # v[d]
        <3>1. CASE cl = "get"
            BY <1>11, <3>1
        <3>2. CASE cl # "get"
            <4>1. QueueOK(queue[d][cl], cl, reqs)
                BY <1>7 DEF Queues
            <4>2. v[d] \notin Elements(queue[d][cl])
                BY <1>13, <3>2, <4>1 DEF QueueOK, Elements, Class, RefreshKinds
            <4> QED BY <1>11, <3>2, <4>2
        <3> QED BY <3>1, <3>2
    <2>2. ASSUME NEW s \in Ids, NEW d \in S PROVE QueuedAt(s, d)' <=> QueuedAt(s, d) /\ s # v[d]
        BY <2>1 DEF QueuedAt
    <2>3. ASSUME NEW s \in Ids, NEW d \in Children \ S PROVE QueuedAt(s, d)' <=> QueuedAt(s, d)
        BY <1>12 DEF QueuedAt
    <2> QED BY <2>2, <2>3
<1>15. \A c \in S : x[c] \in Item /\ x[c].op = "canceled" /\ x[c].req = v[c] /\ x[c].cp = c
    BY <1>5, <1>11 DEF Do, Item, Ops, Answers
<1>16. ASSUME NEW s \in Ids PROVE AtMostOne(Telling(s))' /\ (Tell(s)' <=> Tell(s))
    <2>1. PICK P : P = Telling(s)
        OBVIOUS
    <2>2. AtMostOne(P) /\ OneIn(f, P) /\ ~HasIn(f, P)
        <3>1. \A c \in S : x[c] \notin P
            BY <1>15, <2>1 DEF Telling
        <3> QED BY <1>7, <1>10, <2>1, <3>1, OnceEach
    <2>3. Head(t.todo) \notin P
        BY <1>1, <1>9, <2>1 DEF Telling
    <2>4. AtMostOne(P)' /\ (InThreads(P)' <=> HasIn(f, P) \/ (InThreads(P) /\ Head(t.todo) \notin P))
        BY <1>7, <1>9, <1>10, <2>2, GoesOn
    <2> QED BY <2>1, <2>2, <2>3, <2>4 DEF Tell
<1>17. ASSUME NEW s \in Ids, NEW d \in Children
       PROVE /\ AtMostOne(Asking(s, d))' /\ (Asked(s, d)' <=> Asked(s, d) \/ (d \in S /\ s = v[d]))
             /\ Sent(s, d)' <=> Sent(s, d)
    <2>1. PICK P : P = Asking(s, d)
        OBVIOUS
    <2>2. PICK Q : Q = Sending(s, d)
        OBVIOUS
    <2>3. \A c \in S : (x[c] \in P <=> c = d /\ v[c] = s) /\ x[c] \notin Q
        BY <1>15, <2>1, <2>2 DEF Asking, Sending, AskOps, Answers
    <2>4. OneIn(f, P) /\ (HasIn(f, P) <=> d \in S /\ s = v[d])
        BY <1>10, <2>3
    <2>5. OneIn(f, Q) /\ ~HasIn(f, Q)
        BY <1>10, <2>3
    <2>6. AtMostOne(P) /\ AtMostOne(Q)
        BY <1>7, <2>1, <2>2, OnceEach
    <2>7. HasIn(f, P) => ~InThreads(P)
        BY <1>7, <1>13, <2>1, <2>4 DEF Separate, Asked
    <2>8. AtMostOne(P)' /\ (InThreads(P)' <=> HasIn(f, P) \/ (InThreads(P) /\ Head(t.todo) \notin P))
        BY <1>7, <1>9, <1>10, <2>4, <2>6, <2>7, GoesOn
    <2>9. AtMostOne(Q)' /\ (InThreads(Q)' <=> HasIn(f, Q) \/ (InThreads(Q) /\ Head(t.todo) \notin Q))
        BY <1>7, <1>9, <1>10, <2>5, <2>6, GoesOn
    <2>10. i \notin P /\ i \notin Q
        BY <1>9, <2>1, <2>2 DEF Asking, Sending, AskOps, Answers
    <2> QED BY <1>1, <2>1, <2>2, <2>4, <2>5, <2>8, <2>9, <2>10 DEF Asked, Sent
<1>18. Tidy'
    BY <1>16, <1>17 DEF Tidy
<1>19. Typed'
    <2>1. \A u \in threads' : AllIn(u.todo, Fitting(u.by, u.req, reqs, load))
        <3>1. PICK R : R = reqs
            OBVIOUS
        <3>2. PICK l : l = load
            OBVIOUS
        <3>3. \A u \in threads : AllIn(u.todo, Fitting(u.by, u.req, R, l))
            BY <1>7, <3>1, <3>2 DEF Typed
        <3>4. PICK F : F = Fitting(t.by, t.req, R, l)
            OBVIOUS
        <3>5. \A c \in S : x[c] \in F
            BY <1>13, <1>15, <3>1, <3>4 DEF Fitting, AllKinds
        <3>6. AllIn(f, F)
            BY <1>10, <3>5
        <3>7. \A u \in threads' : AllIn(u.todo, Fitting(u.by, u.req, R, l))
            BY <1>7, <1>9, <1>10, <3>3, <3>4, <3>6, GoesOnFit
        <3> QED BY <3>1, <3>2, <3>7
    <2>2. queue' \in [Children -> [Classes -> Seq(Ids)]]
        <3>1. \A c \in Children : queue'[c] \in [Classes -> Seq(Ids)]
            BY <1>7, <1>11, <1>12 DEF Typed
        <3> QED BY <1>9, <3>1
    <2> QED BY <1>7, <1>9, <2>1, <2>2 DEF Typed
<1>20. Queues'
    <2>1. ASSUME NEW d \in Children, NEW cl \in Classes PROVE QueueOK(queue'[d][cl], cl, reqs)
        BY <1>7, <1>11, <1>12 DEF Queues
    <2> QED BY <1>9, <2>1 DEF Queues
<1>21. Separate'
    <2> SUFFICES ASSUME NEW s \in Ids, NEW d \in Children
                 PROVE /\ Asked(s, d)' => ~QueuedAt(s, d)' /\ <<s, d>> \notin flight
                       /\ <<s, d>> \in flight => ~QueuedAt(s, d)'
        BY <1>9 DEF Separate
    <2>1. /\ Asked(s, d) => ~QueuedAt(s, d) /\ <<s, d>> \notin flight
          /\ <<s, d>> \in flight => ~QueuedAt(s, d)
        BY <1>7 DEF Separate
    <2> QED BY <1>13, <1>14, <1>17, <2>1
<1>22. \A s \in Ids, d \in Children : Waiting(s, d)' <=> Waiting(s, d)
    BY <1>9, <1>13, <1>14, <1>17 DEF Waiting
<1>23. Enough' /\ (OutstandingExact => OutstandingExact')
    BY <1>7, <1>9, <1>19, <1>22, SameWaits
<1>24. Told'
    BY <1>7, <1>9, <1>16, SameTold
<1>25. Cycles'
    <2>1. \A d \in Children : Flying(d)' = Flying(d) /\ SentTo(d)' = SentTo(d)
        BY <1>9, <1>17 DEF Flying, SentTo, Refreshing
    <2>2. \A s \in Ids : Started(s)' <=> Started(s)
        BY <1>9 DEF Started
    <2>3. load.faulty = {} => OneStart' /\ (Target' <=> Target)
        BY <1>7, <1>9, <2>2, SameStarts
    <2>4. \A c \in Children : queue'[c]["ref"] = queue[c]["ref"]
        BY <1>11, <1>12 DEF Classes
    <2> QED BY <1>7, <1>9, <2>1, <2>3, <2>4, SameCycles
<1> QED BY <1>18, <1>19, <1>20, <1>21, <1>23, <1>24, <1>25 DEF Answering, Ways

-----------------------------------------------------------------------------
(* New requests *)

\* The sends of r to the children in S.
LEMMA SendsIn ==
    ASSUME NEW r \in Ids, NEW S \in SUBSET Children
    PROVE /\ IsList(Sends(r, S))
          /\ \A s : ~HasIn(Sends(r, S), Telling(s)) /\ OneIn(Sends(r, S), Telling(s))
          /\ \A s, d : /\ OneIn(Sends(r, S), Asking(s, d)) /\ OneIn(Sends(r, S), Sending(s, d))
                       /\ HasIn(Sends(r, S), Asking(s, d)) <=> s = r /\ d \in S
                       /\ HasIn(Sends(r, S), Sending(s, d)) <=> s = r /\ d \in S
          /\ \A P : (\A c \in S : Do("send", r, c) \in P) => AllIn(Sends(r, S), P)
<1>1. PICK x : x = [c \in S |-> Do("send", r, c)]
    OBVIOUS
<1>2. \A c \in S : /\ x[c] = Do("send", r, c)
                   /\ x[c] \in Item /\ x[c].op = "send" /\ x[c].req = r /\ x[c].cp = c
    BY <1>1 DEF Do, Item, Ops
<1>3. PICK f : f = Listed(S, x)
    OBVIOUS
<1>4. Sends(r, S) = f
    <2>1. \A j \in 1..Cardinality(S) : (CHOOSE c \in S : Cardinality({d \in S : d < c}) = j - 1) \in S
        <3>1. \A j \in 1..Cardinality(S) : \E c \in S : Rank(S, c) = j - 1
            BY Ranks
        <3> QED BY <3>1 DEF Rank
    <2> QED BY <1>2, <1>3, <2>1 DEF Sends, ForEach, Listed
<1>5. /\ IsList(f)
      /\ \A P : HasIn(f, P) <=> \E c \in S : x[c] \in P
      /\ \A P : (\A c, d \in S : x[c] \in P /\ x[d] \in P => c = d) => OneIn(f, P)
      /\ \A P : (\A c \in S : x[c] \in P) => AllIn(f, P)
    BY <1>3, EachOnce
<1>6. ASSUME NEW s PROVE ~HasIn(f, Telling(s)) /\ OneIn(f, Telling(s))
    <2>1. PICK P : P = Telling(s)
        OBVIOUS
    <2>2. \A c \in S : x[c] \notin P
        BY <1>2, <2>1 DEF Telling
    <2> QED BY <1>5, <2>1, <2>2
<1>7. ASSUME NEW s, NEW d
      PROVE /\ OneIn(f, Asking(s, d)) /\ OneIn(f, Sending(s, d))
            /\ HasIn(f, Asking(s, d)) <=> s = r /\ d \in S
            /\ HasIn(f, Sending(s, d)) <=> s = r /\ d \in S
    <2>1. PICK P : P = Asking(s, d)
        OBVIOUS
    <2>2. PICK Q : Q = Sending(s, d)
        OBVIOUS
    <2>3. \A c \in S : (x[c] \in P <=> s = r /\ c = d) /\ (x[c] \in Q <=> s = r /\ c = d)
        BY <1>2, <2>1, <2>2 DEF Asking, Sending, AskOps
    <2>4. OneIn(f, P) /\ OneIn(f, Q)
        BY <1>5, <2>3
    <2>5. (HasIn(f, P) <=> s = r /\ d \in S) /\ (HasIn(f, Q) <=> s = r /\ d \in S)
        BY <1>5, <2>3
    <2> QED BY <2>1, <2>2, <2>4, <2>5
<1>8. \A P : (\A c \in S : Do("send", r, c) \in P) => AllIn(f, P)
    BY <1>2, <1>5
<1> QED BY <1>4, <1>5, <1>6, <1>7, <1>8

\* The client of a request that nothing refers to has been told.
LEMMA AnsweredBefore ==
    ASSUME Inv, Typed, Told, NEW r \in Ids, Unused(r), reqs[r].m_cmpl,
           reqs[r].kind = "start" => load.faulty = {}
    PROVE reqs[r].upcalls # <<>>
<1>1. reqs[r].m_outstanding <= 0
    <2>1. ~(reqs[r].m_outstanding > 0) /\ reqs[r].m_outstanding \in Int
        BY DEF Inv, TrackedUntilDone, Unused, Shapes, RequestOK
    <2> QED BY <2>1
<1>2. ToldOf(reqs[r])
    BY <1>1 DEF ToldOf
<1>3. ~Tell(r)
    BY NothingLeft
<1> QED BY <1>2, <1>3 DEF Told

\* When a client calls for a refresh, no other call of it is on its way to a queue, and
\* no start is unanswered.
LEMMA RefreshAlone ==
    ASSUME Inv, Typed, Told, Tidy, NEW kind \in RefreshKinds, ClientMayCall(kind)
    PROVE /\ \A c \in Children : SentTo(c) = {}
          /\ load.faulty = {} => \A r \in Ids : ~Started(r)
<1>1. /\ \A r \in Ids : Unanswered(r) => reqs[r].kind \notin RefreshKinds
      /\ \A t \in threads : t.by = "client" => reqs[t.req].kind \notin RefreshKinds
    BY DEF ClientMayCall
<1>2. ASSUME NEW c \in Children, NEW r \in SentTo(c) PROVE FALSE
    <2>1. Sent(r, c) /\ reqs[r].kind \in RefreshKinds
        BY DEF SentTo, Refreshing
    <2>2. PICK t \in threads : \E j \in 1..Len(t.todo) : t.todo[j] \in Sending(r, c)
        BY <2>1 DEF Sent, InThreads, HasIn
    <2>3. PICK j \in 1..Len(t.todo) : t.todo[j] \in Sending(r, c)
        BY <2>2
    <2>4. t.todo[j].op = "send" /\ t.todo[j].req = r /\ t.todo[j] \in Fitting(t.by, t.req, reqs, load)
        BY <2>3 DEF Sending, Typed, AllIn
    <2>5. t.by = "client" /\ t.req = r
        BY <2>1, <2>4 DEF Fitting
    <2> QED BY <1>1, <2>1, <2>5
<1>3. ASSUME load.faulty = {}, NEW r \in Ids, Started(r) PROVE FALSE
    <2>1. reqs[r].kind \in RefreshKinds /\ reqs[r].upcalls = <<>>
        BY <1>3 DEF Started, RefreshKinds
    <2>2. reqs[r].m_cmpl
        BY <2>1 DEF Typed, RequestFits
    <2>3. ~Unused(r)
        BY <1>3, <2>1, <2>2, AnsweredBefore
    <2> QED BY <1>1, <2>1, <2>2, <2>3 DEF Unanswered
<1> QED BY <1>2, <1>3

\* A request is made, for the children in S.
Makes(x, kind, k, n, cmpl, needy, S) ==
    /\ Free # {} /\ x = NewId /\ kind \in AllKinds /\ kind \in load.kinds \cup {"get", "put"}
    /\ n \in Nat \ {0} /\ cmpl \in BOOLEAN /\ needy \in SUBSET Children /\ S \in SUBSET Children
    /\ reqs' = [reqs EXCEPT ![x] = NewRequest(kind, k, n, cmpl, needy)]
    /\ needy = {} => n = Cardinality(S)
    /\ cmpl => needy = {}

\* If it is a refresh, it is the client's turn.
InTurn(kind, cmpl, S) ==
    \/ kind \notin RefreshKinds /\ UNCHANGED begun
    \/ /\ kind \in RefreshKinds /\ ClientMayCall(kind) /\ cmpl /\ S = Children
       /\ begun' = (begun /\ kind # "finish")

\* It is to be sent to them.
IsSent(x, S) ==
    /\ Tidy' /\ \A u \in threads' : AllIn(u.todo, Fitting(u.by, u.req, reqs', load))
    /\ \A s \in Ids : Tell(s)' <=> Tell(s)
    /\ \A s \in Ids, d \in Children : /\ Asked(s, d)' <=> Asked(s, d) \/ (s = x /\ d \in S)
                                      /\ Sent(s, d)' <=> Sent(s, d) \/ (s = x /\ d \in S)

\* By the store for itself, or by a client, whose refresh then finds at each child the
\* cycle that it needs.
LEMMA AllocAnswers ==
    ASSUME Answering, Inv', NEW x, NEW kind, NEW k, NEW n, NEW cmpl, NEW needy, NEW S,
           Makes(x, kind, k, n, cmpl, needy, S), InTurn(kind, cmpl, S), IsSent(x, S),
           UNCHANGED <<queue, flight, cycle, load>>
    PROVE Answering' /\ (OutstandingExact => OutstandingExact')
<1>0. /\ Free # {} /\ x = NewId /\ kind \in AllKinds /\ kind \in load.kinds \cup {"get", "put"}
      /\ n \in Nat \ {0} /\ cmpl \in BOOLEAN /\ needy \in SUBSET Children /\ S \in SUBSET Children
      /\ reqs' = [reqs EXCEPT ![x] = NewRequest(kind, k, n, cmpl, needy)]
      /\ needy = {} => n = Cardinality(S)
      /\ cmpl => needy = {}
      /\ Tidy' /\ \A u \in threads' : AllIn(u.todo, Fitting(u.by, u.req, reqs', load))
      /\ \A s \in Ids : Tell(s)' <=> Tell(s)
      /\ \A s \in Ids, d \in Children : /\ Asked(s, d)' <=> Asked(s, d) \/ (s = x /\ d \in S)
                                        /\ Sent(s, d)' <=> Sent(s, d) \/ (s = x /\ d \in S)
    BY DEF Makes, IsSent
<1> USE <1>0
<1>1. Inv /\ Typed /\ Tidy /\ Queues /\ Separate /\ Enough /\ Told /\ Cycles
    BY DEF Answering, Ways
<1>2. x \in Ids /\ Unused(x)
    BY <1>1, NewIdUnused
<1>3. ~Tell(x) /\ \A c \in Children : ~Waiting(x, c) /\ ~Asked(x, c) /\ ~Sent(x, c)
    BY <1>2, NothingLeft
<1>4. \A c \in Children : ~QueuedAt(x, c) /\ <<x, c>> \notin flight
    BY <1>2 DEF Unused
<1>5. PICK b : b = reqs'[x]
    OBVIOUS
<1>6. /\ b.kind = kind /\ b.m_outstanding = n /\ b.m_succeeded = FALSE /\ b.m_cmpl = cmpl
      /\ b.m_needy = needy /\ b.upcalls = <<>>
      /\ \A s \in Ids \ {x} : reqs'[s] = reqs[s]
    <2>1. DOMAIN reqs = Ids
        BY <1>1 DEF Inv, Shapes
    <2>2. b = NewRequest(kind, k, n, cmpl, needy) /\ \A s \in Ids \ {x} : reqs'[s] = reqs[s]
        BY <1>2, <1>5, <2>1
    <2> QED BY <2>2 DEF NewRequest
<1>7. ASSUME NEW c \in Children, NEW cl \in Classes
      PROVE /\ x \notin Elements(queue[c][cl]) /\ Elements(queue[c][cl]) \subseteq Ids
            /\ \A s \in Elements(queue[c][cl]) : reqs'[s].kind = reqs[s].kind
    <2>1. x \notin Elements(queue[c][cl]) /\ Elements(queue[c][cl]) \subseteq Ids
        <3>1. queue[c][cl] \in Seq(Ids)
            BY <1>1 DEF Typed
        <3>2. Elements(queue[c][cl]) \subseteq Ids
            BY <3>1 DEF Elements
        <3> QED BY <1>4, <3>2 DEF QueuedAt
    <2> QED BY <1>6, <2>1
<1>8. Typed'
    <2>1. RequestFits(b, load)
        <3>1. <<>> \in Seq({"good", "bad"})
            OBVIOUS
        <3>2. kind \in RefreshKinds => cmpl
            BY DEF InTurn
        <3> QED BY <1>6, <3>1, <3>2 DEF RequestFits
    <2>2. \A s \in Ids : RequestFits(reqs'[s], load)
        BY <1>1, <1>5, <1>6, <2>1 DEF Typed
    <2>3. \A s \in Ids, c \in Children : <<s, c>> \in flight => reqs'[s].kind \in AllKinds
        BY <1>1, <1>4, <1>6 DEF Typed
    <2>4. begun' \in BOOLEAN
        BY <1>1 DEF Typed, InTurn
    <2> QED BY <1>1, <2>2, <2>3, <2>4 DEF Typed
<1>9. Queues'
    <2>1. ASSUME NEW c \in Children, NEW cl \in Classes PROVE QueueOK(queue[c][cl], cl, reqs')
        <3>1. QueueOK(queue[c][cl], cl, reqs)
            BY <1>1 DEF Queues
        <3> QED BY <1>7, <3>1, QueueSame
    <2> QED BY <2>1 DEF Queues
<1>10. \A s, d : QueuedAt(s, d)' <=> QueuedAt(s, d)
    BY DEF QueuedAt
<1>11. Separate'
    <2> SUFFICES ASSUME NEW s \in Ids, NEW d \in Children
                 PROVE /\ Asked(s, d)' => ~QueuedAt(s, d) /\ <<s, d>> \notin flight
                       /\ <<s, d>> \in flight => ~QueuedAt(s, d)
        BY <1>10 DEF Separate
    <2>1. /\ Asked(s, d) => ~QueuedAt(s, d) /\ <<s, d>> \notin flight
          /\ <<s, d>> \in flight => ~QueuedAt(s, d)
        BY <1>1 DEF Separate
    <2> QED BY <1>4, <2>1
<1>12. \A s \in Ids, d \in Children : Waiting(s, d)' <=> Waiting(s, d) \/ (s = x /\ d \in S)
    BY <1>10 DEF Waiting
<1>13. ASSUME NEW s \in Ids PROVE Awaited(s)' = IF s = x THEN S ELSE Awaited(s)
    <2>1. Awaited(s)' = {d \in Children : Waiting(s, d)'}
        BY <1>8, AwaitedNext
    <2>2. Awaited(s) = {d \in Children : Waiting(s, d)}
        BY <1>1, AwaitedIs
    <2>3. CASE s = x
        BY <1>3, <1>12, <2>1, <2>3
    <2>4. CASE s # x
        BY <1>12, <2>1, <2>2, <2>4
    <2> QED BY <2>3, <2>4
<1>14. Enough' /\ (OutstandingExact => OutstandingExact')
    <2>1. Cardinality(S) \in Nat
        BY SomeChildren
    <2>2. ASSUME NEW s \in Ids, reqs'[s].m_needy = {}
          PROVE Cardinality(Awaited(s)') <= reqs'[s].m_outstanding
        <3>1. CASE s = x
            BY <1>5, <1>6, <1>13, <2>1, <2>2, <3>1
        <3>2. CASE s # x
            BY <1>1, <1>6, <1>13, <2>2, <3>2 DEF Enough
        <3> QED BY <3>1, <3>2
    <2>3. ASSUME OutstandingExact, NEW s \in Ids, reqs'[s].m_needy = {}
          PROVE reqs'[s].m_outstanding = Cardinality(Awaited(s)')
        <3>1. CASE s = x
            BY <1>5, <1>6, <1>13, <2>3, <3>1
        <3>2. CASE s # x
            BY <1>6, <1>13, <2>3, <3>2 DEF OutstandingExact
        <3> QED BY <3>1, <3>2
    <2> QED BY <2>2, <2>3 DEF Enough, OutstandingExact
<1>15. Told'
    <2> SUFFICES ASSUME NEW s \in Ids
                 PROVE /\ ToldFits(reqs'[s], Tell(s)')
                       /\ /\ reqs'[s].kind = "start" => load'.faulty = {}
                          /\ reqs'[s].m_cmpl /\ ToldOf(reqs'[s])
                          => Tell(s)' \/ reqs'[s].upcalls # <<>>
        BY DEF Told, ToldFits, ToldOf
    <2>1. CASE s = x
        <3>1. ~ToldOf(b)
            BY <1>6 DEF ToldOf
        <3>2. Len(<<>>) = 0 /\ b.upcalls = <<>> /\ ~Tell(s)'
            BY <1>3, <1>6, <2>1
        <3> QED BY <1>5, <2>1, <3>1, <3>2 DEF ToldFits
    <2>2. CASE s # x
        <3>1. reqs'[s] = reqs[s] /\ (Tell(s)' <=> Tell(s))
            BY <1>6, <2>2
        <3> QED BY <1>1, <3>1 DEF Told, ToldFits
    <2> QED BY <2>1, <2>2
<1>16. /\ load.faulty = {} => ~Started(x)
       /\ \A s \in Ids : Started(s)' <=> IF s = x THEN kind = "start" ELSE Started(s)
    <2>1. ASSUME load.faulty = {}, Started(x) PROVE FALSE
        <3>1. reqs[x].kind = "start" /\ reqs[x].upcalls = <<>>
            BY <2>1 DEF Started
        <3>2. reqs[x].m_cmpl
            BY <1>1, <1>2, <3>1 DEF Typed, RequestFits, RefreshKinds
        <3> QED BY <1>1, <1>2, <2>1, <3>1, <3>2, AnsweredBefore
    <2>2. \A s \in Ids : Started(s)' <=> IF s = x THEN kind = "start" ELSE Started(s)
        BY <1>5, <1>6 DEF Started
    <2> QED BY <2>1, <2>2
<1>17. \A d \in Children : Flying(d)' = Flying(d)
    BY <1>4, <1>6 DEF Flying, Refreshing
<1>18. \A c \in Children : \A s \in Flying(c) \cup SentTo(c) \cup Elements(queue[c]["ref"]) :
           s \in Ids /\ s # x /\ reqs'[s].kind = reqs[s].kind
    <2> SUFFICES ASSUME NEW c \in Children,
                        NEW s \in Flying(c) \cup SentTo(c) \cup Elements(queue[c]["ref"])
                 PROVE s \in Ids /\ s # x
        BY <1>6
    <2>1. "ref" \in Classes
        BY DEF Classes
    <2> QED BY <1>3, <1>4, <1>7, <2>1 DEF Flying, SentTo
<1>19. CASE kind \notin RefreshKinds /\ UNCHANGED begun
    <2>1. \A d \in Children : SentTo(d)' = SentTo(d)
        BY <1>3, <1>5, <1>6, <1>19 DEF SentTo, Refreshing
    <2>2. load.faulty = {} => \A s \in Ids : Started(s)' <=> Started(s)
        BY <1>16, <1>19 DEF RefreshKinds
    <2>3. load.faulty = {} => OneStart' /\ (Target' <=> Target)
        BY <1>1, <1>19, <2>2, SameStarts
    <2>4. Cycles'
        BY <1>1, <1>17, <1>18, <2>1, <2>3, SameCycles
    <2> QED BY <1>8, <1>9, <1>11, <1>14, <1>15, <2>4 DEF Answering, Ways
<1>20. CASE /\ kind \in RefreshKinds /\ ClientMayCall(kind) /\ cmpl /\ S = Children
            /\ begun' = (begun /\ kind # "finish")
    <2>1. /\ \A c \in Children : SentTo(c) = {}
          /\ load.faulty = {} => \A r \in Ids : ~Started(r)
        BY <1>1, <1>20, RefreshAlone
    <2>2. \A d \in Children : SentTo(d)' = {x}
        BY <1>2, <1>5, <1>6, <1>20, <2>1 DEF SentTo, Refreshing
    <2>3. OneFlight' /\ OneSend'
        BY <1>1, <1>17, <2>2 DEF Cycles, OneFlight, OneSend
    <2>4. ASSUME load.faulty = {} PROVE OneStart' /\ Chains'
        <3>1. /\ \A s \in Ids : Started(s)' <=> s = x /\ kind = "start"
              /\ kind = "start" => ~begun
              /\ kind # "start" => begun
            BY <1>16, <1>20, <2>1, <2>4 DEF ClientMayCall
        <3>2. OneStart'
            BY <1>20, <3>1 DEF OneStart
        <3>3. /\ Num(Target) = Need(kind)
              /\ Num(Target') = Gives(kind)
            <4>1. (Target <=> begun) /\ (Target' <=> begun' \/ kind = "start")
                BY <1>2, <2>1, <2>4, <3>1 DEF Target
            <4>2. CASE kind = "start"
                <5>1. ~Target /\ Target'
                    BY <3>1, <4>1, <4>2
                <5> QED BY <4>2, <5>1 DEF Num, Need, Gives
            <4>3. CASE kind = "block"
                <5>1. Target /\ Target'
                    BY <1>20, <3>1, <4>1, <4>3
                <5> QED BY <4>3, <5>1 DEF Num, Need, Gives
            <4>4. CASE kind = "finish"
                <5>1. Target /\ ~Target'
                    BY <1>20, <3>1, <4>1, <4>4
                <5> QED BY <4>4, <5>1 DEF Num, Need, Gives
            <4> QED BY <1>20, <4>2, <4>3, <4>4 DEF RefreshKinds
        <3>4. ASSUME NEW d \in Children PROVE ChainAt(d)'
            <4>1. PICK cy : cy = Num(cycle[d])
                OBVIOUS
            <4>2. PICK g : g = Num(Target)
                OBVIOUS
            <4>3. PICK q \in Seq(Ids) : q = queue[d]["ref"]
                BY <1>1 DEF Typed, Classes
            <4>4. PICK R : R = reqs
                OBVIOUS
            <4>5. PICK T : T = reqs'
                OBVIOUS
            <4>6. PICK F : F = Flying(d)
                OBVIOUS
            <4>7. PICK D : D = {}
                OBVIOUS
            <4>8. ChainOK(cy, F, q, D, R, g) /\ \A r \in F \cup D \cup Elements(q) : T[r].kind = R[r].kind
                BY <1>1, <1>18, <2>1, <2>4, <4>1, <4>2, <4>3, <4>4, <4>5, <4>6, <4>7
                   DEF Cycles, Chains, ChainAt
            <4>9. ChainOK(cy, F, q, D, T, g)
                BY ONLY <4>8, ChainSame, q \in Seq(Ids)
            <4>10. Need(T[x].kind) = g
                BY <1>5, <1>6, <3>3, <4>2, <4>5
            <4>11. ChainOK(cy, F, q, {x}, T, Gives(T[x].kind))
                BY ONLY <4>7, <4>9, <4>10, ChainSubmit
            <4>12. Gives(T[x].kind) = Num(Target')
                BY <1>5, <1>6, <3>3, <4>5
            <4> QED BY <1>17, <2>2, <4>1, <4>3, <4>5, <4>6, <4>11, <4>12 DEF ChainAt
        <3> QED BY <3>2, <3>4 DEF Chains
    <2>5. Cycles'
        BY <2>3, <2>4 DEF Cycles
    <2> QED BY <1>8, <1>9, <1>11, <1>14, <1>15, <2>5 DEF Answering, Ways
<1> QED BY <1>19, <1>20 DEF InTurn

\* A thread begins to send a new request.
LEMMA BeginSends ==
    ASSUME Answering, Inv', NEW x, NEW kind, NEW k, NEW n, NEW cmpl, NEW needy, NEW S,
           Makes(x, kind, k, n, cmpl, needy, S), NEW by, NEW c, kind \in RefreshKinds => by = "client",
           threads' = threads \cup {[by |-> by, cp |-> c, req |-> x, todo |-> Sends(x, S)]}
    PROVE IsSent(x, S)
<1>0. /\ Free # {} /\ x = NewId /\ kind \in AllKinds /\ S \in SUBSET Children
      /\ reqs' = [reqs EXCEPT ![x] = NewRequest(kind, k, n, cmpl, needy)]
    BY DEF Makes
<1> USE <1>0
<1>1. Inv /\ Typed /\ Tidy
    BY DEF Answering, Ways
<1>2. x \in Ids /\ Unused(x)
    BY <1>1, NewIdUnused
<1>3. ~Tell(x) /\ \A d \in Children : ~Asked(x, d) /\ ~Sent(x, d)
    BY <1>2, NothingLeft
<1>4. PICK f : f = Sends(x, S)
    OBVIOUS
<1>5. /\ IsList(f)
      /\ \A s : ~HasIn(f, Telling(s)) /\ OneIn(f, Telling(s))
      /\ \A s, d : /\ OneIn(f, Asking(s, d)) /\ OneIn(f, Sending(s, d))
                   /\ HasIn(f, Asking(s, d)) <=> s = x /\ d \in S
                   /\ HasIn(f, Sending(s, d)) <=> s = x /\ d \in S
      /\ \A P : (\A d \in S : Do("send", x, d) \in P) => AllIn(f, P)
    BY <1>2, <1>4, SendsIn
<1>6. PICK v : v = [by |-> by, cp |-> c, req |-> x, todo |-> f]
    OBVIOUS
<1>7. threads' = threads \cup {v} /\ v.todo = f /\ v.by = by /\ v.req = x
    BY <1>4, <1>6
<1>8. ASSUME NEW s \in Ids PROVE AtMostOne(Telling(s))' /\ (Tell(s)' <=> Tell(s))
    <2>1. PICK P : P = Telling(s)
        OBVIOUS
    <2>2. AtMostOne(P) /\ OneIn(v.todo, P) /\ ~HasIn(v.todo, P)
        BY <1>1, <1>5, <1>7, <2>1, OnceEach
    <2>3. AtMostOne(P)' /\ (InThreads(P)' <=> HasIn(v.todo, P) \/ InThreads(P))
        BY <1>7, <2>2, Begins
    <2> QED BY <2>1, <2>2, <2>3 DEF Tell
<1>9. ASSUME NEW s \in Ids, NEW d \in Children
      PROVE /\ AtMostOne(Asking(s, d))'
            /\ Asked(s, d)' <=> Asked(s, d) \/ (s = x /\ d \in S)
            /\ Sent(s, d)' <=> Sent(s, d) \/ (s = x /\ d \in S)
    <2>1. PICK P : P = Asking(s, d)
        OBVIOUS
    <2>2. PICK Q : Q = Sending(s, d)
        OBVIOUS
    <2>3. /\ AtMostOne(P) /\ OneIn(v.todo, P) /\ (HasIn(v.todo, P) <=> s = x /\ d \in S)
          /\ HasIn(v.todo, P) => ~InThreads(P)
        BY <1>1, <1>3, <1>5, <1>7, <2>1, OnceEach DEF Asked
    <2>4. /\ AtMostOne(Q) /\ OneIn(v.todo, Q) /\ (HasIn(v.todo, Q) <=> s = x /\ d \in S)
          /\ HasIn(v.todo, Q) => ~InThreads(Q)
        BY <1>1, <1>3, <1>5, <1>7, <2>2, OnceEach DEF Sent
    <2>5. AtMostOne(P)' /\ (InThreads(P)' <=> HasIn(v.todo, P) \/ InThreads(P))
        BY <1>7, <2>3, Begins
    <2>6. AtMostOne(Q)' /\ (InThreads(Q)' <=> HasIn(v.todo, Q) \/ InThreads(Q))
        BY <1>7, <2>4, Begins
    <2> QED BY <2>1, <2>2, <2>3, <2>4, <2>5, <2>6 DEF Asked, Sent
<1>10. ASSUME NEW u \in threads' PROVE AllIn(u.todo, Fitting(u.by, u.req, reqs', load))
    <2>1. PICK q : q = reqs'
        OBVIOUS
    <2>2. q[x].kind = kind /\ \A s \in Ids \ {x} : q[s] = reqs[s]
        <3>1. q[x] = NewRequest(kind, k, n, cmpl, needy) /\ \A s \in Ids \ {x} : q[s] = reqs[s]
            BY <1>1, <1>2, <2>1 DEF Inv, Shapes
        <3> QED BY <3>1 DEF NewRequest
    <2>3. \A w \in threads : AllIn(w.todo, Fitting(w.by, w.req, q, load))
        BY <1>1, <1>2, <2>2, KindsFit
    <2>4. PICK F : F = Fitting(by, x, q, load)
        OBVIOUS
    <2>5. \A d \in S : Do("send", x, d) \in F
        BY <1>2, <2>2, <2>4 DEF Do, Fitting, Item, Ops, BadNews
    <2>6. AllIn(f, F)
        BY <1>5, <2>5
    <2> QED BY <1>7, <2>1, <2>3, <2>4, <2>6
<1> QED BY <1>8, <1>9, <1>10 DEF Tidy, IsSent

\* A client's call.
LEMMA CallAnswers ==
    ASSUME Answering, Inv', Call, UNCHANGED load
    PROVE Answering' /\ (OutstandingExact => OutstandingExact')
<1>1. PICK kind, k : kind \in AllKinds /\ Submit(kind, k)
    BY DEF Call, bs_block_get_async, bs_block_put_async, bs_refresh_start_async,
           bs_refresh_block_async, bs_refresh_finish_async, bs_head_insert_async,
           bs_head_follow_async, AllKinds, RefreshKinds
<1>2. PICK S \in SUBSET Children : S = Children
    OBVIOUS
<1>3. PICK n \in Nat \ {0} : n = NChildren
    BY VBlockStoreAssumption
<1>4. n = Cardinality(S)
    <2>1. 1 \in Int /\ n \in Int
        OBVIOUS
    <2>2. Cardinality(1..n) = IF 1 > n THEN 0 ELSE n - 1 + 1
        BY <2>1, FS_Interval
    <2> QED BY <1>2, <1>3, <2>2 DEF Children
<1>5. PICK yes \in BOOLEAN : yes = TRUE
    OBVIOUS
<1>6. PICK needy \in SUBSET Children : needy = {}
    OBVIOUS
<1>7. PICK x : x = NewId
    OBVIOUS
<1>8. PICK by : by = "client"
    OBVIOUS
<1>9. PICK c : c = 0
    OBVIOUS
<1>10. /\ Free # {} /\ kind \in load.kinds /\ ClientMayCall(kind)
       /\ reqs' = [reqs EXCEPT ![x] = NewRequest(kind, k, n, yes, needy)]
       /\ threads' = threads \cup {[by |-> by, cp |-> c, req |-> x, todo |-> Sends(x, S)]}
       /\ begun' = (begun /\ kind # "finish") /\ UNCHANGED <<queue, flight, cycle>>
    BY <1>1, <1>2, <1>3, <1>5, <1>6, <1>7, <1>8, <1>9 DEF Submit, Kinds, kids, stores
<1>12. InTurn(kind, yes, S)
    <2>1. begun \in BOOLEAN
        BY DEF Answering, Ways, Typed
    <2>2. CASE kind \notin RefreshKinds
        <3>1. kind # "finish"
            BY <2>2 DEF RefreshKinds
        <3>2. begun' = (begun /\ TRUE)
            BY <1>10, <3>1
        <3> QED BY <2>1, <2>2, <3>2 DEF InTurn
    <2>3. CASE kind \in RefreshKinds
        BY <1>2, <1>5, <1>10, <2>3 DEF InTurn
    <2> QED BY <2>2, <2>3
<1>13. Makes(x, kind, k, n, yes, needy, S)
    BY <1>1, <1>4, <1>6, <1>7, <1>10 DEF Makes
<1>14. IsSent(x, S)
    BY ONLY Answering, Inv', <1>8, <1>10, <1>13, BeginSends
<1>15. UNCHANGED <<queue, flight, cycle, load>>
    BY <1>10
<1> QED BY ONLY Answering, Inv', <1>12, <1>13, <1>14, <1>15, AllocAnswers

\* A key that child c lacks is asked of the others.
LEMMA NeededAnswers ==
    ASSUME Answering, Inv', NEW e \in Children, initiate_needed(e), UNCHANGED load
    PROVE Answering' /\ (OutstandingExact => OutstandingExact')
<1>1. PICK S \in SUBSET Children : S = Children \ {e}
    OBVIOUS
<1>2. CASE S = {}
    <2>1. UNCHANGED <<reqs, queue, flight, cycle, begun, load, threads>>
        BY <1>1, <1>2 DEF initiate_needed, stores
    <2> QED BY <2>1, IdleStep
<1>3. CASE S # {}
    <2>1. PICK k : k = Head(m_neededkeys[e])
        OBVIOUS
    <2>2. PICK n \in Nat \ {0} : n = 1
        OBVIOUS
    <2>3. PICK needy \in SUBSET Children : needy = {e}
        OBVIOUS
    <2>4. PICK by : by = "loop"
        OBVIOUS
    <2>5. PICK no \in BOOLEAN : no = FALSE
        OBVIOUS
    <2>6. PICK kind \in AllKinds : kind = "get"
        BY DEF AllKinds
    <2>7. PICK x : x = NewId
        OBVIOUS
    <2>8. /\ Free # {} /\ UNCHANGED <<queue, flight, cycle, begun>>
          /\ reqs' = [reqs EXCEPT ![x] = NewRequest(kind, k, n, no, needy)]
          /\ threads' = threads \cup {[by |-> by, cp |-> e, req |-> x, todo |-> Sends(x, S)]}
        BY <1>1, <1>3, <2>1, <2>2, <2>3, <2>4, <2>5, <2>6, <2>7 DEF initiate_needed, stores
    <2>9. kind \notin RefreshKinds
        BY <2>6 DEF RefreshKinds
    <2>10. Makes(x, kind, k, n, no, needy, S)
        BY <2>3, <2>5, <2>6, <2>7, <2>8 DEF Makes
    <2>11. IsSent(x, S)
        BY ONLY Answering, Inv', <2>8, <2>9, <2>10, BeginSends
    <2>12. InTurn(kind, no, S)
        BY <2>8, <2>9 DEF InTurn
    <2>13. UNCHANGED <<queue, flight, cycle, load>>
        BY <2>8
    <2> QED BY ONLY Answering, Inv', <2>10, <2>11, <2>12, <2>13, AllocAnswers
<1> QED BY <1>2, <1>3

\* The block that was found is put to the needy children.
LEMMA FillAnswers ==
    ASSUME Answering, Inv', NEW t \in threads, Fill(t), UNCHANGED load
    PROVE Answering' /\ (OutstandingExact => OutstandingExact')
<1>1. PICK i : i = Head(t.todo)
    OBVIOUS
<1>2. Inv /\ Typed /\ Tidy
    BY DEF Answering, Ways
<1>3. PICK S : S = reqs[i.req].m_needy
    OBVIOUS
<1>4. i.op = "fill" /\ i.req \in Ids /\ S # {} /\ S \in SUBSET Children
    <2>1. i.op = "fill"
        BY <1>1 DEF Fill
    <2>2. ItemOK(i, reqs)
        BY <1>1, <1>2, HeadOf
    <2> QED BY <1>2, <1>3, <2>1, <2>2 DEF ItemOK, Inv, Shapes, RequestOK
<1>5. PICK n \in Nat \ {0} : n = Cardinality(S)
    <2>1. IsFiniteSet(S) /\ Cardinality(S) \in Nat
        BY <1>4, SomeChildren
    <2>2. Cardinality(S) # 0
        BY <1>4, <2>1, FS_EmptySet
    <2> QED BY <2>1, <2>2
<1>6. PICK x : x = NewId
    OBVIOUS
<1>7. PICK k : k = reqs[i.req].key
    OBVIOUS
<1>8. PICK needy \in SUBSET Children : needy = {}
    OBVIOUS
<1>9. PICK no \in BOOLEAN : no = FALSE
    OBVIOUS
<1>10. PICK kind \in AllKinds : kind = "put"
    BY DEF AllKinds
<1>11. PICK f : f = Sends(x, S)
    OBVIOUS
<1>12. /\ Free # {} /\ Continue(t, f \o Tail(t.todo)) /\ UNCHANGED <<queue, flight, cycle, begun>>
       /\ reqs' = [reqs EXCEPT ![x] = NewRequest(kind, k, n, no, needy)]
    BY <1>1, <1>3, <1>5, <1>6, <1>7, <1>8, <1>9, <1>10, <1>11 DEF Fill, kids, stores
<1>13. x \in Ids /\ Unused(x)
    BY <1>2, <1>6, <1>12, NewIdUnused
<1>14. ~Tell(x) /\ \A d \in Children : ~Asked(x, d) /\ ~Sent(x, d)
    BY <1>13, NothingLeft
<1>15. /\ IsList(f)
       /\ \A s : ~HasIn(f, Telling(s)) /\ OneIn(f, Telling(s))
       /\ \A s, d : /\ OneIn(f, Asking(s, d)) /\ OneIn(f, Sending(s, d))
                    /\ HasIn(f, Asking(s, d)) <=> s = x /\ d \in S
                    /\ HasIn(f, Sending(s, d)) <=> s = x /\ d \in S
       /\ \A P : (\A d \in S : Do("send", x, d) \in P) => AllIn(f, P)
    BY <1>4, <1>11, <1>13, SendsIn
<1>16. \A s, d : i \notin Telling(s) /\ i \notin Asking(s, d) /\ i \notin Sending(s, d)
    BY <1>4 DEF Telling, Asking, Sending, AskOps, Answers
<1>17. ASSUME NEW s \in Ids PROVE AtMostOne(Telling(s))' /\ (Tell(s)' <=> Tell(s))
    <2>1. PICK P : P = Telling(s)
        OBVIOUS
    <2>2. AtMostOne(P) /\ OneIn(f, P) /\ ~HasIn(f, P) /\ Head(t.todo) \notin P
        BY <1>1, <1>2, <1>15, <1>16, <2>1, OnceEach
    <2>3. AtMostOne(P)' /\ (InThreads(P)' <=> HasIn(f, P) \/ (InThreads(P) /\ Head(t.todo) \notin P))
        BY <1>2, <1>12, <1>15, <2>2, GoesOn
    <2> QED BY <2>1, <2>2, <2>3 DEF Tell
<1>18. ASSUME NEW s \in Ids, NEW d \in Children
       PROVE /\ AtMostOne(Asking(s, d))'
             /\ Asked(s, d)' <=> Asked(s, d) \/ (s = x /\ d \in S)
             /\ Sent(s, d)' <=> Sent(s, d) \/ (s = x /\ d \in S)
    <2>1. PICK P : P = Asking(s, d)
        OBVIOUS
    <2>2. PICK Q : Q = Sending(s, d)
        OBVIOUS
    <2>3. /\ AtMostOne(P) /\ OneIn(f, P) /\ (HasIn(f, P) <=> s = x /\ d \in S)
          /\ HasIn(f, P) => ~InThreads(P)
        BY <1>2, <1>14, <1>15, <2>1, OnceEach DEF Asked
    <2>4. /\ AtMostOne(Q) /\ OneIn(f, Q) /\ (HasIn(f, Q) <=> s = x /\ d \in S)
          /\ HasIn(f, Q) => ~InThreads(Q)
        BY <1>2, <1>14, <1>15, <2>2, OnceEach DEF Sent
    <2>5. AtMostOne(P)' /\ (InThreads(P)' <=> HasIn(f, P) \/ (InThreads(P) /\ Head(t.todo) \notin P))
        BY <1>2, <1>12, <1>15, <2>3, GoesOn
    <2>6. AtMostOne(Q)' /\ (InThreads(Q)' <=> HasIn(f, Q) \/ (InThreads(Q) /\ Head(t.todo) \notin Q))
        BY <1>2, <1>12, <1>15, <2>4, GoesOn
    <2>7. Head(t.todo) \notin P /\ Head(t.todo) \notin Q
        BY <1>1, <1>16, <2>1, <2>2
    <2> QED BY <2>1, <2>2, <2>3, <2>4, <2>5, <2>6, <2>7 DEF Asked, Sent
<1>19. \A u \in threads' : AllIn(u.todo, Fitting(u.by, u.req, reqs', load))
    <2>1. PICK q : q = reqs'
        OBVIOUS
    <2>2. q[x].kind = kind /\ \A s \in Ids \ {x} : q[s] = reqs[s]
        <3>1. q[x] = NewRequest(kind, k, n, no, needy) /\ \A s \in Ids \ {x} : q[s] = reqs[s]
            BY <1>2, <1>12, <1>13, <2>1 DEF Inv, Shapes
        <3> QED BY <3>1 DEF NewRequest
    <2>3. PICK l : l = load
        OBVIOUS
    <2>4. \A w \in threads : AllIn(w.todo, Fitting(w.by, w.req, q, l))
        BY <1>2, <1>13, <2>2, <2>3, KindsFit
    <2>5. PICK F : F = Fitting(t.by, t.req, q, l)
        OBVIOUS
    <2>6. \A d \in S : Do("send", x, d) \in F
        BY <1>4, <1>10, <1>13, <2>2, <2>5 DEF Do, Fitting, Item, Ops, BadNews, RefreshKinds
    <2>7. AllIn(f, F)
        BY <1>15, <2>6
    <2>8. \A u \in threads' : AllIn(u.todo, Fitting(u.by, u.req, q, l))
        BY <1>2, <1>12, <1>15, <2>4, <2>5, <2>7, GoesOnFit
    <2> QED BY <2>1, <2>3, <2>8
<1>20. Tidy'
    BY <1>17, <1>18 DEF Tidy
<1>21. Makes(x, kind, k, n, no, needy, S)
    BY <1>4, <1>5, <1>6, <1>8, <1>9, <1>10, <1>12 DEF Makes
<1>22. IsSent(x, S)
    BY <1>17, <1>18, <1>19, <1>20 DEF IsSent
<1>23. InTurn(kind, no, S)
    BY <1>10, <1>12 DEF InTurn, RefreshKinds
<1>24. UNCHANGED <<queue, flight, cycle, load>>
    BY <1>12
<1> QED BY ONLY Answering, Inv', <1>21, <1>22, <1>23, <1>24, AllocAnswers

-----------------------------------------------------------------------------
(* Every step *)

\* At the start there is nothing to answer.
LEMMA InitAnswering == Init => Answering /\ OutstandingExact
<1> SUFFICES ASSUME Init PROVE Answering /\ OutstandingExact
    OBVIOUS
<1>1. /\ threads = {} /\ flight = {} /\ begun = FALSE
      /\ reqs = [r \in Ids |-> NoRequest]
      /\ queue = [c \in Children |-> [cl \in Classes |-> <<>>]]
      /\ cycle = [c \in Children |-> FALSE]
    BY DEF Init
<1>2. \A P : ~InThreads(P) /\ AtMostOne(P)
    BY <1>1 DEF InThreads, AtMostOne
<1>3. ASSUME NEW r \in Ids
      PROVE /\ reqs[r].kind = "none" /\ reqs[r].m_cmpl = FALSE /\ reqs[r].m_needy = {}
            /\ reqs[r].m_outstanding = 0 /\ reqs[r].upcalls = <<>> /\ reqs[r].m_succeeded = FALSE
    BY <1>1 DEF NoRequest, NewRequest
<1>4. \A r, c : ~Tell(r) /\ ~Asked(r, c) /\ ~Sent(r, c)
    BY <1>2 DEF Tell, Asked, Sent
<1>5. \A c \in Children, cl \in Classes : queue[c][cl] = <<>>
    BY <1>1
<1>6. \A r : \A c \in Children : ~QueuedAt(r, c)
    BY <1>5 DEF QueuedAt, Elements
<1>7. Typed
    <2>1. ASSUME NEW r \in Ids PROVE RequestFits(reqs[r], load)
        <3>1. <<>> \in Seq({"good", "bad"})
            OBVIOUS
        <3> QED BY <1>3, <3>1 DEF RequestFits, RefreshKinds
    <2>2. queue \in [Children -> [Classes -> Seq(Ids)]]
        BY <1>1
    <2> QED BY <1>1, <2>1, <2>2 DEF Typed
<1>8. Ways
    <2>1. Tidy
        BY <1>2 DEF Tidy
    <2>2. Queues
        BY <1>5 DEF Queues, QueueOK
    <2>3. Separate
        BY <1>1, <1>4 DEF Separate
    <2> QED BY <1>7, <2>1, <2>2, <2>3 DEF Ways
<1>9. Enough /\ OutstandingExact
    <2>1. ASSUME NEW r \in Ids PROVE Cardinality(Awaited(r)) = 0
        <3>1. Awaited(r) = {}
            BY <1>1, <1>4, <1>6, <1>7, AwaitedIs DEF Waiting
        <3> QED BY <3>1, FS_EmptySet
    <2>2. \A r \in Ids : reqs[r].m_outstanding = Cardinality(Awaited(r))
        BY <1>3, <2>1, Zenon
    <2>3. \A r \in Ids : Cardinality(Awaited(r)) <= reqs[r].m_outstanding
        BY <2>1, <2>2
    <2> QED BY <2>2, <2>3 DEF Enough, OutstandingExact
<1>10. Told
    <2>1. \A r \in Ids : reqs[r].upcalls = <<>> /\ ~reqs[r].m_cmpl /\ ~Tell(r)
        BY <1>3, <1>4, Zenon
    <2>2. Len(<<>>) <= 1
        OBVIOUS
    <2>3. \A r \in Ids : Len(reqs[r].upcalls) <= 1
        BY <2>1, <2>2, Zenon
    <2> QED BY <2>1, <2>3, Zenon DEF Told, ToldFits
<1>11. Cycles
    <2>1. \A c : Flying(c) = {} /\ SentTo(c) = {}
        BY <1>1, <1>4 DEF Flying, SentTo
    <2>2. (\A r \in Ids : ~Started(r)) /\ ~Target
        BY <1>1, <1>3 DEF Started, Target
    <2>3. ASSUME NEW c \in Children PROVE ChainAt(c)
        <3>1. PICK q : q = queue[c]["ref"]
            OBVIOUS
        <3>2. q = <<>> /\ Len(q) = 0
            BY <1>5, <3>1 DEF Classes
        <3>3. Linked(0, q, 0, reqs)
            BY <3>2 DEF Linked, BeforeAt
        <3>4. Num(cycle[c]) = 0 /\ Num(Target) = 0
            BY <1>1, <2>2 DEF Num
        <3>5. ChainOK(0, {}, q, {}, reqs, 0)
            BY <3>3 DEF ChainOK
        <3> QED BY <2>1, <3>1, <3>4, <3>5 DEF ChainAt
    <2> QED BY <1>1, <2>1, <2>2, <2>3 DEF Cycles, OneFlight, OneSend, OneStart, Chains
<1> QED BY <1>8, <1>9, <1>10, <1>11, InitInv DEF Answering

\* One thing that a thread has to do.
LEMMA RunAnswers ==
    ASSUME Answering, Inv', NEW t \in threads, Run(t), UNCHANGED load
    PROVE Answering' /\ (OutstandingExact => OutstandingExact')
<1>1. CASE Enqueue(t)
    BY <1>1, EnqueueStep
<1>2. CASE Complete(t) \/ Fail(t)
    BY <1>2, AnswerAnswers
<1>3. CASE Upcall(t)
    BY <1>3, UpcallStep
<1>4. CASE cancel_get(t)
    BY <1>4, CancelAnswers
<1>5. CASE Fill(t)
    BY <1>5, FillAnswers
<1>6. CASE needed_keys_append(t) \/ done(t) \/ uh_unsaturated(t)
    <2>1. /\ Continue(t, Tail(t.todo)) /\ Head(t.todo).op \in {"need", "done", "unsat"}
          /\ UNCHANGED <<reqs, queue, flight, cycle, begun, load>>
        BY <1>6 DEF needed_keys_append, done, uh_unsaturated, kids, stores
    <2> QED BY <2>1, DropStep
<1> QED BY <1>1, <1>2, <1>3, <1>4, <1>5, <1>6 DEF Run

\* Every step keeps the invariant, and keeps m_outstanding exact where nothing throws.
LEMMA StepAnswering ==
    ASSUME Answering, [Next /\ UNCHANGED load]_<<vars, load>>
    PROVE Answering' /\ (NoThrow /\ OutstandingExact => OutstandingExact')
<1>1. UNCHANGED load /\ Inv'
    BY StepInv DEF Answering
<1>2. CASE Call
    BY <1>1, <1>2, CallAnswers
<1>3. ASSUME NEW t \in threads, Run(t) PROVE Answering' /\ (OutstandingExact => OutstandingExact')
    BY <1>1, <1>3, RunAnswers
<1>4. ASSUME NEW c \in Children, Initiate(c)
      PROVE Answering' /\ (OutstandingExact => OutstandingExact')
    <2>1. CASE initiate_requests(c)
        BY <1>1, <2>1, InitiateStep
    <2>2. CASE initiate_needed(c)
        BY <1>1, <2>2, NeededAnswers
    <2>3. CASE initiate_end(c)
        <3>1. UNCHANGED <<reqs, queue, flight, cycle, begun, load, threads>>
            BY <1>1, <2>3 DEF initiate_end, stores
        <3> QED BY <1>1, <3>1, IdleStep
    <2> QED BY <1>4, <2>1, <2>2, <2>3 DEF Initiate
<1>5. ASSUME NEW r \in Ids, NEW c \in Children, Perform(c, r)
      PROVE Answering' /\ (NoThrow /\ OutstandingExact => OutstandingExact')
    BY <1>1, <1>5, PerformAnswers
<1>6. ASSUME NEW s \in Syncers, SyncStart(s) \/ Sync(s)
      PROVE Answering' /\ (OutstandingExact => OutstandingExact')
    <2>1. UNCHANGED <<reqs, queue, flight, cycle, begun, load, threads>>
        BY <1>1, <1>6 DEF SyncStart, Sync, SyncKid, SyncCheck, kids, stores
    <2> QED BY <1>1, <2>1, IdleStep
<1>7. CASE UNCHANGED <<vars, load>>
    <2>1. UNCHANGED <<reqs, queue, flight, cycle, begun, load, threads>>
        BY <1>7 DEF vars
    <2> QED BY <1>1, <2>1, IdleStep
<1> QED BY <1>2, <1>3, <1>4, <1>5, <1>6, <1>7 DEF Next

\* A refresh that has begun was started by a client of this load.
Began == begun => "start" \in load.kinds

\* It begins with the upcall of a start.
LEMMA StepBegan ==
    ASSUME Answering, Began, [Next /\ UNCHANGED load]_<<vars, load>>
    PROVE Began'
<1>1. UNCHANGED load /\ Inv /\ Typed
    BY DEF Answering, Ways
<1>2. ASSUME begun' => begun PROVE Began'
    BY <1>1, <1>2 DEF Began
<1>3. CASE Call
    <2>1. PICK kind, k : Submit(kind, k)
        BY <1>3 DEF Call, bs_block_get_async, bs_block_put_async, bs_refresh_start_async,
               bs_refresh_block_async, bs_refresh_finish_async, bs_head_insert_async,
               bs_head_follow_async
    <2> QED BY <1>2, <2>1 DEF Submit
<1>4. ASSUME NEW t \in threads, Run(t) PROVE Began'
    <2>1. CASE Upcall(t)
        <3>1. PICK i : i = Head(t.todo)
            OBVIOUS
        <3>2. i.op \in {"upgood", "upbad"} /\ begun' = (begun \/ (reqs[i.req].kind = "start" /\ i.op = "upgood"))
            BY <2>1, <3>1 DEF Upcall
        <3>3. CASE reqs[i.req].kind = "start"
            <4>1. i \in Fitting(t.by, t.req, reqs, load)
                BY <1>1, <3>1, FirstFits
            <4>2. i.req \in Ids
                BY <4>1 DEF Fitting, Item
            <4>3. "start" \in load.kinds
                BY <1>1, <3>3, <4>2 DEF Typed, RequestFits
            <4> QED BY <1>1, <4>3 DEF Began
        <3>4. CASE reqs[i.req].kind # "start"
            BY <1>2, <3>2, <3>4
        <3> QED BY <3>3, <3>4
    <2>2. CASE ~Upcall(t)
        <3>1. UNCHANGED begun
            BY <1>4, <2>2 DEF Run, Enqueue, Complete, Fail, cancel_get, Fill,
                              needed_keys_append, done, uh_unsaturated
        <3> QED BY <1>2, <3>1
    <2> QED BY <2>1, <2>2
<1>5. ASSUME NEW c \in Children, Initiate(c) PROVE Began'
    BY <1>2, <1>5 DEF Initiate, initiate_requests, initiate_needed, initiate_end
<1>6. ASSUME NEW r \in Ids, NEW c \in Children, Perform(c, r) PROVE Began'
    BY <1>2, <1>6 DEF Perform
<1>7. ASSUME NEW s \in Syncers, SyncStart(s) \/ Sync(s) PROVE Began'
    BY <1>2, <1>7 DEF SyncStart, Sync, SyncKid, SyncCheck
<1>8. CASE UNCHANGED <<vars, load>>
    BY <1>2, <1>8 DEF vars
<1> QED BY <1>3, <1>4, <1>5, <1>6, <1>7, <1>8 DEF Next

\* A start that is on its way to a child has not been told to its client.
LEMMA StartUntold ==
    ASSUME Answering, NEW r \in Ids, NEW c \in Children, reqs[r].kind = "start", Waiting(r, c)
    PROVE Started(r)
<1>1. Inv /\ Typed /\ Enough /\ Told
    BY DEF Answering, Ways
<1>2. reqs[r].m_needy = {}
    BY <1>1 DEF Typed, RequestFits, RefreshKinds
<1>3. PICK A \in SUBSET Children : A = Awaited(r)
    BY DEF Awaited
<1>4. c \in A
    BY <1>1, <1>3, AwaitedIs
<1>5. IsFiniteSet(A) /\ Cardinality(A) \in Nat
    BY SomeChildren
<1>6. Cardinality(A) # 0
    BY <1>4, <1>5, FS_EmptySet
<1>7. reqs[r].m_outstanding \in Int /\ Cardinality(A) <= reqs[r].m_outstanding
    BY <1>1, <1>2, <1>3 DEF Enough, Inv, Shapes, RequestOK
<1>8. ~ToldOf(reqs[r])
    BY <1>5, <1>6, <1>7 DEF ToldOf
<1> QED BY <1>1, <1>8 DEF Told, ToldFits, Started

\* Once the client has been told that its refresh has started, each child has its cycle.
LEMMA BegunAll ==
    ASSUME Answering, begun, load.faulty = {}, NEW c \in Children
    PROVE cycle[c]
<1>1. Inv /\ Typed /\ Tidy /\ OneStart /\ ChainAt(c)
    BY DEF Answering, Ways, Cycles, Chains
<1>2. \A r \in Ids : ~Started(r)
    BY <1>1 DEF OneStart
<1>3. PICK q \in Seq(Ids) : q = queue[c]["ref"]
    BY <1>1 DEF Typed, Classes
<1>4. PICK F : F = Flying(c)
    OBVIOUS
<1>5. PICK D : D = SentTo(c)
    OBVIOUS
<1>6. PICK cy : cy = Num(cycle[c])
    OBVIOUS
<1>7. ASSUME NEW r \in F \cup D \cup Elements(q) PROVE reqs[r].kind # "start"
    <2>1. r \in Ids
        BY <1>3, <1>4, <1>5 DEF Flying, SentTo, Elements
    <2>2. Waiting(r, c)
        <3>1. CASE r \in F
            BY <1>4, <3>1 DEF Flying, Waiting
        <3>2. CASE r \in D
            BY <1>1, <1>5, <2>1, <3>2, OnceEach DEF SentTo, Waiting
        <3>3. CASE r \in Elements(q)
            BY <1>3, <3>3 DEF Waiting, QueuedAt, Classes
        <3> QED BY <3>1, <3>2, <3>3
    <2> QED BY <1>2, <2>1, <2>2, StartUntold
<1>8. Num(Target) = 1
    BY DEF Target, Num
<1>9. ChainOK(cy, F, q, D, reqs, 1)
    BY <1>1, <1>3, <1>4, <1>5, <1>6, <1>8 DEF ChainAt
<1>10. cy = 1
    BY <1>7, <1>9, ChainStarted
<1>11. cycle[c] \in BOOLEAN
    BY <1>1 DEF Typed
<1> QED BY <1>6, <1>10, <1>11 DEF Num

\* A completion is called at most once, and that of every request but a refresh start at
\* least once before the last reference to the request is gone.
OnceUnlessStart ==
    \A r \in Ids :
        /\ Len(reqs[r].upcalls) <= 1
        /\ Unused(r) /\ reqs[r].m_cmpl /\ reqs[r].kind # "start" => reqs[r].upcalls # <<>>

\* Whatever fails, whatever throws and however answers, canceled gets and upcalls
\* interleave, no client is told twice and no request is given up before its client was
\* told, but for a refresh start that one child has done and the last one refuses:
\* rs_error then leaves the answer to a child that has already answered.
THEOREM OnceUnlessStartHolds == Spec => []OnceUnlessStart
<1>1. ASSUME Answering PROVE OnceUnlessStart
    <2>1. Inv /\ Typed /\ Told
        BY <1>1 DEF Answering, Ways
    <2>2. \A r \in Ids : Len(reqs[r].upcalls) <= 1
        BY <2>1 DEF Told, ToldFits
    <2>3. ASSUME NEW r \in Ids, Unused(r), reqs[r].m_cmpl, reqs[r].kind # "start"
          PROVE reqs[r].upcalls # <<>>
        BY <2>1, <2>3, AnsweredBefore
    <2> QED BY <2>2, <2>3 DEF OnceUnlessStart
<1> QED BY <1>1, InitAnswering, StepAnswering, PTL DEF Spec

\* A client's completion is called at most once, and before the last reference to its
\* request is gone (AnsweredOnce), for any number of children, requests and threads,
\* where no child refuses a refresh start: the completion routines decide under
\* m_vbsreqmutex who is to tell the client and tell it after the unlock, while gets are
\* canceled and other children answer.
THEOREM AnsweredOnceHolds == ASSUME SteadyStart PROVE Spec => []AnsweredOnce
<1>1. ASSUME Answering PROVE AnsweredOnce
    <2> SUFFICES ASSUME NEW r \in Ids
                 PROVE /\ Len(reqs[r].upcalls) <= 1
                       /\ Unused(r) /\ reqs[r].m_cmpl => reqs[r].upcalls # <<>>
        BY DEF AnsweredOnce
    <2>1. Inv /\ Typed /\ Told
        BY <1>1 DEF Answering, Ways
    <2>2. Len(reqs[r].upcalls) <= 1
        BY <2>1 DEF Told, ToldFits
    <2>3. reqs[r].kind = "start" => load.faulty = {}
        <3>1. load \in Loads
            BY <2>1 DEF Inv, Shapes
        <3>2. reqs[r].kind = "start" => "start" \in load.kinds
            BY <2>1 DEF Typed, RequestFits
        <3> QED BY <3>1, <3>2 DEF SteadyStart
    <2> QED BY <2>1, <2>2, <2>3, AnsweredBefore
<1> QED BY <1>1, InitAnswering, StepAnswering, PTL DEF Spec

\* m_outstanding counts the children that have not answered (OutstandingExact), for any
\* number of children, requests and threads, where no child fails an operation that lets
\* its exception out of the loop: however enqueueing, answers and canceled gets
\* interleave, no answer is counted twice and none is lost.
THEOREM OutstandingExactHolds == ASSUME NoThrow PROVE Spec => []OutstandingExact
<1>1. Init => Answering /\ OutstandingExact
    BY InitAnswering
<1>2. /\ Answering /\ OutstandingExact /\ [Next /\ UNCHANGED load]_<<vars, load>>
      => (Answering /\ OutstandingExact)'
    BY StepAnswering
<1> QED BY <1>1, <1>2, PTL DEF Spec

\* "we need to be sure that *all* blockstores have seen the START before we start sending
\* refresh requests on the RID" (StartMeansAll), for any number of children and requests,
\* where no child refuses a start: rs_complete tells the client with the last child.
THEOREM StartMeansAllHolds == ASSUME SteadyStart PROVE Spec => []StartMeansAll
<1>1. Init => Answering /\ Began
    BY InitAnswering DEF Init, Began
<1>2. /\ Answering /\ Began /\ [Next /\ UNCHANGED load]_<<vars, load>>
      => (Answering /\ Began)'
    BY StepAnswering, StepBegan
<1>3. ASSUME Answering, Began PROVE StartMeansAll
    <2> SUFFICES ASSUME begun, NEW c \in Children PROVE cycle[c]
        BY DEF StartMeansAll
    <2>1. load \in Loads /\ "start" \in load.kinds
        BY <1>3 DEF Began, Answering, Inv, Shapes
    <2>2. load.faulty = {}
        BY <2>1 DEF SteadyStart
    <2> QED BY <1>3, <2>2, BegunAll
<1> QED BY <1>1, <1>2, <1>3, PTL DEF Spec
=============================================================================
