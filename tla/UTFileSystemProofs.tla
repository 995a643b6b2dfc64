-------------------------- MODULE UTFileSystemProofs --------------------------
(***************************************************************************)
(* The file system implements DurableFS, and no put purges a block that is *)
(* still needed, for any number of files, direct blocks and blocks under   *)
(* an indirect block, any values and any capacity of the block store.      *)
(*                                                                         *)
(* The invariant is about two trees over one set of blocks, the users' and *)
(* the published one.  InOrder: a block is found under its own reference,  *)
(* every object has references for the places below it only, and every     *)
(* reference that is followed is to a known block.  So a block that is new *)
(* at its place is in neither tree: a flush changes nothing that can be    *)
(* seen until the root is published.  DirtyAbove: the objects on the way   *)
(* to a dirty object are dirty, so that a flush, which stores a place      *)
(* before the one above it, gets to the root last.  Settled: what the root *)
(* is in each phase.                                                       *)
(*                                                                         *)
(* A tree is compared with another place by place, from the root down      *)
(* (PathInduction: paths have at most three parts).  A step then is one of *)
(* three kinds: blocks that nothing refers to go (SweptTree), dirty        *)
(* objects are added, dropped or changed (EditedTree), or one is stored    *)
(* and its parent refers to it (StoredTree).                               *)
(*                                                                         *)
(* What is kept (Kept) is said of the committed blocks, the part of the    *)
(* store's list no put can purge: that a block is in the store now says    *)
(* nothing of the next put.  The published tree is committed               *)
(* (PublishedKept), and so is every reference of the users' tree but the   *)
(* old ones of dirty inodes, which a refresh does not touch (TreeKept).  A *)
(* refresh cycle commits anew only what it touches, so it keeps the        *)
(* published tree only while the users' tree has all of its references     *)
(* (SoFar), and that a truncation to the full length drops none of them    *)
(* needs AllFilled.                                                        *)
(*                                                                         *)
(* The lists that a refresh touches are made with FlattenSeq.  Its members *)
(* are found by induction over the parts, for a set of numbers             *)
(* (SetInduction, from the least element of its complement).               *)
(***************************************************************************)
EXTENDS UTFileSystem, SequenceTheorems, WellFoundedInduction, TLAPS

-----------------------------------------------------------------------------
(* Numbers and lists *)

\* A set of numbers that is not empty has a least one.
LEMMA LeastNat ==
    ASSUME NEW T \in SUBSET Nat, T # {}
    PROVE  \E n \in T : \A m \in T : n <= m
<1> DEFINE R == {s \in Nat \X Nat : s[1] < s[2]}
<1>0. IsWellFoundedOn(R, Nat)
    BY NatLessThanWellFounded DEF OpToRel
<1>1. T \subseteq Nat
    OBVIOUS
<1>2. PICK n \in T : \A m \in T : ~(<<m, n>> \in R)
    <2> HIDE DEF R
    <2> QED BY <1>0, <1>1, WFMin
<1>3. ASSUME NEW m \in T PROVE n <= m
    <2>1. <<m, n>> \in Nat \X Nat /\ <<m, n>>[1] = m /\ <<m, n>>[2] = n
        OBVIOUS
    <2>2. ~(<<m, n>>[1] < <<m, n>>[2])
        BY <1>2, <2>1, Zenon
    <2> QED BY <2>1, <2>2
<1> QED BY <1>3

\* Induction up to n, for a set.
LEMMA SetInduction ==
    ASSUME NEW n \in Nat, NEW T, 0 \in T, \A i \in 1..n : i - 1 \in T => i \in T
    PROVE  0..n \subseteq T
<1> DEFINE U == {i \in 0..n : i \notin T}
<1> SUFFICES ASSUME U # {} PROVE FALSE
    OBVIOUS
<1>1. U \in SUBSET Nat
    OBVIOUS
<1>2. PICK i \in U : \A j \in U : i <= j
    BY <1>1, LeastNat
<1>3. i \in 1..n
    OBVIOUS
<1>4. i - 1 \in 0..n /\ i - 1 \notin U
    BY <1>2, <1>3
<1> QED BY <1>3, <1>4

\* FlattenSeq is the last of the sequences one gets by adding the parts one by one.
LEMMA FlattenParts ==
    ASSUME NEW X, NEW ss \in Seq(Seq(X))
    PROVE  \E F \in [0..Len(ss) -> Seq(X)] :
               /\ F[0] = <<>> /\ F[Len(ss)] = FlattenSeq(ss)
               /\ \A i \in 1..Len(ss) : F[i] = F[i - 1] \o ss[i]
<1> DEFINE Sums(F, n) == /\ F \in [0..n -> Seq(X)] /\ F[0] = <<>>
                         /\ \A i \in 1..n : F[i] = F[i - 1] \o ss[i]
           T == {n \in 0..Len(ss) : \E F : Sums(F, n)}
<1>0. Len(ss) \in Nat /\ \A i \in 1..Len(ss) : ss[i] \in Seq(X)
    OBVIOUS
<1>1. 0 \in T
    <2>1. Sums([i \in 0..0 |-> <<>>], 0)
        OBVIOUS
    <2> HIDE DEF Sums
    <2> QED BY <1>0, <2>1
<1>2. ASSUME NEW n \in 1..Len(ss), n - 1 \in T PROVE n \in T
    <2>1. PICK F : Sums(F, n - 1)
        BY <1>2
    <2> DEFINE G == [i \in 0..n |-> IF i = n THEN F[n - 1] \o ss[n] ELSE F[i]]
    <2>2. n \in Nat /\ n - 1 \in Nat /\ n - 1 \in 0..(n - 1) /\ n \in 0..Len(ss)
        BY <1>0
    <2>3. F[n - 1] \in Seq(X) /\ ss[n] \in Seq(X)
        BY <1>0, <2>1, <2>2
    <2>4. F[n - 1] \o ss[n] \in Seq(X)
        BY <2>3
    <2>5. \A i \in 0..n : G[i] \in Seq(X)
        BY <2>1, <2>2, <2>4
    <2>6. G[0] = <<>>
        BY <2>1, <2>2
    <2>7. ASSUME NEW i \in 1..n PROVE G[i] = G[i - 1] \o ss[i]
        <3>1. CASE i = n
            <4>1. n \in 0..n /\ n - 1 \in 0..n /\ n - 1 # n
                BY <2>2
            <4> QED BY <3>1, <4>1
        <3>2. CASE i # n
            <4>1. i \in 1..(n - 1) /\ i \in 0..n /\ i - 1 \in 0..n /\ i - 1 # n
                BY <2>2, <3>2
            <4>2. F[i] = F[i - 1] \o ss[i]
                BY <2>1, <4>1
            <4> QED BY <3>2, <4>1, <4>2
        <3> QED BY <3>1, <3>2
    <2>8. Sums(G, n)
        <3>1. G \in [0..n -> Seq(X)]
            BY <2>5
        <3> HIDE DEF G
        <3> QED BY <2>6, <2>7, <3>1
    <2> HIDE DEF G, Sums
    <2> QED BY <2>2, <2>8
<1>3. PICK F : Sums(F, Len(ss))
    <2>1. Len(ss) \in T
        <3> HIDE DEF T
        <3>1. 0..Len(ss) \subseteq T
            BY <1>0, <1>1, <1>2, SetInduction
        <3> QED BY <1>0, <3>1
    <2> HIDE DEF Sums
    <2> QED BY <2>1
<1>4. F[Len(ss)] = FlattenSeq(ss)
    <2>1. CASE Len(ss) = 0
        BY <1>3, <2>1, EmptySeq DEF FlattenSeq
    <2>2. CASE Len(ss) # 0
        <3> DEFINE flat(f) == f = [i \in 1..Len(ss) |-> IF i = 1 THEN ss[i] ELSE f[i - 1] \o ss[i]]
                   G == [i \in 1..Len(ss) |-> F[i]]
        <3>0. 1 \in 1..Len(ss)
            BY <1>0, <2>2
        <3>1. F[1] = ss[1]
            <4>1. ss[1] \in Seq(X)
                BY <1>0, <3>0
            <4>2. F[1] = F[1 - 1] \o ss[1] /\ F[0] = <<>>
                BY <1>3, <3>0
            <4>3. 1 - 1 = 0 /\ <<>> \o ss[1] = ss[1]
                BY <4>1
            <4> QED BY <4>2, <4>3, Zenon
        <3>2. flat(G)
            <4>1. ASSUME NEW i \in 1..Len(ss) PROVE F[i] = IF i = 1 THEN ss[i] ELSE G[i - 1] \o ss[i]
                <5>1. CASE i # 1
                    <6>1. i - 1 \in 1..Len(ss)
                        BY <1>0, <5>1
                    <6> QED BY <1>3, <5>1, <6>1
                <5> QED BY <3>1, <5>1
            <4> QED BY <4>1
        <3>3. PICK f : flat(f) /\ FlattenSeq(ss) = f[Len(ss)]
            <4>1. FlattenSeq(ss) = (CHOOSE g : flat(g))[Len(ss)]
                BY <2>2 DEF FlattenSeq
            <4> HIDE DEF flat, G
            <4>2. flat(CHOOSE g : flat(g))
                BY <3>2
            <4> QED BY <4>1, <4>2
        <3>4. \A j \in 1..Len(ss) : f[j] = IF j = 1 THEN ss[j] ELSE f[j - 1] \o ss[j]
            BY <3>3
        <3> DEFINE D == {i \in 0..Len(ss) : i = 0 \/ f[i] = F[i]}
        <3>5. 0 \in D
            BY <1>0
        <3>6. ASSUME NEW i \in 1..Len(ss), i - 1 \in D PROVE i \in D
            <4>1. CASE i = 1
                BY <3>0, <3>1, <3>4, <4>1
            <4>2. CASE i # 1
                <5>1. i - 1 # 0 /\ i \in 0..Len(ss)
                    BY <1>0, <4>2
                <5>2. f[i - 1] = F[i - 1]
                    BY <3>6, <5>1
                <5>3. F[i] = F[i - 1] \o ss[i]
                    BY <1>3
                <5> QED BY <3>4, <4>2, <5>1, <5>2, <5>3
            <4> QED BY <4>1, <4>2
        <3>7. Len(ss) \in D
            <4> HIDE DEF D
            <4>1. 0..Len(ss) \subseteq D
                BY <1>0, <3>5, <3>6, SetInduction
            <4> QED BY <1>0, <4>1
        <3> QED BY <2>2, <3>3, <3>7
    <2> QED BY <2>1, <2>2
<1> QED BY <1>3, <1>4

\* The members of a sequence put together from two.
LEMMA ConcatMembers ==
    ASSUME NEW X, NEW s \in Seq(X), NEW t \in Seq(X)
    PROVE  s \o t \in Seq(X) /\ ToSet(s \o t) = ToSet(s) \cup ToSet(t)
<1>1. /\ s \o t \in Seq(X) /\ Len(s \o t) = Len(s) + Len(t) /\ Len(s) \in Nat /\ Len(t) \in Nat
      /\ \A i \in 1..Len(s) : (s \o t)[i] = s[i]
      /\ \A i \in 1..Len(t) : (s \o t)[Len(s) + i] = t[i]
    OBVIOUS
<1>2. ToSet(s \o t) = {(s \o t)[i] : i \in 1..Len(s \o t)}
    BY <1>1 DEF ToSet
<1>3. ToSet(s) = {s[i] : i \in 1..Len(s)} /\ ToSet(t) = {t[i] : i \in 1..Len(t)}
    BY DEF ToSet
<1>4. ASSUME NEW i \in 1..Len(s \o t) PROVE (s \o t)[i] \in ToSet(s) \cup ToSet(t)
    <2>1. CASE i <= Len(s)
        BY <1>1, <1>3, <2>1
    <2>2. CASE i > Len(s)
        <3>1. i - Len(s) \in 1..Len(t) /\ i = Len(s) + (i - Len(s))
            BY <1>1, <2>2
        <3>2. (s \o t)[i] = t[i - Len(s)]
            BY <1>1, <3>1, Zenon
        <3> QED BY <1>3, <3>1, <3>2
    <2> QED BY <1>1, <2>1, <2>2
<1>5. ASSUME NEW i \in 1..Len(s) PROVE s[i] \in ToSet(s \o t)
    <2>1. i \in 1..Len(s \o t)
        BY <1>1
    <2> QED BY <1>1, <1>2, <2>1
<1>6. ASSUME NEW i \in 1..Len(t) PROVE t[i] \in ToSet(s \o t)
    <2>1. Len(s) + i \in 1..Len(s \o t)
        BY <1>1
    <2> QED BY <1>1, <1>2, <2>1
<1> QED BY <1>1, <1>2, <1>3, <1>4, <1>5, <1>6

\* The members of FlattenSeq are the members of its parts.
LEMMA FlattenMembers ==
    ASSUME NEW X, NEW ss \in Seq(Seq(X))
    PROVE  /\ FlattenSeq(ss) \in Seq(X)
           /\ ToSet(FlattenSeq(ss)) = UNION {ToSet(ss[i]) : i \in 1..Len(ss)}
<1>1. PICK F \in [0..Len(ss) -> Seq(X)] :
          /\ F[0] = <<>> /\ F[Len(ss)] = FlattenSeq(ss)
          /\ \A i \in 1..Len(ss) : F[i] = F[i - 1] \o ss[i]
    BY FlattenParts
<1> DEFINE U(n) == UNION {ToSet(ss[i]) : i \in 1..n}
           T == {n \in 0..Len(ss) : ToSet(F[n]) = U(n)}
<1>2. Len(ss) \in Nat /\ \A i \in 1..Len(ss) : ss[i] \in Seq(X)
    OBVIOUS
<1>3. 0 \in T
    <2>1. ToSet(F[0]) = {} /\ U(0) = {}
        BY <1>1 DEF ToSet
    <2> QED BY <1>2, <2>1
<1>4. ASSUME NEW n \in 1..Len(ss), n - 1 \in T PROVE n \in T
    <2>1. n - 1 \in 0..Len(ss) /\ n \in 0..Len(ss)
        BY <1>2
    <2>2. ToSet(F[n]) = ToSet(F[n - 1]) \cup ToSet(ss[n])
        <3>1. F[n - 1] \in Seq(X) /\ ss[n] \in Seq(X)
            BY <1>2, <2>1
        <3>2. F[n] = F[n - 1] \o ss[n]
            BY <1>1
        <3> QED BY <3>1, <3>2, ConcatMembers
    <2>3. 1..n = 1..(n - 1) \cup {n}
        BY <1>2
    <2>4. U(n) = U(n - 1) \cup ToSet(ss[n])
        BY <2>3
    <2> HIDE DEF U
    <2> QED BY <1>4, <2>1, <2>2, <2>4
<1>5. Len(ss) \in T
    <2> HIDE DEF T
    <2>1. 0..Len(ss) \subseteq T
        BY <1>2, <1>3, <1>4, SetInduction
    <2> QED BY <1>2, <2>1
<1> QED BY <1>1, <1>2, <1>5

\* What Without leaves of a sequence.
LEMMA WithoutMembers ==
    ASSUME NEW X, NEW s \in Seq(X), NEW S
    PROVE  Without(s, S) \in Seq(X) /\ ToSet(Without(s, S)) = ToSet(s) \ S
<1> DEFINE ss == [i \in 1..Len(s) |-> IF s[i] \in S THEN <<>> ELSE <<s[i]>>]
<1>1. ss \in Seq(Seq(X)) /\ Len(ss) = Len(s)
    <2>1. \A i \in 1..Len(s) : ss[i] \in Seq(X)
        OBVIOUS
    <2> QED BY <2>1
<1>2. \A i \in 1..Len(s) : ToSet(ss[i]) = {s[i]} \ S
    BY DEF ToSet
<1>3. ToSet(s) = {s[i] : i \in 1..Len(s)}
    BY DEF ToSet
<1>4. Without(s, S) = FlattenSeq(ss)
    BY DEF Without
<1> HIDE DEF ss
<1>5. /\ FlattenSeq(ss) \in Seq(X)
      /\ ToSet(FlattenSeq(ss)) = UNION {ToSet(ss[i]) : i \in 1..Len(ss)}
    BY <1>1, FlattenMembers
<1> QED BY <1>1, <1>2, <1>3, <1>4, <1>5

\* What follows in s follows in Without(s, S).
LEMMA WithoutSuffix ==
    ASSUME NEW X, NEW s \in Seq(X), NEW S, NEW m \in 0..Len(s)
    PROVE  LET a == Without(SubSeq(s, 1, m), S)
               w == Without(s, S)
           IN  /\ Len(a) \in 0..Len(w)
               /\ \A j \in (m + 1)..Len(s) :
                      s[j] \notin S => \E k \in (Len(a) + 1)..Len(w) : w[k] = s[j]
<1> DEFINE Ones(t) == [i \in 1..Len(t) |-> IF t[i] \in S THEN <<>> ELSE <<t[i]>>]
           p == SubSeq(s, 1, m)
<1>0. Len(s) \in Nat /\ m \in Nat /\ m <= Len(s)
    OBVIOUS
<1>1. p \in Seq(X) /\ Len(p) = m /\ \A i \in 1..m : p[i] = s[i]
    BY <1>0, SubSeqProperties
<1> HIDE DEF p
<1>2. ASSUME NEW t \in Seq(X)
      PROVE  Ones(t) \in Seq(Seq(X)) /\ Len(Ones(t)) = Len(t)
    <2>1. \A i \in 1..Len(t) : Ones(t)[i] \in Seq(X)
        OBVIOUS
    <2> QED BY <2>1
<1>3. PICK F \in [0..Len(s) -> Seq(X)] :
          /\ F[0] = <<>> /\ F[Len(s)] = Without(s, S)
          /\ \A i \in 1..Len(s) : F[i] = F[i - 1] \o (IF s[i] \in S THEN <<>> ELSE <<s[i]>>)
    <2>1. PICK ss : ss = Ones(s)
        OBVIOUS
    <2>2. \A i \in 1..Len(s) : ss[i] = IF s[i] \in S THEN <<>> ELSE <<s[i]>>
        BY <2>1
    <2>3. Without(s, S) = FlattenSeq(ss)
        BY <2>1 DEF Without
    <2>4. ss \in Seq(Seq(X)) /\ Len(ss) = Len(s)
        BY <1>2, <2>1
    <2> HIDE DEF Ones
    <2>5. PICK F \in [0..Len(ss) -> Seq(X)] :
              /\ F[0] = <<>> /\ F[Len(ss)] = FlattenSeq(ss)
              /\ \A i \in 1..Len(ss) : F[i] = F[i - 1] \o ss[i]
        BY <2>4, FlattenParts
    <2> QED BY <2>2, <2>3, <2>4, <2>5
<1>4. PICK G \in [0..m -> Seq(X)] :
          /\ G[0] = <<>> /\ G[m] = Without(p, S)
          /\ \A i \in 1..m : G[i] = G[i - 1] \o (IF s[i] \in S THEN <<>> ELSE <<s[i]>>)
    <2>1. \A i \in 1..m : Ones(p)[i] = IF s[i] \in S THEN <<>> ELSE <<s[i]>>
        BY <1>1
    <2>2. Without(p, S) = FlattenSeq(Ones(p))
        BY DEF Without
    <2>3. Ones(p) \in Seq(Seq(X)) /\ Len(Ones(p)) = m
        BY <1>1, <1>2
    <2> HIDE DEF Ones
    <2>4. PICK G \in [0..m -> Seq(X)] :
              /\ G[0] = <<>> /\ G[m] = FlattenSeq(Ones(p))
              /\ \A i \in 1..m : G[i] = G[i - 1] \o Ones(p)[i]
        BY <2>3, FlattenParts
    <2> QED BY <2>1, <2>2, <2>4
<1> HIDE DEF Ones
<1>5. F[m] = G[m]
    <2> DEFINE T == {i \in 0..m : F[i] = G[i]}
    <2>1. 0 \in T
        BY <1>0, <1>3, <1>4
    <2>2. ASSUME NEW i \in 1..m, i - 1 \in T PROVE i \in T
        <3>1. i \in 0..m /\ i \in 1..Len(s) /\ F[i - 1] = G[i - 1]
            BY <1>0, <2>2
        <3>2. F[i] = F[i - 1] \o (IF s[i] \in S THEN <<>> ELSE <<s[i]>>)
            BY <1>3, <3>1
        <3>3. G[i] = G[i - 1] \o (IF s[i] \in S THEN <<>> ELSE <<s[i]>>)
            BY <1>4
        <3> QED BY <3>1, <3>2, <3>3
    <2> HIDE DEF T
    <2>3. 0..m \subseteq T
        BY <1>0, <2>1, <2>2, SetInduction
    <2>4. m \in T
        BY <1>0, <2>3
    <2> QED BY <2>4 DEF T
<1> DEFINE L == Len(G[m])
           Kept(i, j) == s[j] \notin S => \E k \in (L + 1)..Len(F[i]) : F[i][k] = s[j]
           Good(i) == L <= Len(F[i]) /\ \A j \in (m + 1)..i : Kept(i, j)
           T == {i \in 0..Len(s) : i >= m => Good(i)}
<1>6. G[m] \in Seq(X) /\ L \in Nat
    BY <1>0, <1>4
<1>7. 0 \in T
    <2>1. ASSUME 0 >= m PROVE Good(0)
        <3>1. m = 0
            BY <1>0, <2>1
        <3> QED BY <1>5, <1>6, <3>1
    <2> HIDE DEF Good
    <2> QED BY <1>0, <2>1
<1>8. ASSUME NEW i \in 1..Len(s), i - 1 \in T PROVE i \in T
    <2>0. i \in 0..Len(s) /\ i - 1 \in 0..Len(s) /\ i \in Nat
        BY <1>0
    <2> SUFFICES ASSUME i >= m PROVE Good(i)
        BY <2>0
    <2>1. CASE i = m
        BY <1>0, <1>5, <1>6, <2>1
    <2>2. CASE i # m
        <3>1. Good(i - 1)
            BY <1>0, <1>8, <2>0, <2>2
        <3>2. F[i - 1] \in Seq(X) /\ F[i] = F[i - 1] \o (IF s[i] \in S THEN <<>> ELSE <<s[i]>>)
            BY <1>3, <2>0
        <3>3. CASE s[i] \in S
            <4>1. F[i] = F[i - 1]
                BY <3>2, <3>3
            <4>2. ASSUME NEW j \in (m + 1)..i PROVE Kept(i, j)
                <5>1. CASE j = i
                    BY <3>3, <5>1
                <5>2. CASE j # i
                    <6>1. j \in (m + 1)..(i - 1)
                        BY <1>0, <2>0, <5>2
                    <6>2. Kept(i - 1, j)
                        BY <3>1, <6>1
                    <6> QED BY <4>1, <6>2
                <5> QED BY <5>1, <5>2
            <4>3. L <= Len(F[i])
                BY <3>1, <4>1
            <4> HIDE DEF Kept
            <4> QED BY <4>2, <4>3
        <3>4. CASE s[i] \notin S
            <4>0. s[i] \in X
                BY <2>0
            <4>1. /\ F[i] \in Seq(X) /\ Len(F[i]) = Len(F[i - 1]) + 1 /\ Len(F[i - 1]) \in Nat
                  /\ \A k \in 1..Len(F[i - 1]) : F[i][k] = F[i - 1][k]
                  /\ F[i][Len(F[i])] = s[i]
                BY <3>2, <3>4, <4>0
            <4>2. L <= Len(F[i])
                BY <1>6, <3>1, <4>1
            <4>3. ASSUME NEW j \in (m + 1)..i PROVE Kept(i, j)
                <5> SUFFICES ASSUME s[j] \notin S PROVE \E k \in (L + 1)..Len(F[i]) : F[i][k] = s[j]
                    OBVIOUS
                <5>1. CASE j = i
                    <6>1. Len(F[i]) \in (L + 1)..Len(F[i])
                        BY <1>6, <3>1, <4>1
                    <6> QED BY <4>1, <5>1, <6>1
                <5>2. CASE j # i
                    <6>1. j \in (m + 1)..(i - 1)
                        BY <1>0, <2>0, <5>2
                    <6>2. PICK k \in (L + 1)..Len(F[i - 1]) : F[i - 1][k] = s[j]
                        BY <3>1, <6>1
                    <6>3. k \in 1..Len(F[i - 1]) /\ k \in (L + 1)..Len(F[i])
                        BY <1>6, <4>1
                    <6> QED BY <4>1, <6>2, <6>3
                <5> QED BY <5>1, <5>2
            <4> HIDE DEF Kept
            <4> QED BY <4>2, <4>3
        <3> QED BY <3>3, <3>4
    <2> QED BY <2>1, <2>2
<1>9. Good(Len(s))
    <2> HIDE DEF T, Good
    <2>1. 0..Len(s) \subseteq T
        BY <1>0, <1>7, <1>8, SetInduction
    <2>2. Len(s) \in T
        BY <1>0, <2>1
    <2> QED BY <1>0, <2>2 DEF T
<1>10. L = Len(Without(p, S)) /\ F[Len(s)] = Without(s, S) /\ Len(F[Len(s)]) \in Nat
    <2>1. F[Len(s)] \in Seq(X)
        BY <1>0
    <2> QED BY <1>3, <1>4, <2>1
<1>11. Len(Without(p, S)) \in 0..Len(Without(s, S))
    BY <1>6, <1>9, <1>10
<1> QED BY <1>9, <1>10, <1>11 DEF p

-----------------------------------------------------------------------------
(* Paths *)

\* Every path is the root, an inode, an indirect block or a block of data.
LEMMA PathForms ==
    /\ <<>> \in Paths
    /\ \A f \in Files : <<f>> \in Paths /\ Indirect(f) \in Paths
    /\ \A f \in Files, n \in 1..NBlocks : Block(f, n) \in Paths
    /\ \A p \in Paths : \/ p = <<>> \/ \E f \in Files : p = <<f>> \/ p = Indirect(f)
                        \/ \E f \in Files, n \in 1..NBlocks : p = Block(f, n)
BY DEF Paths

\* The place above a place, and the last part of its path.
LEMMA FrontForms ==
    /\ \A x : Front(<<x>>) = <<>> /\ Last(<<x>>) = x
    /\ \A x, y : Front(<<x, y>>) = <<x>> /\ Last(<<x, y>>) = y
    /\ \A x, y, z : Front(<<x, y, z>>) = <<x, y>> /\ Last(<<x, y, z>>) = z
<1>1. ASSUME NEW x PROVE Front(<<x>>) = <<>> /\ Last(<<x>>) = x
    BY DEF Front, Last
<1>2. ASSUME NEW x, NEW y PROVE Front(<<x, y>>) = <<x>> /\ Last(<<x, y>>) = y
    <2> DEFINE s == SubSeq(<<x, y>>, 1, 1)
    <2>1. s \in Seq({x, y}) /\ Len(s) = 1 /\ s[1] = x
        BY SubSeqProperties, Z3T(20)
    <2>2. <<x>> \in Seq({x, y}) /\ Len(<<x>>) = 1 /\ <<x>>[1] = x
        OBVIOUS
    <2>3. s = <<x>>
        <3> HIDE DEF s
        <3> QED BY <2>1, <2>2, SeqEqual
    <2> QED BY <2>3 DEF Front, Last
<1>3. ASSUME NEW x, NEW y, NEW z PROVE Front(<<x, y, z>>) = <<x, y>> /\ Last(<<x, y, z>>) = z
    <2> DEFINE s == SubSeq(<<x, y, z>>, 1, 2)
    <2>1. s \in Seq({x, y, z}) /\ Len(s) = 2 /\ s[1] = x /\ s[2] = y
        BY SubSeqProperties, Z3T(20)
    <2>2. /\ <<x, y>> \in Seq({x, y, z}) /\ Len(<<x, y>>) = 2
          /\ <<x, y>>[1] = x /\ <<x, y>>[2] = y
        OBVIOUS
    <2>3. s = <<x, y>>
        <3> HIDE DEF s
        <3> QED BY <2>1, <2>2, SeqEqual
    <2> QED BY <2>3 DEF Front, Last
<1> QED BY <1>1, <1>2, <1>3

\* Which places lie on the way to p.
LEMMA PrefixForms ==
    /\ \A p \in Paths : IsPrefix(<<>>, p)
    /\ \A p \in Paths, f \in Files : IsPrefix(<<f>>, p) <=> p # <<>> /\ p[1] = f
    /\ \A p \in Paths, f \in Files : IsPrefix(<<f, NDIRECT + 1>>, p) <=> Len(p) > 1 /\ p[1] = f /\ p[2] = NDIRECT + 1
BY DEF IsPrefix, Paths, Indirect, Block

\* The place above a place.
LEMMA PathStep ==
    \A p \in Paths \ {<<>>} : Front(p) \in Paths /\ Front(p) # p
<1> SUFFICES ASSUME NEW p \in Paths \ {<<>>} PROVE Front(p) \in Paths /\ Front(p) # p
    OBVIOUS
<1>1. CASE \E f \in Files : p = <<f>>
    BY <1>1, FrontForms, PathForms
<1>2. CASE \E f \in Files : p = Indirect(f)
    BY <1>2, FrontForms, PathForms DEF Indirect
<1>3. ASSUME NEW f \in Files, NEW n \in 1..NBlocks, p = Block(f, n)
      PROVE Front(p) \in Paths /\ Front(p) # p
    <2>1. CASE n <= NDIRECT
        BY <1>3, <2>1, FrontForms, PathForms DEF Block
    <2>2. CASE ~(n <= NDIRECT)
        BY <1>3, <2>2, FrontForms, PathForms DEF Block, Indirect
    <2> QED BY <2>1, <2>2
<1> QED BY <1>1, <1>2, <1>3, PathForms

\* A place is known by the place above it and its number there.
LEMMA PathUnique ==
    \A p, q \in Paths \ {<<>>} : Front(p) = Front(q) /\ Last(p) = Last(q) => p = q
<1>1. ASSUME NEW p \in Paths \ {<<>>}
      PROVE \/ p = <<p[1]>> /\ Front(p) = <<>> /\ Last(p) = p[1]
            \/ p = <<p[1], p[2]>> /\ Front(p) = <<p[1]>> /\ Last(p) = p[2]
            \/ p = <<p[1], p[2], p[3]>> /\ Front(p) = <<p[1], p[2]>> /\ Last(p) = p[3]
    <2>1. \/ p = <<p[1]>> \/ p = <<p[1], p[2]>> \/ p = <<p[1], p[2], p[3]>>
        BY PathForms DEF Block, Indirect
    <2> QED BY <2>1, FrontForms
<1> QED BY <1>1

\* What is above a place.
LEMMA FrontOf ==
    ASSUME NEW q \in Paths \ {<<>>}
    PROVE  \/ Front(q) = <<>>
           \/ \E f \in Files : Front(q) = <<f>>
           \/ \E f \in Files : Front(q) = Indirect(f)
<1>1. CASE \E f \in Files : q = <<f>>
    BY <1>1, FrontForms
<1>2. CASE \E f \in Files : q = Indirect(f)
    BY <1>2, FrontForms DEF Indirect
<1>3. CASE \E f \in Files, n \in 1..NBlocks : q = Block(f, n)
    BY <1>3, FrontForms DEF Indirect, Block
<1> QED BY <1>1, <1>2, <1>3, PathForms

\* What holds of the root, and of a place when it holds of the one above, holds of all.
LEMMA PathInduction ==
    ASSUME NEW S, <<>> \in S, \A p \in Paths \ {<<>>} : Front(p) \in S => p \in S
    PROVE Paths \subseteq S
<1>1. \A f \in Files : <<f>> \in S
    BY PathForms, FrontForms
<1>2. \A f \in Files : Indirect(f) \in S
    BY <1>1, PathForms, FrontForms DEF Indirect
<1>3. ASSUME NEW f \in Files, NEW n \in 1..NBlocks PROVE Block(f, n) \in S
    <2>1. Block(f, n) \in Paths
        BY PathForms
    <2>2. CASE n <= NDIRECT
        <3>1. Block(f, n) = <<f, n>>
            BY <2>2 DEF Block
        <3>2. Block(f, n) # <<>> /\ Front(Block(f, n)) = <<f>>
            BY <3>1, FrontForms
        <3> QED BY <1>1, <2>1, <3>2
    <2>3. CASE ~(n <= NDIRECT)
        <3>1. Block(f, n) = <<f, NDIRECT + 1, n - NDIRECT>>
            BY <2>3 DEF Block
        <3>2. Block(f, n) # <<>> /\ Front(Block(f, n)) = Indirect(f)
            BY <3>1, FrontForms DEF Indirect
        <3> QED BY <1>2, <2>1, <3>2
    <2> QED BY <2>2, <2>3
<1> QED BY <1>1, <1>2, <1>3, PathForms

\* The places of a file, above one another.
LEMMA InodeForm ==
    ASSUME NEW f \in Files
    PROVE <<f>> \in Paths \ {<<>>} /\ Front(<<f>>) = <<>> /\ Last(<<f>>) = f
BY PathForms, FrontForms

\* The place of an indirect block.
LEMMA IndirectForm ==
    ASSUME NEW f \in Files
    PROVE /\ Indirect(f) \in Paths \ {<<>>} /\ Indirect(f)[1] = f
          /\ Front(Indirect(f)) = <<f>> /\ Last(Indirect(f)) = NDIRECT + 1
          /\ \A g : Indirect(f) # <<g>>
          /\ \A g : Indirect(f) = Indirect(g) => g = f
<1>1. Indirect(f) = <<f, NDIRECT + 1>> /\ \A g : Indirect(g) = <<g, NDIRECT + 1>>
    BY DEF Indirect
<1> QED BY <1>1, PathForms, FrontForms

\* The place of a block of data; no two blocks share one.
LEMMA BlockForm ==
    ASSUME NEW f \in Files, NEW n \in 1..NBlocks
    PROVE /\ Block(f, n) \in Paths \ {<<>>} /\ Block(f, n)[1] = f
          /\ n <= NDIRECT => Front(Block(f, n)) = <<f>> /\ Last(Block(f, n)) = n
          /\ n > NDIRECT => Front(Block(f, n)) = Indirect(f) /\ Last(Block(f, n)) = n - NDIRECT
          /\ \A g : Block(f, n) # <<g>> /\ Block(f, n) # Indirect(g)
          /\ \A g \in Files, k \in 1..NBlocks : Block(f, n) = Block(g, k) => f = g /\ n = k
<1>1. Block(f, n) \in Paths
    BY PathForms
<1>2. /\ NDIRECT \in Nat /\ n \in Nat /\ \A g : Indirect(g) = <<g, NDIRECT + 1>>
      /\ \A g, k : Block(g, k) = IF k <= NDIRECT THEN <<g, k>> ELSE <<g, NDIRECT + 1, k - NDIRECT>>
    BY UTFileSystemAssumption DEF Block, Indirect
<1>3. CASE n <= NDIRECT
    <2>1. Block(f, n) = <<f, n>>
        BY <1>2, <1>3
    <2> QED BY <1>1, <1>2, <1>3, <2>1, FrontForms
<1>4. CASE n > NDIRECT
    <2>1. Block(f, n) = <<f, NDIRECT + 1, n - NDIRECT>>
        BY <1>2, <1>4
    <2> QED BY <1>1, <1>2, <1>4, <2>1, FrontForms
<1> QED BY <1>2, <1>3, <1>4

\* The places of one file are all those below its inode.
FilePlaces(f) == {q \in Paths : q # <<>> /\ q[1] = f}

\* The places of a file are those below the root on the way through its inode.
LEMMA BelowInode ==
    ASSUME NEW f \in Files
    PROVE /\ {<<f>>} \cup Under[<<f>>] = FilePlaces(f)
          /\ \A q \in Paths \ {<<>>} :
                /\ Front(q) \in FilePlaces(f) => q \in FilePlaces(f)
                /\ q \in FilePlaces(f) /\ Front(q) \notin FilePlaces(f) => q = <<f>>
<1>1. <<f>> \in Paths
    BY PathForms
<1>2. Under[<<f>>] = {q \in Paths : IsPrefix(<<f>>, q) /\ <<f>> # q}
    BY <1>1 DEF Under, IsStrictPrefix
<1>3. \A q \in Paths : IsPrefix(<<f>>, q) <=> q # <<>> /\ q[1] = f
    BY PrefixForms
<1>4. {<<f>>} \cup Under[<<f>>] = FilePlaces(f)
    BY <1>1, <1>2, <1>3 DEF FilePlaces
<1>5. ASSUME NEW q \in Paths \ {<<>>}
      PROVE q = <<q[1]>> \/ (Front(q) # <<>> /\ Front(q)[1] = q[1])
    <2>1. \/ q = <<q[1]>> \/ q = <<q[1], q[2]>> \/ q = <<q[1], q[2], q[3]>>
        BY PathForms DEF Block, Indirect
    <2>2. CASE q = <<q[1], q[2]>>
        <3>1. Front(q) = <<q[1]>>
            BY <2>2, FrontForms
        <3> QED BY <3>1
    <2>3. CASE q = <<q[1], q[2], q[3]>>
        <3>1. Front(q) = <<q[1], q[2]>>
            BY <2>3, FrontForms
        <3> QED BY <3>1
    <2>4. CASE q = <<q[1]>>
        BY <2>4
    <2> QED BY <2>1, <2>2, <2>3, <2>4
<1>6. ASSUME NEW q \in Paths \ {<<>>}, Front(q) \in FilePlaces(f) PROVE q \in FilePlaces(f)
    <2>1. CASE q = <<q[1]>>
        BY <1>6, <2>1, FrontForms DEF FilePlaces
    <2> QED BY <1>5, <1>6, <2>1 DEF FilePlaces
<1>7. ASSUME NEW q \in Paths \ {<<>>}, q \in FilePlaces(f), Front(q) \notin FilePlaces(f)
      PROVE q = <<f>>
    BY <1>5, <1>7, PathStep DEF FilePlaces
<1> QED BY <1>4, <1>6, <1>7

\* The places on the way to a block.
LEMMA AlongBlock ==
    ASSUME NEW f \in Files, NEW n \in 1..NBlocks
    PROVE Along[Block(f, n)] = {<<>>, <<f>>, Block(f, n)} \cup (IF n > NDIRECT THEN {Indirect(f)} ELSE {})
<1> DEFINE p == Block(f, n)
           A == {<<>>, <<f>>, p} \cup (IF n > NDIRECT THEN {Indirect(f)} ELSE {})
<1>1. p \in Paths /\ p # <<>> /\ p[1] = f
    BY BlockForm
<1>2. Along[p] = {q \in Paths : IsPrefix(q, p)}
    BY <1>1 DEF Along
<1>3. n \in Nat /\ NDIRECT \in Nat
    BY UTFileSystemAssumption
<1>4. IsPrefix(<<>>, p) /\ \A g \in Files : IsPrefix(<<g>>, p) <=> g = f
    BY <1>1, PrefixForms
<1>5. \A g \in Files : IsPrefix(Indirect(g), p) <=> n > NDIRECT /\ g = f
    <2>1. \A g \in Files : IsPrefix(Indirect(g), p) <=> Len(p) > 1 /\ p[1] = g /\ p[2] = NDIRECT + 1
        BY <1>1, PrefixForms DEF Indirect
    <2>2. CASE n > NDIRECT
        BY <1>1, <1>3, <2>1, <2>2 DEF Block
    <2>3. CASE n <= NDIRECT
        BY <1>1, <1>3, <2>1, <2>3 DEF Block
    <2> QED BY <1>3, <2>2, <2>3
<1>6. ASSUME NEW g \in Files, NEW k \in 1..NBlocks PROVE IsPrefix(Block(g, k), p) <=> Block(g, k) = p
    BY <1>3 DEF IsPrefix, Block
<1>7. ASSUME NEW q \in Paths PROVE IsPrefix(q, p) <=> q \in A
    <2>1. CASE q = <<>>
        BY <1>4, <2>1
    <2>2. ASSUME NEW g \in Files, q = <<g>> PROVE IsPrefix(q, p) <=> q \in A
        BY <1>4, <2>2, BlockForm, IndirectForm
    <2>3. ASSUME NEW g \in Files, q = Indirect(g) PROVE IsPrefix(q, p) <=> q \in A
        BY <1>5, <2>3, BlockForm, IndirectForm
    <2>4. ASSUME NEW g \in Files, NEW k \in 1..NBlocks, q = Block(g, k)
          PROVE IsPrefix(q, p) <=> q \in A
        BY <1>6, <2>4, BlockForm
    <2> HIDE DEF p, A
    <2> QED BY <2>1, <2>2, <2>3, <2>4, PathForms
<1>8. A \subseteq Paths
    BY <1>1, PathForms
<1> QED BY <1>2, <1>7, <1>8

\* Only inodes are right below the root.
LEMMA TopPlaces ==
    ASSUME NEW q \in Paths \ {<<>>}, Front(q) = <<>>
    PROVE Last(q) \in Files /\ q = <<Last(q)>>
<1>1. CASE \E f \in Files : q = <<f>>
    BY <1>1, FrontForms
<1>2. CASE \E f \in Files : q = Indirect(f)
    BY <1>2, IndirectForm
<1>3. ASSUME NEW f \in Files, NEW n \in 1..NBlocks, q = Block(f, n) PROVE FALSE
    <2>1. Front(q) = <<f>> \/ Front(q) = Indirect(f)
        <3>1. n <= NDIRECT \/ n > NDIRECT
            BY UTFileSystemAssumption
        <3> QED BY <1>3, <3>1, BlockForm
    <2> QED BY <2>1, IndirectForm
<1> QED BY <1>1, <1>2, <1>3, PathForms

\* The places right below an inode, and right below an indirect block.
LEMMA PlacesBelow ==
    ASSUME NEW f \in Files, NEW q \in Paths \ {<<>>}
    PROVE /\ Front(q) = <<f>> => Last(q) \in 1..(NDIRECT + 1)
          /\ Front(q) = Indirect(f) =>
                /\ Last(q) \in 1..NUMREF /\ NDIRECT + Last(q) \in 1..NBlocks
                /\ NDIRECT + Last(q) > NDIRECT /\ q = Block(f, NDIRECT + Last(q))
<1>0. NDIRECT \in Nat /\ NUMREF \in Nat /\ NBlocks = NDIRECT + NUMREF
    BY UTFileSystemAssumption DEF NBlocks
<1>1. CASE \E g \in Files : q = <<g>>
    BY <1>1, InodeForm, IndirectForm
<1>2. CASE \E g \in Files : q = Indirect(g)
    BY <1>0, <1>2, IndirectForm
<1>3. ASSUME NEW g \in Files, NEW n \in 1..NBlocks, q = Block(g, n)
      PROVE /\ Front(q) = <<f>> => Last(q) \in 1..(NDIRECT + 1)
            /\ Front(q) = Indirect(f) =>
                  /\ Last(q) \in 1..NUMREF /\ NDIRECT + Last(q) \in 1..NBlocks
                  /\ NDIRECT + Last(q) > NDIRECT /\ q = Block(f, NDIRECT + Last(q))
    <2>1. CASE n <= NDIRECT
        <3>1. Front(q) = <<g>> /\ Last(q) = n
            BY <1>3, <2>1, BlockForm
        <3> QED BY <1>0, <2>1, <3>1, IndirectForm
    <2>2. CASE n > NDIRECT
        <3>1. Front(q) = Indirect(g) /\ Last(q) = n - NDIRECT
            BY <1>3, <2>2, BlockForm
        <3>2. Last(q) \in 1..NUMREF /\ NDIRECT + Last(q) = n
            BY <1>0, <2>2, <3>1
        <3> QED BY <1>0, <1>3, <2>2, <3>1, <3>2, IndirectForm
    <2> QED BY <1>0, <2>1, <2>2
<1> QED BY <1>1, <1>2, <1>3, PathForms

\* A flush stores a place before the one above it.
LEMMA FlushedFirst ==
    ASSUME NEW q \in Paths \ {<<>>}
    PROVE ~FlushedBefore(<<>>, q) /\ ~FlushedBefore(Front(q), q)
<1>1. \/ q = <<q[1]>> /\ q[1] \in Nat
      \/ q = <<q[1], q[2]>> /\ q[1] \in Nat /\ q[2] \in Nat
      \/ q = <<q[1], q[2], q[3]>> /\ q[1] \in Nat /\ q[2] \in Nat /\ q[3] \in Nat
    <2>1. NDIRECT \in Nat /\ NFiles \in Nat
        BY UTFileSystemAssumption
    <2>2. CASE \E f \in Files : q = <<f>>
        BY <2>1, <2>2 DEF Files
    <2>3. CASE \E f \in Files : q = Indirect(f)
        BY <2>1, <2>3 DEF Files, Indirect
    <2>4. ASSUME NEW f \in Files, NEW n \in 1..NBlocks, q = Block(f, n)
          PROVE \/ q = <<q[1], q[2]>> /\ q[1] \in Nat /\ q[2] \in Nat
                \/ q = <<q[1], q[2], q[3]>> /\ q[1] \in Nat /\ q[2] \in Nat /\ q[3] \in Nat
        BY <2>1, <2>4 DEF Files, Block
    <2> QED BY <2>2, <2>3, <2>4, PathForms
<1>2. CASE q = <<q[1]>> /\ q[1] \in Nat
    <2>1. Front(q) = <<>> /\ Len(q) = 1
        BY <1>2, FrontForms
    <2> QED BY <2>1 DEF FlushedBefore, IsStrictPrefix, IsPrefix
<1>3. CASE q = <<q[1], q[2]>> /\ q[1] \in Nat /\ q[2] \in Nat
    <2>1. Front(q) = <<q[1]>> /\ Len(q) = 2
        BY <1>3, FrontForms
    <2>2. Len(Front(q)) = 1 /\ Front(q)[1] = q[1]
        BY <2>1
    <2> QED BY <1>3, <2>1, <2>2 DEF FlushedBefore, IsStrictPrefix, IsPrefix
<1>4. CASE q = <<q[1], q[2], q[3]>> /\ q[1] \in Nat /\ q[2] \in Nat /\ q[3] \in Nat
    <2>1. Front(q) = <<q[1], q[2]>> /\ Len(q) = 3
        BY <1>4, FrontForms
    <2>2. Len(Front(q)) = 2 /\ Front(q)[1] = q[1] /\ Front(q)[2] = q[2]
        BY <2>1
    <2> QED BY <1>4, <2>1, <2>2 DEF FlushedBefore, IsStrictPrefix, IsPrefix
<1> QED BY <1>1, <1>2, <1>3, <1>4

\* What is below an indirect block.
LEMMA BelowIndirect ==
    ASSUME NEW f \in Files
    PROVE Under[Indirect(f)] = {Block(f, k) : k \in {j \in 1..NBlocks : j > NDIRECT}}
<1> DEFINE B == {Block(f, k) : k \in {j \in 1..NBlocks : j > NDIRECT}}
<1>1. NDIRECT \in Nat /\ Indirect(f) \in Paths
    BY UTFileSystemAssumption, IndirectForm
<1>2. Under[Indirect(f)] = {q \in Paths : IsPrefix(Indirect(f), q) /\ Indirect(f) # q}
    BY <1>1 DEF Under, IsStrictPrefix
<1>3. ASSUME NEW q \in Paths PROVE IsPrefix(Indirect(f), q) /\ Indirect(f) # q <=> q \in B
    <2>1. IsPrefix(Indirect(f), q) <=> Len(q) > 1 /\ q[1] = f /\ q[2] = NDIRECT + 1
        BY PrefixForms DEF Indirect
    <2>2. CASE q = <<>>
        BY <2>1, <2>2, BlockForm
    <2>3. ASSUME NEW g \in Files, q = <<g>>
          PROVE IsPrefix(Indirect(f), q) /\ Indirect(f) # q <=> q \in B
        BY <2>1, <2>3, BlockForm
    <2>4. ASSUME NEW g \in Files, q = Indirect(g)
          PROVE IsPrefix(Indirect(f), q) /\ Indirect(f) # q <=> q \in B
        <3>1. q[1] = g
            BY <2>4, IndirectForm
        <3> QED BY <2>1, <2>4, <3>1, BlockForm
    <2>5. ASSUME NEW g \in Files, NEW k \in 1..NBlocks, q = Block(g, k)
          PROVE IsPrefix(Indirect(f), q) /\ Indirect(f) # q <=> q \in B
        <3>1. q # Indirect(f)
            BY <2>5, BlockForm
        <3>2. Len(q) > 1 /\ q[1] = g /\ (q[2] = NDIRECT + 1 <=> k > NDIRECT)
            BY <1>1, <2>5 DEF Block
        <3>3. q \in B <=> g = f /\ k > NDIRECT
            BY <2>5, BlockForm
        <3> QED BY <2>1, <3>1, <3>2, <3>3
    <2> HIDE DEF B
    <2> QED BY <2>2, <2>3, <2>4, <2>5, PathForms
<1>4. B \subseteq Paths
    BY BlockForm
<1> QED BY <1>2, <1>3, <1>4

-----------------------------------------------------------------------------
(* Trees *)

\* What a tree has at a place: the dirty object, or the block its parent refers to.
LEMMA TreeAt ==
    ASSUME NEW root, NEW m, NEW b, NEW T, T = Tree(root, m, b)
    PROVE /\ DOMAIN T = Paths /\ T = [p \in Paths |-> T[p]]
          /\ T[<<>>] = root
          /\ \A p \in Paths \ {<<>>} :
                T[p] = IF p \in DOMAIN m THEN m[p] ELSE b[KidRef(T[Front(p)], Last(p))]
<1> DEFINE kid(up, p) == IF p \in DOMAIN m THEN m[p] ELSE b[KidRef(up, p[Len(p)])]
<1> DEFINE inode(p) == kid(root, <<p[1]>>)
<1> DEFINE at(p) ==
           CASE Len(p) = 0 -> root
             [] Len(p) = 1 -> inode(p)
             [] Len(p) = 2 -> kid(inode(p), p)
             [] Len(p) = 3 -> kid(kid(inode(p), <<p[1], p[2]>>), p)
<1>0. T = [p \in Paths |-> at(p)]
    BY DEF Tree
<1>1. DOMAIN T = Paths /\ T = [p \in Paths |-> T[p]] /\ \A p \in Paths : T[p] = at(p)
    <2> HIDE DEF at
    <2> QED BY <1>0
<1>2. T[<<>>] = root
    <2>1. at(<<>>) = root
        <3> HIDE DEF kid
        <3> QED OBVIOUS
    <2> HIDE DEF at
    <2> QED BY <1>1, <2>1, PathForms
<1>3. ASSUME NEW f, <<f>> \in Paths
      PROVE T[<<f>>] = kid(T[<<>>], <<f>>)
    <2>1. at(<<f>>) = kid(root, <<f>>)
        <3> HIDE DEF kid
        <3> QED OBVIOUS
    <2> HIDE DEF at
    <2> QED BY <1>1, <1>2, <1>3, <2>1
<1>4. ASSUME NEW f, NEW i, <<f, i>> \in Paths
      PROVE <<f>> \in Paths /\ T[<<f, i>>] = kid(T[<<f>>], <<f, i>>)
    <2>1. <<f>> \in Paths
        BY <1>4, PathStep, FrontForms
    <2>2. at(<<f, i>>) = kid(kid(root, <<f>>), <<f, i>>)
        <3> HIDE DEF kid
        <3> QED OBVIOUS
    <2> HIDE DEF kid, at
    <2> QED BY <1>1, <1>2, <1>3, <1>4, <2>1, <2>2
<1>5. ASSUME NEW f, NEW i, NEW j, <<f, i, j>> \in Paths
      PROVE T[<<f, i, j>>] = kid(T[<<f, i>>], <<f, i, j>>)
    <2>1. <<f, i>> \in Paths
        BY <1>5, PathStep, FrontForms
    <2>2. at(<<f, i, j>>) = kid(kid(kid(root, <<f>>), <<f, i>>), <<f, i, j>>)
        <3> HIDE DEF kid
        <3> QED OBVIOUS
    <2> HIDE DEF kid, at
    <2> QED BY <1>1, <1>2, <1>3, <1>4, <1>5, <2>1, <2>2
<1>6. ASSUME NEW p \in Paths \ {<<>>}
      PROVE T[p] = IF p \in DOMAIN m THEN m[p] ELSE b[KidRef(T[Front(p)], Last(p))]
    <2>1. \/ p = <<p[1]>> \/ p = <<p[1], p[2]>> \/ p = <<p[1], p[2], p[3]>>
        BY PathForms DEF Block, Indirect
    <2>2. CASE p = <<p[1]>>
        BY <2>2, <1>3, FrontForms
    <2>3. CASE p = <<p[1], p[2]>>
        BY <2>3, <1>4, FrontForms
    <2>4. CASE p = <<p[1], p[2], p[3]>>
        BY <2>4, <1>5, FrontForms
    <2> QED BY <2>1, <2>2, <2>3, <2>4
<1> QED BY <1>1, <1>2, <1>6

-----------------------------------------------------------------------------
(* The invariant *)

\* The references a place may be given.
Named(p) == ({p} \X (1..MaxRef)) \cup {Nil}

\* o is an object for the place p: its references are to blocks for the places below.
ObjectAt(p, o) ==
    /\ o = [ref |-> o.ref, kids |-> o.kids, val |-> o.val]
    /\ o.ref \in Named(p)
    /\ \A i \in DOMAIN o.kids : \E q \in Paths \ {<<>>} :
           Front(q) = p /\ Last(q) = i /\ o.kids[i] \in Named(q)

\* A block is found under its own reference.
BodyOK(b) ==
    /\ Nil \in DOMAIN b /\ b[Nil] = New
    /\ \A r \in DOMAIN b \ {Nil} : r \in Refs /\ b[r].ref = r /\ ObjectAt(r[1], b[r])

\* The tree has objects for their places, and every reference that is followed is to a
\* block that is known.
TreeOK(root, m, b) ==
    /\ ObjectAt(<<>>, root)
    /\ \A p \in DOMAIN m : p \in Paths /\ ObjectAt(p, m[p])
    /\ \A p \in Paths \ ({<<>>} \cup DOMAIN m) :
           KidRef(Tree(root, m, b)[Front(p)], Last(p)) \in DOMAIN b

\* The published tree and the dirty objects m, over the blocks b.
InOrder(m, b, h) ==
    /\ BodyOK(b)
    /\ h \in DOMAIN b \cap Named(<<>>)
    /\ TreeOK(b[h], NoTree, b)
    /\ TreeOK(RootOf(m), m, b)

\* What lies above a dirty object is dirty, and a dirty inode has an entry.
DirtyAbove(m) ==
    /\ \A p \in DOMAIN m \ {<<>>} : Front(p) \in DOMAIN m
    /\ \A f \in Files : <<f>> \in DOMAIN m => f \in DOMAIN m[<<>>].kids

\* Where a flush or a mount has left the root.
Settled ==
    /\ phase = "down" => mem = NoTree /\ ~dirty
    /\ phase # "down" => <<>> \in DOMAIN mem
    /\ phase = "flush" => dirty
    /\ phase = "publish" => /\ DOMAIN mem = {<<>>} /\ ~dirty
                            /\ mem[<<>>].ref \in DOMAIN body
                            /\ body[mem[<<>>].ref] = mem[<<>>]
    /\ phase = "idle" /\ ~dirty => DOMAIN mem = {<<>>} /\ mem[<<>>] = body[head]

Inv == InOrder(mem, body, head) /\ DirtyAbove(mem) /\ Settled

-----------------------------------------------------------------------------
(* Trees that are in order *)

\* A new object is one for any place.
LEMMA NewObject == \A p : ObjectAt(p, New) /\ \A i : KidRef(New, i) = Nil
BY DEF ObjectAt, New, Named, KidRef, Nil

\* The reference an object has for a place below it is one for that place.
LEMMA KidNamed ==
    ASSUME NEW p \in Paths \ {<<>>}, NEW o, ObjectAt(Front(p), o)
    PROVE KidRef(o, Last(p)) \in Named(p)
<1>1. CASE Last(p) \in DOMAIN o.kids
    <2>1. PICK q \in Paths \ {<<>>} :
              Front(q) = Front(p) /\ Last(q) = Last(p) /\ o.kids[Last(p)] \in Named(q)
        BY <1>1 DEF ObjectAt
    <2>2. q = p
        BY <2>1, PathUnique
    <2> QED BY <1>1, <2>1, <2>2 DEF KidRef
<1>2. CASE Last(p) \notin DOMAIN o.kids
    BY <1>2 DEF KidRef, Named
<1> QED BY <1>1, <1>2

\* Every place of a tree in order has an object for it, and a block that is read has the
\* reference it is found by.
LEMMA TreeObjects ==
    ASSUME NEW root, NEW m, NEW b, NEW T, T = Tree(root, m, b), BodyOK(b), TreeOK(root, m, b)
    PROVE /\ \A p \in Paths : ObjectAt(p, T[p])
          /\ \A p \in Paths \ ({<<>>} \cup DOMAIN m) :
                /\ KidRef(T[Front(p)], Last(p)) \in DOMAIN b \cap Named(p)
                /\ T[p] = b[KidRef(T[Front(p)], Last(p))]
                /\ T[p].ref = KidRef(T[Front(p)], Last(p))
<1> DEFINE S == {p \in Paths : ObjectAt(p, T[p])}
<1>1. /\ T[<<>>] = root
      /\ \A p \in Paths \ {<<>>} :
            T[p] = IF p \in DOMAIN m THEN m[p] ELSE b[KidRef(T[Front(p)], Last(p))]
    BY TreeAt
<1>2. <<>> \in S
    BY <1>1, PathForms DEF TreeOK
<1>3. ASSUME NEW p \in Paths \ ({<<>>} \cup DOMAIN m), ObjectAt(Front(p), T[Front(p)])
      PROVE /\ ObjectAt(p, T[p])
            /\ KidRef(T[Front(p)], Last(p)) \in DOMAIN b \cap Named(p)
            /\ T[p] = b[KidRef(T[Front(p)], Last(p))]
            /\ T[p].ref = KidRef(T[Front(p)], Last(p))
    <2> DEFINE r == KidRef(T[Front(p)], Last(p))
    <2>1. r \in DOMAIN b
        BY <1>3 DEF TreeOK
    <2>2. r \in Named(p)
        BY <1>3, KidNamed
    <2>3. T[p] = b[r]
        BY <1>1
    <2> HIDE DEF r
    <2>4. CASE r = Nil
        <3>1. T[p] = New
            BY <2>3, <2>4 DEF BodyOK
        <3> QED BY <2>1, <2>2, <2>3, <2>4, <3>1, NewObject DEF New, r
    <2>5. CASE r # Nil
        <3>1. r[1] = p
            BY <2>2, <2>5 DEF Named
        <3>2. b[r].ref = r /\ ObjectAt(r[1], b[r])
            BY <2>1, <2>5 DEF BodyOK
        <3> QED BY <2>1, <2>2, <2>3, <3>1, <3>2 DEF r
    <2> QED BY <2>4, <2>5
<1>4. ASSUME NEW p \in Paths \ {<<>>}, Front(p) \in S PROVE p \in S
    <2>1. CASE p \in DOMAIN m
        BY <1>1, <2>1 DEF TreeOK
    <2>2. CASE p \notin DOMAIN m
        BY <1>3, <1>4, <2>2
    <2> QED BY <2>1, <2>2
<1>5. Paths \subseteq S
    <2> HIDE DEF S
    <2> QED BY <1>2, <1>4, PathInduction
<1>6. \A p \in Paths : ObjectAt(p, T[p])
    BY <1>5
<1> QED BY <1>3, <1>6, PathStep

\* Only the blocks that are read matter to a tree.
LEMMA SameTree ==
    ASSUME NEW root, NEW m, NEW b, NEW c, NEW T, T = Tree(root, m, b),
           \A p \in Paths \ ({<<>>} \cup DOMAIN m) :
              c[KidRef(T[Front(p)], Last(p))] = b[KidRef(T[Front(p)], Last(p))]
    PROVE Tree(root, m, c) = T
<1>1. PICK U : U = Tree(root, m, c)
    OBVIOUS
<1> DEFINE S == {p \in Paths : U[p] = T[p]}
<1>2. /\ T = [p \in Paths |-> T[p]] /\ T[<<>>] = root
      /\ \A p \in Paths \ {<<>>} :
            T[p] = IF p \in DOMAIN m THEN m[p] ELSE b[KidRef(T[Front(p)], Last(p))]
    BY TreeAt
<1>3. /\ U = [p \in Paths |-> U[p]] /\ U[<<>>] = root
      /\ \A p \in Paths \ {<<>>} :
            U[p] = IF p \in DOMAIN m THEN m[p] ELSE c[KidRef(U[Front(p)], Last(p))]
    BY <1>1, TreeAt
<1>4. <<>> \in S
    BY <1>2, <1>3, PathForms
<1>5. ASSUME NEW p \in Paths \ {<<>>}, Front(p) \in S PROVE p \in S
    <2>1. U[Front(p)] = T[Front(p)]
        BY <1>5
    <2>2. CASE p \in DOMAIN m
        BY <1>2, <1>3, <2>2
    <2>3. CASE p \notin DOMAIN m
        <3>1. U[p] = c[KidRef(T[Front(p)], Last(p))]
            BY <1>3, <2>1, <2>3
        <3>2. T[p] = b[KidRef(T[Front(p)], Last(p))]
            BY <1>2, <2>3
        <3> QED BY <2>3, <3>1, <3>2
    <2> QED BY <2>2, <2>3
<1>6. Paths \subseteq S
    <2> HIDE DEF S
    <2> QED BY <1>4, <1>5, PathInduction
<1>7. \A p \in Paths : U[p] = T[p]
    BY <1>6
<1> QED BY <1>1, <1>2, <1>3, <1>7

\* A sweep, and a new block, leave a tree as it was.
LEMMA SweptTree ==
    ASSUME NEW root, NEW m, NEW b, BodyOK(b), TreeOK(root, m, b),
           NEW used, RefsOf(Tree(root, m, b)) \subseteq used,
           NEW c, c = [r \in (used \cap DOMAIN b) \cup {Nil} |-> b[r]]
    PROVE Tree(root, m, c) = Tree(root, m, b) /\ TreeOK(root, m, c)
<1>1. PICK T : T = Tree(root, m, b)
    OBVIOUS
<1>2. ASSUME NEW p \in Paths \ ({<<>>} \cup DOMAIN m)
      PROVE /\ KidRef(T[Front(p)], Last(p)) \in DOMAIN c
            /\ c[KidRef(T[Front(p)], Last(p))] = b[KidRef(T[Front(p)], Last(p))]
    <2>1. PICK r : r = KidRef(T[Front(p)], Last(p))
        OBVIOUS
    <2>2. r \in DOMAIN b /\ T[p].ref = r
        BY <1>1, <2>1, TreeObjects
    <2>3. r \in used \cup {Nil}
        BY <1>1, <2>2 DEF RefsOf
    <2> QED BY <2>1, <2>2, <2>3
<1>3. Tree(root, m, c) = T
    <2>1. \A p \in Paths \ ({<<>>} \cup DOMAIN m) :
             c[KidRef(T[Front(p)], Last(p))] = b[KidRef(T[Front(p)], Last(p))]
        BY <1>2
    <2> QED BY ONLY <1>1, <2>1, SameTree
<1> QED BY <1>1, <1>2, <1>3 DEF TreeOK

\* A sweep leaves blocks that are found under their own references.
LEMMA SweptBody ==
    ASSUME NEW b, BodyOK(b), NEW used, NEW c, c = [r \in (used \cap DOMAIN b) \cup {Nil} |-> b[r]]
    PROVE BodyOK(c)
BY DEF BodyOK

\* A block that no reference of a tree names can be added without changing the tree.
LEMMA AddedTree ==
    ASSUME NEW root, NEW m, NEW b, BodyOK(b), TreeOK(root, m, b),
           NEW new, new # Nil, new \notin RefsOf(Tree(root, m, b)), NEW o,
           NEW c, c = [r \in DOMAIN b \cup {new} |-> IF r = new THEN o ELSE b[r]]
    PROVE Tree(root, m, c) = Tree(root, m, b) /\ TreeOK(root, m, c)
<1>1. PICK T : T = Tree(root, m, b)
    OBVIOUS
<1>2. ASSUME NEW p \in Paths \ ({<<>>} \cup DOMAIN m)
      PROVE /\ KidRef(T[Front(p)], Last(p)) \in DOMAIN c
            /\ c[KidRef(T[Front(p)], Last(p))] = b[KidRef(T[Front(p)], Last(p))]
    <2>1. PICK r : r = KidRef(T[Front(p)], Last(p))
        OBVIOUS
    <2>2. r \in DOMAIN b /\ T[p].ref = r
        BY <1>1, <2>1, TreeObjects
    <2>3. r # new
        BY <1>1, <2>2 DEF RefsOf
    <2> QED BY <2>1, <2>2, <2>3
<1>3. Tree(root, m, c) = T
    <2>1. \A p \in Paths \ ({<<>>} \cup DOMAIN m) :
             c[KidRef(T[Front(p)], Last(p))] = b[KidRef(T[Front(p)], Last(p))]
        BY <1>2
    <2> QED BY ONLY <1>1, <2>1, SameTree
<1> QED BY <1>1, <1>2, <1>3 DEF TreeOK

\* A new block is found under its own reference.
LEMMA AddedBody ==
    ASSUME NEW b, BodyOK(b), NEW new \in Refs, NEW o, o.ref = new, ObjectAt(new[1], o),
           NEW c, c = [r \in DOMAIN b \cup {new} |-> IF r = new THEN o ELSE b[r]]
    PROVE BodyOK(c)
<1>1. new # Nil
    BY DEF Refs, Nil
<1> QED BY <1>1 DEF BodyOK

\* A change of the dirty objects that empties the places in X and keeps the references
\* to all others: only the dirty objects differ afterwards.
LEMMA EditedTree ==
    ASSUME NEW m, NEW b, NEW T, BodyOK(b), TreeOK(RootOf(m), m, b), T = Tree(RootOf(m), m, b),
           NEW m2, <<>> \in DOMAIN m2,
           \A q \in DOMAIN m2 : q \in Paths /\ ObjectAt(q, m2[q]),
           NEW X, DOMAIN m2 \cap X = {},
           DOMAIN m \ X \subseteq DOMAIN m2,
           \A q \in Paths \ {<<>>} :
              /\ Front(q) \in X => q \in X
              /\ q \in X /\ Front(q) \notin X =>
                    Front(q) \in DOMAIN m2 /\ KidRef(m2[Front(q)], Last(q)) = Nil
              /\ q \notin X /\ Front(q) \in DOMAIN m2 =>
                    KidRef(m2[Front(q)], Last(q)) = KidRef(T[Front(q)], Last(q)),
           NEW U, U = Tree(RootOf(m2), m2, b)
    PROVE /\ TreeOK(RootOf(m2), m2, b)
          /\ \A q \in Paths : U[q] = IF q \in X THEN New
                                     ELSE IF q \in DOMAIN m2 THEN m2[q] ELSE T[q]
<1>1. \A q \in Paths \ {<<>>} :
         T[q] = IF q \in DOMAIN m THEN m[q] ELSE b[KidRef(T[Front(q)], Last(q))]
    BY TreeAt
<1>2. /\ U[<<>>] = m2[<<>>]
      /\ \A q \in Paths \ {<<>>} :
            U[q] = IF q \in DOMAIN m2 THEN m2[q] ELSE b[KidRef(U[Front(q)], Last(q))]
    BY TreeAt DEF RootOf
<1>3. Nil \in DOMAIN b /\ b[Nil] = New
    BY DEF BodyOK
<1> DEFINE Is(q) == U[q] = IF q \in X THEN New ELSE IF q \in DOMAIN m2 THEN m2[q] ELSE T[q]
<1> DEFINE S == {q \in Paths : Is(q)}
<1>4. ASSUME NEW q \in Paths \ {<<>>}, Is(Front(q)), q \notin DOMAIN m2
      PROVE KidRef(U[Front(q)], Last(q)) \in DOMAIN b /\ Is(q)
    <2>1. U[q] = b[KidRef(U[Front(q)], Last(q))]
        BY <1>2, <1>4
    <2>2. CASE q \in X
        <3>1. KidRef(U[Front(q)], Last(q)) = Nil
            <4>1. CASE Front(q) \in X
                BY <1>4, <4>1, NewObject
            <4>2. CASE Front(q) \notin X
                BY <1>4, <2>2, <4>2
            <4> QED BY <4>1, <4>2
        <3> QED BY <1>3, <2>1, <2>2, <3>1
    <2>3. CASE q \notin X
        <3>1. Front(q) \notin X /\ q \notin DOMAIN m
            BY <1>4, <2>3
        <3>2. KidRef(U[Front(q)], Last(q)) = KidRef(T[Front(q)], Last(q))
            <4>1. CASE Front(q) \in DOMAIN m2
                BY <1>4, <2>3, <3>1, <4>1
            <4>2. CASE Front(q) \notin DOMAIN m2
                BY <1>4, <3>1, <4>2
            <4> QED BY <4>1, <4>2
        <3>3. T[q] = b[KidRef(T[Front(q)], Last(q))]
            BY <1>1, <3>1
        <3>4. KidRef(T[Front(q)], Last(q)) \in DOMAIN b
            BY <3>1 DEF TreeOK
        <3> QED BY <1>4, <2>1, <2>3, <3>2, <3>3, <3>4
    <2> QED BY <2>2, <2>3
<1>5. <<>> \in S
    BY <1>2, PathForms
<1>6. ASSUME NEW q \in Paths \ {<<>>}, Front(q) \in S PROVE q \in S
    <2>1. CASE q \in DOMAIN m2
        BY <1>2, <2>1
    <2>2. CASE q \notin DOMAIN m2
        BY <1>4, <1>6, <2>2
    <2> QED BY <2>1, <2>2
<1>7. Paths \subseteq S
    <2> HIDE DEF S
    <2> QED BY <1>5, <1>6, PathInduction
<1>8. \A q \in Paths : Is(q)
    BY <1>7
<1>9. TreeOK(RootOf(m2), m2, b)
    <2>1. ObjectAt(<<>>, RootOf(m2))
        BY DEF RootOf
    <2>2. \A q \in Paths \ ({<<>>} \cup DOMAIN m2) : KidRef(U[Front(q)], Last(q)) \in DOMAIN b
        BY <1>4, <1>8, PathStep
    <2> QED BY <2>1, <2>2 DEF TreeOK
<1> QED BY <1>8, <1>9

\* The dirty object at p is the block o of b, and its parent refers to it: m2 is left.
Stored(m, b, p, o, m2) ==
    /\ p \in DOMAIN m \ {<<>>} /\ <<>> \in DOMAIN m /\ Front(p) \in DOMAIN m
    /\ o.ref \in DOMAIN b /\ b[o.ref] = o /\ o.kids = m[p].kids
    /\ DOMAIN m2 = DOMAIN m \ {p}
    /\ \A q \in DOMAIN m2 : ObjectAt(q, m2[q]) /\ (q # Front(p) => m2[q] = m[q])
    /\ \A i : KidRef(m2[Front(p)], i) = IF i = Last(p) THEN o.ref ELSE KidRef(m[Front(p)], i)

\* The tree is then the same but for that reference.
LEMMA StoredTree ==
    ASSUME NEW m, NEW b, NEW T, BodyOK(b), TreeOK(RootOf(m), m, b), T = Tree(RootOf(m), m, b),
           NEW p, NEW o, NEW m2, Stored(m, b, p, o, m2),
           NEW U, U = Tree(RootOf(m2), m2, b)
    PROVE /\ TreeOK(RootOf(m2), m2, b)
          /\ \A q \in Paths : U[q] = IF q = p THEN o ELSE IF q = Front(p) THEN m2[q] ELSE T[q]
<1> USE DEF Stored
<1>1. /\ T[<<>>] = m[<<>>]
      /\ \A q \in Paths \ {<<>>} :
            T[q] = IF q \in DOMAIN m THEN m[q] ELSE b[KidRef(T[Front(q)], Last(q))]
    BY TreeAt DEF RootOf
<1>2. /\ U[<<>>] = m2[<<>>]
      /\ \A q \in Paths \ {<<>>} :
            U[q] = IF q \in DOMAIN m2 THEN m2[q] ELSE b[KidRef(U[Front(q)], Last(q))]
    BY TreeAt DEF RootOf
<1>3. p \in Paths /\ Front(p) \in Paths /\ Front(p) # p /\ DOMAIN m \subseteq Paths
    BY PathStep DEF TreeOK
<1>a. \A q \in DOMAIN m : T[q] = m[q]
    BY <1>1, <1>3
<1> DEFINE Is(q) == U[q] = IF q = p THEN o ELSE IF q = Front(p) THEN m2[q] ELSE T[q]
<1> DEFINE S == {q \in Paths : Is(q)}
<1>4. ASSUME NEW q \in Paths \ {<<>>}, Is(Front(q)), q \notin DOMAIN m2
      PROVE KidRef(U[Front(q)], Last(q)) \in DOMAIN b /\ Is(q)
    <2>1. U[q] = b[KidRef(U[Front(q)], Last(q))]
        BY <1>2, <1>4
    <2>2. CASE q = p
        <3>1. KidRef(U[Front(q)], Last(q)) = o.ref
            BY <1>3, <1>4, <2>2
        <3> QED BY <2>1, <2>2, <3>1
    <2>3. CASE q # p
        <3>1. q \notin DOMAIN m /\ q # Front(p)
            BY <1>3, <1>4, <2>3
        <3>2. KidRef(U[Front(q)], Last(q)) = KidRef(T[Front(q)], Last(q))
            <4>1. CASE Front(q) = p
                <5>1. U[Front(q)] = o /\ T[Front(q)] = m[p]
                    BY <1>4, <1>a, <4>1
                <5> QED BY <5>1 DEF KidRef
            <4>2. CASE Front(q) = Front(p)
                <5>1. Last(q) # Last(p)
                    BY <1>3, <2>3, <4>2, PathUnique
                <5>2. U[Front(q)] = m2[Front(p)] /\ T[Front(q)] = m[Front(p)]
                    BY <1>3, <1>4, <1>a, <4>2
                <5> QED BY <5>1, <5>2
            <4>3. CASE Front(q) # p /\ Front(q) # Front(p)
                BY <1>4, <4>3
            <4> QED BY <4>1, <4>2, <4>3
        <3>3. T[q] = b[KidRef(T[Front(q)], Last(q))]
            BY <1>1, <3>1
        <3>4. KidRef(T[Front(q)], Last(q)) \in DOMAIN b
            BY <3>1 DEF TreeOK
        <3> QED BY <2>1, <2>3, <3>1, <3>2, <3>3, <3>4
    <2> QED BY <2>2, <2>3
<1>5. <<>> \in S
    BY <1>1, <1>2, PathForms
<1>6. ASSUME NEW q \in Paths \ {<<>>}, Front(q) \in S PROVE q \in S
    <2>1. CASE q \in DOMAIN m2
        BY <1>2, <1>a, <2>1
    <2>2. CASE q \notin DOMAIN m2
        BY <1>4, <1>6, <2>2
    <2> QED BY <2>1, <2>2
<1>7. Paths \subseteq S
    <2> HIDE DEF S
    <2> QED BY <1>5, <1>6, PathInduction
<1>8. \A q \in Paths : Is(q)
    BY <1>7
<1>9. TreeOK(RootOf(m2), m2, b)
    <2>1. ObjectAt(<<>>, RootOf(m2))
        BY DEF RootOf
    <2>2. \A q \in Paths \ ({<<>>} \cup DOMAIN m2) : KidRef(U[Front(q)], Last(q)) \in DOMAIN b
        BY <1>4, <1>8, PathStep
    <2> QED BY <1>3, <2>1, <2>2 DEF TreeOK
<1> QED BY <1>8, <1>9

\* A sweep keeps both trees, and every block that one of them has.
LEMMA SweepKeeps ==
    ASSUME NEW m, NEW b, NEW h, InOrder(m, b, h),
           NEW c, c = [r \in (InUse(m, b, h) \cap DOMAIN b) \cup {Nil} |-> b[r]]
    PROVE /\ InOrder(m, c, h) /\ c[h] = b[h]
          /\ InStore(h, c) = InStore(h, b)
          /\ InMemory(m, c) = InMemory(m, b)
          /\ \A r \in DOMAIN b : r = RootOf(m).ref => r \in DOMAIN c /\ c[r] = b[r]
<1>1. PICK used : used = InUse(m, b, h)
    OBVIOUS
<1>2. /\ RefsOf(Tree(RootOf(m), m, b)) \subseteq used
      /\ RefsOf(Tree(b[h], NoTree, b)) \subseteq used
    BY <1>1 DEF InUse, InMemory, InStore
<1>3. BodyOK(c)
    BY <1>1, SweptBody DEF InOrder
<1>4. Tree(RootOf(m), m, c) = Tree(RootOf(m), m, b) /\ TreeOK(RootOf(m), m, c)
    BY <1>1, <1>2, SweptTree DEF InOrder
<1>5. Tree(b[h], NoTree, c) = Tree(b[h], NoTree, b) /\ TreeOK(b[h], NoTree, c)
    BY <1>1, <1>2, SweptTree DEF InOrder
<1>6. h \in DOMAIN c /\ c[h] = b[h]
    <2>1. b[h].ref = h
        BY DEF InOrder, BodyOK, New
    <2>2. Tree(b[h], NoTree, b)[<<>>] = b[h]
        BY TreeAt
    <2>3. h \in used \cup {Nil}
        BY <1>2, <2>1, <2>2, PathForms DEF RefsOf
    <2> QED BY <1>1, <2>3 DEF InOrder
<1>7. ASSUME NEW r \in DOMAIN b, r = RootOf(m).ref PROVE r \in DOMAIN c /\ c[r] = b[r]
    <2>1. Tree(RootOf(m), m, b)[<<>>] = RootOf(m)
        BY TreeAt
    <2>2. r \in used \cup {Nil}
        BY <1>2, <1>7, <2>1, PathForms DEF RefsOf
    <2> QED BY <1>1, <2>2
<1> QED BY <1>3, <1>4, <1>5, <1>6, <1>7 DEF InOrder, InStore, InMemory

\* A new block is told apart from all that are in use.
LEMMA FreshIsNew ==
    ASSUME InOrder(mem, body, head), NEW p \in Paths
    PROVE Fresh(p) \in {p} \X (1..MaxRef) /\ Fresh(p) \notin InUse(mem, body, head)
<1>1. PICK T : T = InMemory(mem, body)
    OBVIOUS
<1>2. PICK U : U = InStore(head, body)
    OBVIOUS
<1>3. \A q \in Paths : ObjectAt(q, T[q])
    BY <1>1, TreeObjects DEF InOrder, InMemory
<1>4. \A q \in Paths : ObjectAt(q, U[q])
    BY <1>2, TreeObjects DEF InOrder, InStore
<1>5. PICK c : c = KidRef(mem[Front(p)], Last(p))
    OBVIOUS
<1>6. ASSUME NEW r \in {p} \X (1..MaxRef), r \in InUse(mem, body, head)
      PROVE r \in {T[p].ref, U[p].ref, c}
    <2>0. r[1] = p /\ r # Nil
        BY DEF Nil
    <2>1. ASSUME NEW q \in Paths, r \in Named(q) PROVE q = p
        BY <2>0, <2>1 DEF Named
    <2>2. CASE r \in RefsOf(T)
        <3>1. PICK q \in Paths : r = T[q].ref
            BY <2>2 DEF RefsOf
        <3> QED BY <1>3, <2>1, <3>1 DEF ObjectAt
    <2>3. CASE r \in RefsOf(U)
        <3>1. PICK q \in Paths : r = U[q].ref
            BY <2>3 DEF RefsOf
        <3> QED BY <1>4, <2>1, <3>1 DEF ObjectAt
    <2>4. CASE r \in UNION {ToSet(mem[q].kids) : q \in DOMAIN mem}
        <3>1. PICK q \in DOMAIN mem : r \in ToSet(mem[q].kids)
            BY <2>4
        <3>2. PICK i \in DOMAIN mem[q].kids : r = mem[q].kids[i]
            BY <3>1 DEF ToSet
        <3>3. ObjectAt(q, mem[q])
            BY DEF InOrder, TreeOK
        <3>4. PICK s \in Paths \ {<<>>} : Front(s) = q /\ Last(s) = i /\ r \in Named(s)
            BY <3>2, <3>3 DEF ObjectAt
        <3>5. s = p
            BY <2>1, <3>4
        <3> QED BY <1>5, <3>2, <3>4, <3>5 DEF KidRef
    <2> QED BY <1>1, <1>2, <1>6, <2>2, <2>3, <2>4 DEF InUse
<1>7. \E r \in {p} \X (1..MaxRef) : r \notin InUse(mem, body, head)
    <2>1. /\ <<p, 1>> \in {p} \X (1..MaxRef) /\ <<p, 2>> \in {p} \X (1..MaxRef)
          /\ <<p, 3>> \in {p} \X (1..MaxRef) /\ <<p, 4>> \in {p} \X (1..MaxRef)
        BY UTFileSystemAssumption
    <2>2. \E r \in {<<p, 1>>, <<p, 2>>, <<p, 3>>, <<p, 4>>} : r \notin {T[p].ref, U[p].ref, c}
        OBVIOUS
    <2> QED BY <1>6, <2>1, <2>2
<1> QED BY <1>7 DEF Fresh

-----------------------------------------------------------------------------
(* What the users see *)

\* The entries of a root are files.
LEMMA RootEntries ==
    ASSUME NEW o, ObjectAt(<<>>, o) PROVE DOMAIN o.kids \subseteq Files
<1> SUFFICES ASSUME NEW i \in DOMAIN o.kids PROVE i \in Files
    OBVIOUS
<1>1. PICK q \in Paths \ {<<>>} : Front(q) = <<>> /\ Last(q) = i
    BY DEF ObjectAt
<1> QED BY <1>1, TopPlaces

\* d is a block of a tree that was written.
Written(T, d) ==
    \E f \in DOMAIN T[<<>>].kids, n \in 1..NBlocks :
       d = <<f, n, T[Block(f, n)].val>> /\ T[Block(f, n)].val # Zero

\* Contents, written out.
LEMMA ContentsOf ==
    ASSUME NEW T
    PROVE /\ Contents(T) = [files |-> Contents(T).files, data |-> Contents(T).data]
          /\ Contents(T).files = DOMAIN T[<<>>].kids
          /\ \A d : d \in Contents(T).data <=> Written(T, d)
BY DEF Contents, Written

\* Contents are the entries of the root and the values of the blocks.
LEMMA SameContents ==
    ASSUME NEW T, NEW U, DOMAIN T[<<>>].kids = DOMAIN U[<<>>].kids,
           DOMAIN T[<<>>].kids \subseteq Files, \A p \in Paths : T[p].val = U[p].val
    PROVE Contents(T) = Contents(U)
<1>1. \A f \in DOMAIN T[<<>>].kids, n \in 1..NBlocks : T[Block(f, n)].val = U[Block(f, n)].val
    BY PathForms
<1>2. Contents(T).files = Contents(U).files
    BY ContentsOf
<1>3. \A d : d \in Contents(T).data <=> d \in Contents(U).data
    <2>1. \A d : Written(T, d) <=> Written(U, d)
        BY <1>1 DEF Written
    <2> QED BY <2>1, ContentsOf
<1>4. Contents(T).data = Contents(U).data
    BY <1>3
<1> QED BY <1>2, <1>4, ContentsOf

-----------------------------------------------------------------------------
(* Mounting, publishing and losing the tree *)

\* A tree with no dirty object but its root is the stored one.
LEMMA BareTree ==
    ASSUME NEW root, NEW m, DOMAIN m \subseteq {<<>>}, NEW b
    PROVE /\ Tree(root, m, b) = Tree(root, NoTree, b)
          /\ TreeOK(root, m, b) => TreeOK(root, NoTree, b)
          /\ TreeOK(root, NoTree, b) /\ (<<>> \in DOMAIN m => m[<<>>] = root) => TreeOK(root, m, b)
<1>1. PICK T : T = Tree(root, NoTree, b)
    OBVIOUS
<1>2. PICK U : U = Tree(root, m, b)
    OBVIOUS
<1>3. DOMAIN NoTree = {}
    BY DEF NoTree
<1>4. /\ T = [p \in Paths |-> T[p]] /\ T[<<>>] = root
      /\ \A p \in Paths \ {<<>>} : T[p] = b[KidRef(T[Front(p)], Last(p))]
    BY <1>1, <1>3, TreeAt
<1>5. /\ U = [p \in Paths |-> U[p]] /\ U[<<>>] = root
      /\ \A p \in Paths \ {<<>>} : U[p] = b[KidRef(U[Front(p)], Last(p))]
    BY <1>2, TreeAt
<1> DEFINE S == {p \in Paths : U[p] = T[p]}
<1>6. <<>> \in S
    BY <1>4, <1>5, PathForms
<1>7. ASSUME NEW p \in Paths \ {<<>>}, Front(p) \in S PROVE p \in S
    <2>1. U[Front(p)] = T[Front(p)]
        BY <1>7
    <2> QED BY <1>4, <1>5, <2>1
<1>8. Paths \subseteq S
    <2> HIDE DEF S
    <2> QED BY <1>6, <1>7, PathInduction
<1>9. U = T
    BY <1>4, <1>5, <1>8
<1>10. TreeOK(root, m, b) => TreeOK(root, NoTree, b)
    BY <1>1, <1>2, <1>3, <1>9 DEF TreeOK
<1>11. TreeOK(root, NoTree, b) /\ (<<>> \in DOMAIN m => m[<<>>] = root) => TreeOK(root, m, b)
    BY <1>1, <1>2, <1>3, <1>9, PathForms DEF TreeOK
<1> QED BY <1>1, <1>2, <1>9, <1>10, <1>11

\* The tree of a new root is empty.
LEMMA EmptyTree ==
    ASSUME NEW b, BodyOK(b)
    PROVE TreeOK(New, NoTree, b) /\ \A p \in Paths : Tree(New, NoTree, b)[p] = New
<1>1. PICK T : T = Tree(New, NoTree, b)
    OBVIOUS
<1>2. DOMAIN NoTree = {}
    BY DEF NoTree
<1>3. T[<<>>] = New /\ \A p \in Paths \ {<<>>} : T[p] = b[KidRef(T[Front(p)], Last(p))]
    BY <1>1, <1>2, TreeAt
<1> DEFINE S == {p \in Paths : T[p] = New}
<1>4. <<>> \in S
    BY <1>3, PathForms
<1>5. ASSUME NEW p \in Paths \ {<<>>}, Front(p) \in S PROVE p \in S
    <2>1. KidRef(T[Front(p)], Last(p)) = Nil
        BY <1>5, NewObject
    <2> QED BY <1>3, <2>1 DEF BodyOK
<1>6. Paths \subseteq S
    <2> HIDE DEF S
    <2> QED BY <1>4, <1>5, PathInduction
<1>7. \A p \in Paths : T[p] = New
    BY <1>6
<1>8. \A p \in Paths \ {<<>>} : KidRef(T[Front(p)], Last(p)) = Nil
    BY <1>7, PathStep, NewObject
<1>9. TreeOK(New, NoTree, b)
    BY <1>1, <1>2, <1>8, NewObject DEF TreeOK, BodyOK
<1> QED BY <1>1, <1>7, <1>9

\* Without a process there is no tree in memory.
LEMMA NothingMounted ==
    ASSUME NEW m, NEW b, NEW h, InOrder(m, b, h) PROVE InOrder(NoTree, b, h) /\ DirtyAbove(NoTree)
<1>1. DOMAIN NoTree = {} /\ RootOf(NoTree) = New
    BY DEF NoTree, RootOf
<1>2. TreeOK(New, NoTree, b)
    BY EmptyTree DEF InOrder
<1> QED BY <1>1, <1>2 DEF InOrder, DirtyAbove

\* A mounted root is the published tree.
LEMMA MountedTree ==
    ASSUME NEW n, NEW m, NEW b, NEW h, InOrder(n, b, h), DOMAIN m = {<<>>}, m[<<>>] = b[h]
    PROVE InOrder(m, b, h) /\ InMemory(m, b) = InStore(h, b)
<1>1. RootOf(m) = b[h]
    BY DEF RootOf
<1>2. Tree(b[h], m, b) = Tree(b[h], NoTree, b)
    BY BareTree
<1>3. TreeOK(b[h], m, b)
    BY BareTree DEF InOrder
<1> QED BY <1>1, <1>2, <1>3 DEF InOrder, InMemory, InStore

\* A root without dirty objects that is stored can be published.
LEMMA PublishedTree ==
    ASSUME NEW m, NEW b, NEW h, InOrder(m, b, h), DOMAIN m = {<<>>},
           NEW r, r = m[<<>>].ref, r \in DOMAIN b, b[r] = m[<<>>]
    PROVE InOrder(m, b, r) /\ InOrder(NoTree, b, r) /\ InStore(r, b) = InMemory(m, b)
<1>1. RootOf(m) = b[r]
    BY DEF RootOf
<1>2. Tree(b[r], m, b) = Tree(b[r], NoTree, b)
    BY BareTree
<1>3. TreeOK(b[r], m, b)
    BY <1>1 DEF InOrder
<1>4. TreeOK(b[r], NoTree, b)
    BY <1>3, BareTree
<1>5. r \in Named(<<>>)
    BY <1>3 DEF TreeOK, ObjectAt
<1>6. InOrder(m, b, r)
    BY <1>1, <1>3, <1>4, <1>5 DEF InOrder
<1> QED BY <1>1, <1>2, <1>6, NothingMounted DEF InMemory, InStore

-----------------------------------------------------------------------------
(* The steps, but for the changes of files and bn_persist *)

\* What the users see, as it is mapped to the contents of DurableFS.
Seen == IF phase = "down" THEN Contents(Published) ELSE Contents(Here)

\* The references that are told apart.
Used == InUse(mem, body, head)

\* The store's list is l, where of the blocks that nothing refers to only the place counts.
Swept(l) == lru' = [i \in DOMAIN l |-> IF l[i] \in Used' THEN l[i] ELSE Nil]

\* The trees after a step that ends with a sweep of the blocks b.
LEMMA SweepStep ==
    ASSUME NEW l, NEW b, Sweep(l, mem', b, head'), InOrder(mem', b, head')
    PROVE /\ InOrder(mem, body, head)'
          /\ Here' = InMemory(mem', b) /\ Published' = InStore(head', b)
          /\ body'[head'] = b[head']
          /\ \A r \in DOMAIN b : r = RootOf(mem').ref => r \in DOMAIN body' /\ body'[r] = b[r]
          /\ Swept(l)
<1>1. body' = [r \in (InUse(mem', b, head') \cap DOMAIN b) \cup {Nil} |-> b[r]]
    BY DEF Sweep
<1>2. /\ InOrder(mem, body, head)'
      /\ Here' = InMemory(mem', b) /\ Published' = InStore(head', b)
      /\ body'[head'] = b[head']
      /\ \A r \in DOMAIN b : r = RootOf(mem').ref => r \in DOMAIN body' /\ body'[r] = b[r]
    BY <1>1, SweepKeeps DEF Here, Published
<1>3. Used' = InUse(mem', b, head')
    BY <1>2 DEF Used, InUse, Here, Published
<1>4. lru' = [i \in DOMAIN l |-> IF l[i] \in InUse(mem', b, head') THEN l[i] ELSE Nil]
    BY DEF Sweep
<1> QED BY <1>2, <1>3, <1>4 DEF Swept

\* The process ends.
LEMMA DownStep ==
    ASSUME Inv, Down, Sweep(lru, mem', body, head'), UNCHANGED head
    PROVE /\ Inv' /\ Seen' = Contents(Published) /\ Contents(Published)' = Contents(Published)
          /\ Published' = Published /\ Swept(lru)
<1>1. mem' = NoTree /\ phase' = "down" /\ dirty' = FALSE
    BY DEF Down
<1>2. InOrder(mem', body, head')
    BY <1>1, NothingMounted DEF Inv
<1>3. InOrder(mem, body, head)' /\ Published' = InStore(head', body) /\ Swept(lru)
    BY <1>2, SweepStep
<1>4. DirtyAbove(mem')
    BY <1>1, NothingMounted DEF Inv
<1>5. Settled'
    BY <1>1 DEF Settled
<1>6. Published' = Published
    BY <1>3 DEF Published
<1> QED BY <1>1, <1>3, <1>4, <1>5, <1>6 DEF Inv, Seen

\* The root is read, or made, and nothing else is in memory.
LEMMA MountStep ==
    ASSUME Inv, phase = "down", mem' = [p \in {<<>>} |-> body[head]], UNCHANGED <<body, head>>,
           \/ phase' = "idle" /\ UNCHANGED dirty
           \/ phase' = "flush" /\ dirty'
    PROVE /\ Inv' /\ Seen' = Seen /\ Contents(Published)' = Contents(Published)
          /\ Here' = Published /\ Published' = Published
<1>1. DOMAIN mem' = {<<>>} /\ mem'[<<>>] = body[head]
    OBVIOUS
<1>2. InOrder(mem', body, head) /\ InMemory(mem', body) = InStore(head, body)
    BY <1>1, MountedTree DEF Inv
<1>3. DirtyAbove(mem')
    BY <1>1 DEF DirtyAbove
<1>4. Settled'
    BY <1>1 DEF Inv, Settled
<1>5. Here' = Published /\ Published' = Published
    BY <1>2 DEF Here, Published
<1> QED BY <1>2, <1>3, <1>4, <1>5 DEF Inv, Seen

\* Steps of operations that leave the tree alone.
LEMMA QuietStep ==
    ASSUME Inv, phase # "down", UNCHANGED <<mem, body, head, dirty>>,
           \/ UNCHANGED phase
           \/ phase = "idle" /\ phase' = "flush" /\ dirty
           \/ phase = "idle" /\ phase' = "waits"
    PROVE Inv' /\ Seen' = Seen /\ Contents(Published)' = Contents(Published)
<1>1. Settled'
    BY DEF Inv, Settled
<1>2. Here' = Here /\ Published' = Published /\ phase' # "down"
    BY DEF Here, Published
<1> QED BY <1>1, <1>2 DEF Inv, Seen

\* The root is published.
LEMMA PublishStep ==
    ASSUME Inv, rootref
    PROVE /\ Inv' /\ Seen' = Seen /\ Contents(Published)' = Seen
          /\ Published' = Here /\ Swept(lru)
          /\ \/ phase' = "down" /\ mem' = NoTree
             \/ phase' = "idle" /\ mem' = mem /\ Here' = Here
<1>1. phase = "publish" /\ head' = mem[<<>>].ref
    BY DEF rootref
<1>2. /\ DOMAIN mem = {<<>>} /\ ~dirty
      /\ head' \in DOMAIN body /\ body[head'] = mem[<<>>]
    BY <1>1 DEF Inv, Settled
<1>3. /\ InOrder(mem, body, head') /\ InOrder(NoTree, body, head')
      /\ InStore(head', body) = InMemory(mem, body)
    BY <1>1, <1>2, PublishedTree DEF Inv
<1>4. \/ mem' = NoTree /\ phase' = "down" /\ ~dirty'
      \/ mem' = mem /\ phase' = "idle" /\ dirty' = dirty
    BY DEF rootref, Down
<1>5. Sweep(lru, mem', body, head')
    BY DEF rootref
<1>6. InOrder(mem', body, head')
    BY <1>3, <1>4
<1>7. /\ InOrder(mem, body, head)' /\ Here' = InMemory(mem', body)
      /\ Published' = InStore(head', body) /\ body'[head'] = body[head'] /\ Swept(lru)
    BY <1>5, <1>6, SweepStep
<1>8. DirtyAbove(mem')
    BY <1>4, NothingMounted DEF Inv
<1>9. Settled'
    BY <1>2, <1>4, <1>7 DEF Settled
<1>10. Seen = Contents(Here) /\ Published' = Here
    BY <1>1, <1>3, <1>7 DEF Seen, Here
<1>11. Seen' = Contents(Here)
    BY <1>3, <1>4, <1>7, <1>10 DEF Seen, Here
<1>12. mem' = mem => Here' = Here
    BY <1>7 DEF Here
<1> QED BY <1>4, <1>7, <1>8, <1>9, <1>10, <1>11, <1>12 DEF Inv

-----------------------------------------------------------------------------
(* Changes of files *)

\* The tree of the users: dirty objects, and an object for every place.
LEMMA HereObjects ==
    ASSUME Inv, phase # "down"
    PROVE /\ <<>> \in DOMAIN mem /\ DOMAIN mem \subseteq Paths
          /\ \A q \in DOMAIN mem : Here[q] = mem[q]
          /\ \A q \in Paths : ObjectAt(q, Here[q])
          /\ \A q \in Paths \ DOMAIN mem : Here[q] = body[KidRef(Here[Front(q)], Last(q))]
          /\ Here[<<>>] = mem[<<>>]
          /\ DOMAIN mem[<<>>].kids \subseteq Files
          /\ Seen = Contents(Here)
<1>1. <<>> \in DOMAIN mem /\ DOMAIN mem \subseteq Paths
    BY DEF Inv, Settled, InOrder, TreeOK
<1>2. Here = Tree(RootOf(mem), mem, body) /\ RootOf(mem) = mem[<<>>]
    BY <1>1 DEF Here, InMemory, RootOf
<1>3. /\ Here[<<>>] = mem[<<>>]
      /\ \A q \in Paths \ {<<>>} :
            Here[q] = IF q \in DOMAIN mem THEN mem[q] ELSE body[KidRef(Here[Front(q)], Last(q))]
    BY <1>2, TreeAt
<1>4. \A q \in Paths : ObjectAt(q, Here[q])
    BY <1>2, TreeObjects DEF Inv, InOrder
<1>5. DOMAIN mem[<<>>].kids \subseteq Files
    BY <1>3, <1>4, PathForms, RootEntries
<1>6. \A q \in DOMAIN mem : Here[q] = mem[q]
    BY <1>1, <1>3
<1>7. \A q \in Paths \ DOMAIN mem : Here[q] = body[KidRef(Here[Front(q)], Last(q))]
    BY <1>1, <1>3
<1> QED BY <1>1, <1>3, <1>4, <1>5, <1>6, <1>7 DEF Seen

\* The tree loses the references to the places in X, and keeps the others.
Trimmed(X) ==
    /\ Published' = Published /\ Swept(lru)
    /\ DOMAIN mem \ X \subseteq DOMAIN mem'
    /\ \A q \in Paths \ {<<>>} :
          KidRef(Here'[Front(q)], Last(q)) =
              IF q \in X THEN Nil ELSE KidRef(Here[Front(q)], Last(q))

\* Something is under every indirect block of the tree T with the dirty objects m.
Filled(m, T) ==
    \A f \in Files : Indirect(f) \in DOMAIN m \/ T[Indirect(f)].ref # Nil =>
        \E k \in 1..NBlocks : /\ k > NDIRECT
                              /\ \/ Block(f, k) \in DOMAIN m
                                 \/ k - NDIRECT \in DOMAIN T[Indirect(f)].kids

\* T has all the references that P has.
Within(P, T) ==
    /\ T[<<>>].ref = P[<<>>].ref
    /\ \A f \in DOMAIN P[<<>>].kids : f \in DOMAIN T[<<>>].kids /\ T[<<f>>].ref = P[<<f>>].ref
    /\ \A q \in Paths \ {<<>>} : Front(q) # <<>> /\ KidRef(P[Front(q)], Last(q)) # Nil =>
          KidRef(T[Front(q)], Last(q)) = KidRef(P[Front(q)], Last(q))
    /\ \A f \in Files : DOMAIN P[Indirect(f)].kids \subseteq DOMAIN T[Indirect(f)].kids

\* A step that leaves other dirty objects, the root marked.
LEMMA EditStep ==
    ASSUME Inv, phase # "down", phase' = "idle", dirty', UNCHANGED head,
           Sweep(lru, mem', body, head), DirtyAbove(mem'),
           <<>> \in DOMAIN mem',
           \A q \in DOMAIN mem' : q \in Paths /\ ObjectAt(q, mem'[q]),
           NEW X, DOMAIN mem' \cap X = {},
           DOMAIN mem \ X \subseteq DOMAIN mem',
           \A q \in Paths \ {<<>>} :
              /\ Front(q) \in X => q \in X
              /\ q \in X /\ Front(q) \notin X =>
                    Front(q) \in DOMAIN mem' /\ KidRef(mem'[Front(q)], Last(q)) = Nil
              /\ q \notin X /\ Front(q) \in DOMAIN mem' =>
                    KidRef(mem'[Front(q)], Last(q)) = KidRef(Here[Front(q)], Last(q))
    PROVE /\ Inv' /\ Contents(Published)' = Contents(Published) /\ Seen' = Contents(Here)'
          /\ DOMAIN mem'[<<>>].kids \subseteq Files
          /\ \A q \in Paths : Here'[q] = IF q \in X THEN New
                                         ELSE IF q \in DOMAIN mem' THEN mem'[q] ELSE Here[q]
          /\ Trimmed(X)
<1>1. BodyOK(body) /\ TreeOK(RootOf(mem), mem, body) /\ Here = Tree(RootOf(mem), mem, body)
    BY DEF Inv, InOrder, Here, InMemory
<1>2. PICK U : U = Tree(RootOf(mem'), mem', body)
    OBVIOUS
<1>3. PICK T : T = Here
    OBVIOUS
<1>4. PICK m : m = mem
    OBVIOUS
<1>5. PICK m2 : m2 = mem'
    OBVIOUS
<1>6. PICK b : b = body
    OBVIOUS
<1>7. /\ TreeOK(RootOf(m2), m2, b)
      /\ \A q \in Paths : U[q] = IF q \in X THEN New
                                 ELSE IF q \in DOMAIN m2 THEN m2[q] ELSE T[q]
    <2>1. \A q \in Paths \ {<<>>} :
              /\ Front(q) \in X => q \in X
              /\ q \in X /\ Front(q) \notin X =>
                    Front(q) \in DOMAIN m2 /\ KidRef(m2[Front(q)], Last(q)) = Nil
              /\ q \notin X /\ Front(q) \in DOMAIN m2 =>
                    KidRef(m2[Front(q)], Last(q)) = KidRef(T[Front(q)], Last(q))
        BY <1>3, <1>5
    <2>2. /\ <<>> \in DOMAIN m2 /\ DOMAIN m2 \cap X = {} /\ DOMAIN m \ X \subseteq DOMAIN m2
          /\ \A q \in DOMAIN m2 : q \in Paths /\ ObjectAt(q, m2[q])
        BY <1>4, <1>5
    <2>3. /\ BodyOK(b) /\ TreeOK(RootOf(m), m, b) /\ T = Tree(RootOf(m), m, b)
          /\ U = Tree(RootOf(m2), m2, b)
        BY <1>1, <1>2, <1>3, <1>4, <1>5, <1>6
    <2> QED BY ONLY <2>1, <2>2, <2>3, EditedTree
<1>8. InOrder(mem', body, head')
    BY <1>5, <1>6, <1>7 DEF Inv, InOrder
<1>9. /\ InOrder(mem, body, head)' /\ Here' = U /\ Published' = Published /\ Swept(lru)
    <2>1. /\ InOrder(mem, body, head)' /\ Here' = InMemory(mem', body)
          /\ Published' = InStore(head', body) /\ Swept(lru)
        BY <1>8, SweepStep
    <2> QED BY <1>2, <2>1 DEF InMemory, Published
<1>10. Settled'
    BY DEF Settled
<1>11. DOMAIN mem'[<<>>].kids \subseteq Files
    BY RootEntries
<1>12. \A q \in Paths : Here'[q] = IF q \in X THEN New
                                    ELSE IF q \in DOMAIN mem' THEN mem'[q] ELSE Here[q]
    BY <1>3, <1>5, <1>7, <1>9
<1>13. ASSUME NEW q \in Paths \ {<<>>}
       PROVE KidRef(Here'[Front(q)], Last(q)) =
                 IF q \in X THEN Nil ELSE KidRef(Here[Front(q)], Last(q))
    <2>1. Front(q) \in Paths
        BY PathStep
    <2>2. CASE Front(q) \in X
        <3>1. Here'[Front(q)] = New /\ q \in X
            BY <1>12, <2>1, <2>2
        <3> QED BY <3>1, NewObject
    <2>3. CASE Front(q) \notin X /\ Front(q) \in DOMAIN mem'
        BY <1>12, <2>1, <2>3
    <2>4. CASE Front(q) \notin X /\ Front(q) \notin DOMAIN mem'
        BY <1>12, <2>1, <2>4
    <2> QED BY <2>2, <2>3, <2>4
<1>14. Trimmed(X)
    BY <1>9, <1>13 DEF Trimmed
<1> QED BY <1>9, <1>10, <1>11, <1>12, <1>14 DEF Inv, Seen

\* The published tree: an object for every place, found under the reference to it.
LEMMA PublishedObjects ==
    ASSUME Inv
    PROVE /\ \A q \in Paths : ObjectAt(q, Published[q])
          /\ \A q \in Paths \ {<<>>} : Published[q].ref = KidRef(Published[Front(q)], Last(q))
          /\ Published[<<>>] = body[head]
          /\ DOMAIN Published[<<>>].kids \subseteq Files
<1>1. Published = Tree(body[head], NoTree, body) /\ DOMAIN NoTree = {}
    BY DEF Published, InStore, NoTree
<1>2. /\ \A q \in Paths : ObjectAt(q, Published[q])
      /\ \A q \in Paths \ {<<>>} : Published[q].ref = KidRef(Published[Front(q)], Last(q))
    BY <1>1, TreeObjects DEF Inv, InOrder
<1>3. Published[<<>>] = body[head]
    BY <1>1, TreeAt
<1>4. DOMAIN Published[<<>>].kids \subseteq Files
    BY <1>2, PathForms, RootEntries
<1> QED BY <1>2, <1>3, <1>4

\* What has all references of P still has them when nothing below the root changes.
LEMMA StillWithin ==
    ASSUME Inv, Within(Published, Here), NEW U, U[<<>>].ref = Here[<<>>].ref,
           DOMAIN Here[<<>>].kids \subseteq DOMAIN U[<<>>].kids,
           \A q \in Paths \ {<<>>} : U[q].ref = Here[q].ref /\ U[q].kids = Here[q].kids
    PROVE Within(Published, U)
<1>1. DOMAIN Published[<<>>].kids \subseteq Files
    BY PublishedObjects
<1>2. PICK P : P = Published
    OBVIOUS
<1>3. PICK T : T = Here
    OBVIOUS
<1>4. ASSUME NEW f \in DOMAIN P[<<>>].kids
      PROVE f \in DOMAIN U[<<>>].kids /\ U[<<f>>].ref = P[<<f>>].ref
    <2>1. f \in DOMAIN T[<<>>].kids /\ T[<<f>>].ref = P[<<f>>].ref
        BY <1>2, <1>3 DEF Within
    <2>2. <<f>> \in Paths \ {<<>>}
        BY <1>1, <1>2, InodeForm
    <2> QED BY <1>3, <2>1, <2>2
<1>5. \A q \in Paths \ {<<>>} : \A i : KidRef(U[q], i) = KidRef(T[q], i)
    BY <1>3 DEF KidRef
<1>6. \A q \in Paths \ {<<>>} : Front(q) # <<>> /\ KidRef(P[Front(q)], Last(q)) # Nil =>
          KidRef(U[Front(q)], Last(q)) = KidRef(P[Front(q)], Last(q))
    BY <1>2, <1>3, <1>5, PathStep DEF Within
<1>7. \A f \in Files : DOMAIN P[Indirect(f)].kids \subseteq DOMAIN U[Indirect(f)].kids
    BY <1>2, <1>3, IndirectForm DEF Within
<1> QED BY <1>2, <1>4, <1>6, <1>7 DEF Within

\* Nothing is at a place whose parent is new and clean.
LEMMA NothingBelow ==
    ASSUME Inv, phase # "down", NEW q \in Paths \ {<<>>}, q \notin DOMAIN mem,
           KidRef(Here[Front(q)], Last(q)) = Nil
    PROVE Here[q] = New
<1>1. Here[q] = body[Nil]
    BY HereObjects
<1> QED BY <1>1 DEF Inv, InOrder, BodyOK

\* A file that does not exist has nothing.
LEMMA NoFile ==
    ASSUME Inv, phase # "down", NEW f \in Files, ~Exists(f)
    PROVE <<f>> \notin DOMAIN mem /\ \A q \in FilePlaces(f) : Here[q] = New
<1> DEFINE S == {q \in Paths : q \in FilePlaces(f) => q \notin DOMAIN mem /\ Here[q] = New}
<1>1. <<>> \in S
    BY PathForms DEF FilePlaces
<1>2. ASSUME NEW q \in Paths \ {<<>>}, Front(q) \in S PROVE q \in S
    <2>1. CASE Front(q) \in FilePlaces(f)
        <3>1. Front(q) \notin DOMAIN mem /\ Here[Front(q)] = New
            BY <1>2, <2>1
        <3>2. q \notin DOMAIN mem
            BY <3>1 DEF Inv, DirtyAbove
        <3>3. Here[q] = New
            BY <3>1, <3>2, NothingBelow, NewObject
        <3> QED BY <3>2, <3>3
    <2>2. CASE q = <<f>>
        <3>1. q \notin DOMAIN mem
            BY <2>2 DEF Exists, Inv, DirtyAbove
        <3>2. KidRef(Here[Front(q)], Last(q)) = Nil
            BY <2>2, InodeForm, HereObjects DEF Exists, KidRef
        <3> QED BY <3>1, <3>2, NothingBelow
    <2>3. CASE q \notin FilePlaces(f)
        BY <2>3
    <2> QED BY <2>1, <2>2, <2>3, BelowInode
<1>3. Paths \subseteq S
    <2> HIDE DEF S
    <2> QED BY <1>1, <1>2, PathInduction
<1>4. <<f>> \in FilePlaces(f)
    BY InodeForm DEF FilePlaces
<1> QED BY <1>3, <1>4 DEF FilePlaces

\* fs_mknod: the new file is there, empty.
LEMMA MknodStep ==
    ASSUME Inv, NEW f \in Files, fs_mknod(f)
    PROVE /\ Inv' /\ Contents(Published)' = Contents(Published)
          /\ Seen' = [Seen EXCEPT !.files = @ \cup {f}] /\ f \notin Seen.files
          /\ Trimmed({})
          /\ Filled(mem, Here) => Filled(mem', Here')
          /\ Within(Published, Here) => Within(Published, Here')
<1> DEFINE root == mem[<<>>]
           kids == [g \in DOMAIN root.kids \cup {f} |-> IF g = f THEN Nil ELSE root.kids[g]]
<1>1. /\ phase = "idle" /\ ~Exists(f) /\ UNCHANGED <<phase, head>> /\ dirty' = TRUE
      /\ Sweep(lru, mem', body, head)
      /\ mem' = [p \in DOMAIN mem \cup {<<f>>} |->
                  IF p = <<f>> THEN New
                  ELSE IF p = <<>> THEN [mem[p] EXCEPT !.kids = kids] ELSE mem[p]]
    BY DEF fs_mknod, Idle, Changed
<1>2. /\ <<>> \in DOMAIN mem /\ DOMAIN mem \subseteq Paths
      /\ \A q \in DOMAIN mem : Here[q] = mem[q]
      /\ \A q \in Paths : ObjectAt(q, Here[q])
      /\ Here[<<>>] = root /\ DOMAIN root.kids \subseteq Files /\ Seen = Contents(Here)
    BY <1>1, HereObjects
<1>3. <<f>> \notin DOMAIN mem /\ \A q \in FilePlaces(f) : Here[q] = New
    BY <1>1, NoFile
<1>4. <<f>> \in Paths \ {<<>>} /\ Front(<<f>>) = <<>> /\ Last(<<f>>) = f
    BY InodeForm
<1>5. /\ DOMAIN mem' = DOMAIN mem \cup {<<f>>} /\ mem'[<<f>>] = New
      /\ \A q \in DOMAIN mem \ {<<>>} : mem'[q] = mem[q]
    BY <1>1, <1>3
<1>6. mem'[<<>>] = [ref |-> root.ref, kids |-> kids, val |-> root.val]
    <2>1. root = [ref |-> root.ref, kids |-> root.kids, val |-> root.val]
        BY <1>2, PathForms DEF ObjectAt
    <2>2. mem'[<<>>] = [root EXCEPT !.kids = kids]
        BY <1>1, <1>2, <1>4
    <2> QED BY <2>1, <2>2
<1>7. f \notin DOMAIN root.kids
    BY <1>1 DEF Exists
<1>8. ObjectAt(<<>>, mem'[<<>>])
    <2>1. ObjectAt(<<>>, root)
        BY <1>2, PathForms
    <2>2. ASSUME NEW i \in DOMAIN kids
          PROVE \E q \in Paths \ {<<>>} : Front(q) = <<>> /\ Last(q) = i /\ kids[i] \in Named(q)
        <3>1. CASE i = f
            BY <1>4, <3>1 DEF Named
        <3>2. CASE i # f
            BY <2>1, <3>2 DEF ObjectAt
        <3> QED BY <3>1, <3>2
    <2>3. root.ref \in Named(<<>>)
        BY <2>1 DEF ObjectAt
    <2> HIDE DEF kids
    <2> QED BY <1>6, <2>2, <2>3 DEF ObjectAt
<1>9. \A i : KidRef(mem'[<<>>], i) = KidRef(root, i)
    BY <1>6, <1>7 DEF KidRef
<1>10. \A q \in DOMAIN mem' : q \in Paths /\ ObjectAt(q, mem'[q])
    BY <1>2, <1>4, <1>5, <1>8, NewObject
<1>11. ASSUME NEW q \in Paths \ {<<>>}, Front(q) \in DOMAIN mem'
       PROVE KidRef(mem'[Front(q)], Last(q)) = KidRef(Here[Front(q)], Last(q))
    <2>1. CASE Front(q) = <<>>
        BY <1>2, <1>9, <2>1
    <2>2. CASE Front(q) = <<f>>
        <3>1. Here[<<f>>] = New
            BY <1>3, <1>4 DEF FilePlaces
        <3> QED BY <1>5, <2>2, <3>1
    <2>3. CASE Front(q) # <<>> /\ Front(q) # <<f>>
        BY <1>2, <1>5, <1>11, <2>3
    <2> QED BY <2>1, <2>2, <2>3
<1>12. DirtyAbove(mem')
    <2>1. \A p \in DOMAIN mem' \ {<<>>} : Front(p) \in DOMAIN mem'
        BY <1>2, <1>4, <1>5 DEF Inv, DirtyAbove
    <2>2. DOMAIN mem'[<<>>].kids = DOMAIN root.kids \cup {f}
        BY <1>6
    <2>3. \A g \in Files : <<g>> \in DOMAIN mem' => g \in DOMAIN mem'[<<>>].kids
        BY <1>5, <2>2 DEF Inv, DirtyAbove
    <2> QED BY <2>1, <2>3 DEF DirtyAbove
<1>13. /\ Inv' /\ Contents(Published)' = Contents(Published) /\ Seen' = Contents(Here)'
       /\ Trimmed({})
       /\ \A q \in Paths : Here'[q] = IF q \in DOMAIN mem' THEN mem'[q] ELSE Here[q]
    <2> DEFINE X == {}
    <2>1. /\ DOMAIN mem' \cap X = {} /\ DOMAIN mem \ X \subseteq DOMAIN mem'
          /\ <<>> \in DOMAIN mem' /\ phase # "down" /\ phase' = "idle"
          /\ \A q \in Paths : q \notin X
        BY <1>1, <1>2, <1>5
    <2>2. \A q \in Paths \ {<<>>} :
              /\ Front(q) \in X => q \in X
              /\ q \in X /\ Front(q) \notin X =>
                    Front(q) \in DOMAIN mem' /\ KidRef(mem'[Front(q)], Last(q)) = Nil
              /\ q \notin X /\ Front(q) \in DOMAIN mem' =>
                    KidRef(mem'[Front(q)], Last(q)) = KidRef(Here[Front(q)], Last(q))
        BY <1>11
    <2>3. X = {}
        OBVIOUS
    <2> HIDE DEF X
    <2>4. /\ Inv' /\ Contents(Published)' = Contents(Published) /\ Seen' = Contents(Here)'
          /\ Trimmed(X)
          /\ \A q \in Paths : Here'[q] = IF q \in X THEN New
                                         ELSE IF q \in DOMAIN mem' THEN mem'[q] ELSE Here[q]
        BY <1>1, <1>10, <1>12, <2>1, <2>2, EditStep
    <2> QED BY <2>3, <2>4
<1>14. \A q \in Paths : Here'[q].val = Here[q].val
    <2>1. Here'[<<f>>].val = Here[<<f>>].val
        BY <1>3, <1>4, <1>5, <1>13 DEF FilePlaces
    <2>2. Here'[<<>>].val = Here[<<>>].val
        BY <1>2, <1>5, <1>6, <1>13, PathForms
    <2> QED BY <1>2, <1>5, <1>13, <2>1, <2>2
<1>15. DOMAIN Here'[<<>>].kids = DOMAIN Here[<<>>].kids \cup {f}
    BY <1>2, <1>5, <1>6, <1>13, PathForms
<1>16. ASSUME NEW n \in 1..NBlocks PROVE Here[Block(f, n)].val = Zero
    BY <1>3, BlockForm DEF FilePlaces, New
<1>17. \A d : d \in Contents(Here)'.data <=> d \in Contents(Here).data
    <2>1. \A g \in Files, n \in 1..NBlocks : Here'[Block(g, n)].val = Here[Block(g, n)].val
        BY <1>14, BlockForm
    <2>2. \A d : Written(Here', d) <=> Written(Here, d)
        BY <1>2, <1>15, <1>16, <2>1 DEF Written
    <2> QED BY <2>2, ContentsOf
<1>18. Contents(Here)'.data = Contents(Here).data
    BY <1>17
<1>19. /\ Contents(Here).files = DOMAIN root.kids
       /\ Contents(Here)'.files = DOMAIN root.kids \cup {f}
    BY <1>2, <1>15, ContentsOf
<1>20. /\ Contents(Here) = [files |-> Contents(Here).files, data |-> Contents(Here).data]
       /\ Contents(Here)' = [files |-> Contents(Here)'.files, data |-> Contents(Here)'.data]
    BY ContentsOf
<1>21. \A q \in Paths \ {<<>>} : Here'[q] = Here[q]
    <2>1. Here'[<<f>>] = Here[<<f>>]
        BY <1>3, <1>4, <1>5, <1>13 DEF FilePlaces
    <2> QED BY <1>2, <1>5, <1>13, <2>1
<1>22. Filled(mem, Here) => Filled(mem', Here')
    <2>1. \A g \in Files : /\ Here'[Indirect(g)] = Here[Indirect(g)]
                           /\ Indirect(g) \in DOMAIN mem' => Indirect(g) \in DOMAIN mem
        BY <1>5, <1>21, IndirectForm
    <2> QED BY <1>5, <2>1 DEF Filled
<1>23. Within(Published, Here) => Within(Published, Here')
    <2>1. Here'[<<>>] = mem'[<<>>]
        BY <1>2, <1>5, <1>13, PathForms
    <2>2. Here'[<<>>].ref = Here[<<>>].ref
        BY <1>2, <1>6, <2>1
    <2>3. DOMAIN Here[<<>>].kids \subseteq DOMAIN Here'[<<>>].kids
        BY <1>15
    <2> QED BY <1>21, <2>2, <2>3, StillWithin
<1> QED BY <1>2, <1>7, <1>13, <1>18, <1>19, <1>20, <1>22, <1>23

\* fs_unlink: the file is gone with everything that was written to it.
LEMMA UnlinkStep ==
    ASSUME Inv, NEW f \in Files, fs_unlink(f)
    PROVE /\ Inv' /\ Contents(Published)' = Contents(Published) /\ f \in Seen.files
          /\ Seen' = [files |-> Seen.files \ {f}, data |-> {d \in Seen.data : d[1] # f}]
          /\ Trimmed(FilePlaces(f))
          /\ Filled(mem, Here) => Filled(mem', Here')
<1> DEFINE root == mem[<<>>]
           kids == [i \in DOMAIN root.kids \cap (Files \ {f}) |-> root.kids[i]]
           X == FilePlaces(f)
<1>1. /\ phase = "idle" /\ Exists(f) /\ UNCHANGED <<phase, head>> /\ dirty' = TRUE
      /\ Sweep(lru, mem', body, head)
      /\ mem' = [p \in DOMAIN mem \ X |->
                  IF p = <<>> THEN [mem[p] EXCEPT !.kids = kids] ELSE mem[p]]
    BY BelowInode DEF fs_unlink, Idle, Changed, Keep
<1>2. /\ <<>> \in DOMAIN mem /\ DOMAIN mem \subseteq Paths
      /\ \A q \in DOMAIN mem : Here[q] = mem[q]
      /\ \A q \in Paths : ObjectAt(q, Here[q])
      /\ Here[<<>>] = root /\ DOMAIN root.kids \subseteq Files /\ Seen = Contents(Here)
    BY <1>1, HereObjects
<1>3. f \in DOMAIN root.kids
    BY <1>1 DEF Exists
<1>4. <<f>> \in Paths \ {<<>>} /\ Front(<<f>>) = <<>> /\ Last(<<f>>) = f
    BY InodeForm
<1>5. /\ DOMAIN mem' = DOMAIN mem \ X /\ <<>> \notin X
      /\ \A q \in DOMAIN mem' \ {<<>>} : mem'[q] = mem[q]
    BY <1>1 DEF FilePlaces
<1>6. mem'[<<>>] = [ref |-> root.ref, kids |-> kids, val |-> root.val]
    <2>1. root = [ref |-> root.ref, kids |-> root.kids, val |-> root.val]
        BY <1>2, PathForms DEF ObjectAt
    <2>2. mem'[<<>>] = [root EXCEPT !.kids = kids]
        BY <1>1, <1>2, <1>5
    <2> QED BY <2>1, <2>2
<1>7. ObjectAt(<<>>, mem'[<<>>])
    <2>1. ObjectAt(<<>>, root)
        BY <1>2, PathForms
    <2>2. ASSUME NEW i \in DOMAIN kids
          PROVE \E q \in Paths \ {<<>>} : Front(q) = <<>> /\ Last(q) = i /\ kids[i] \in Named(q)
        BY <2>1 DEF ObjectAt
    <2>3. root.ref \in Named(<<>>)
        BY <2>1 DEF ObjectAt
    <2> HIDE DEF kids
    <2> QED BY <1>6, <2>2, <2>3 DEF ObjectAt
<1>8. \A i : KidRef(mem'[<<>>], i) = IF i = f THEN Nil ELSE KidRef(root, i)
    BY <1>2, <1>6 DEF KidRef
<1>9. \A q \in DOMAIN mem' : q \in Paths /\ ObjectAt(q, mem'[q])
    BY <1>2, <1>5, <1>7
<1>10. ASSUME NEW q \in Paths \ {<<>>}, q \notin X, Front(q) \in DOMAIN mem'
       PROVE KidRef(mem'[Front(q)], Last(q)) = KidRef(Here[Front(q)], Last(q))
    <2>1. CASE Front(q) = <<>>
        <3>1. Last(q) # f
            BY <1>4, <1>10, <2>1, PathUnique DEF FilePlaces
        <3> QED BY <1>2, <1>8, <2>1, <3>1
    <2>2. CASE Front(q) # <<>>
        BY <1>2, <1>5, <1>10, <2>2
    <2> QED BY <2>1, <2>2
<1>11. ASSUME NEW q \in Paths \ {<<>>}, q \in X, Front(q) \notin X
       PROVE Front(q) \in DOMAIN mem' /\ KidRef(mem'[Front(q)], Last(q)) = Nil
    <2>1. q = <<f>>
        BY <1>11, BelowInode
    <2> QED BY <1>2, <1>4, <1>5, <1>8, <2>1
<1>12. DirtyAbove(mem')
    <2>1. \A p \in DOMAIN mem' \ {<<>>} : Front(p) \in DOMAIN mem'
        <3>1. \A p \in Paths \ {<<>>} : Front(p) \in X => p \in X
            BY BelowInode
        <3> QED BY <1>2, <1>5, <3>1 DEF Inv, DirtyAbove
    <2>2. DOMAIN mem'[<<>>].kids = DOMAIN root.kids \ {f}
        BY <1>2, <1>6
    <2>3. <<f>> \notin DOMAIN mem'
        BY <1>4, <1>5 DEF FilePlaces
    <2>4. \A g \in Files : <<g>> \in DOMAIN mem' => g \in DOMAIN mem'[<<>>].kids
        BY <1>5, <2>2, <2>3 DEF Inv, DirtyAbove
    <2> QED BY <2>1, <2>4 DEF DirtyAbove
<1>13. /\ Inv' /\ Contents(Published)' = Contents(Published) /\ Seen' = Contents(Here)'
       /\ Trimmed(X)
       /\ \A q \in Paths : Here'[q] = IF q \in X THEN New
                                      ELSE IF q \in DOMAIN mem' THEN mem'[q] ELSE Here[q]
    <2>1. /\ DOMAIN mem' \cap X = {} /\ DOMAIN mem \ X \subseteq DOMAIN mem'
          /\ <<>> \in DOMAIN mem' /\ phase # "down" /\ phase' = "idle"
        BY <1>1, <1>2, <1>5
    <2>2. \A q \in Paths \ {<<>>} : Front(q) \in X => q \in X
        BY BelowInode
    <2>3. \A q \in Paths \ {<<>>} :
              /\ Front(q) \in X => q \in X
              /\ q \in X /\ Front(q) \notin X =>
                    Front(q) \in DOMAIN mem' /\ KidRef(mem'[Front(q)], Last(q)) = Nil
              /\ q \notin X /\ Front(q) \in DOMAIN mem' =>
                    KidRef(mem'[Front(q)], Last(q)) = KidRef(Here[Front(q)], Last(q))
        BY <1>10, <1>11, <2>2
    <2> HIDE DEF X
    <2> QED BY <1>1, <1>9, <1>12, <2>1, <2>3, EditStep
<1>14. \A q \in Paths \ X : q # <<>> => Here'[q] = Here[q]
    BY <1>2, <1>5, <1>13
<1>15. DOMAIN Here'[<<>>].kids = DOMAIN root.kids \ {f}
    <2>1. Here'[<<>>] = mem'[<<>>]
        BY <1>2, <1>5, <1>13, PathForms
    <2> QED BY <1>2, <1>6, <2>1
<1>16. ASSUME NEW g \in Files \ {f}, NEW n \in 1..NBlocks
       PROVE Here'[Block(g, n)].val = Here[Block(g, n)].val
    BY <1>14, BlockForm DEF FilePlaces
<1>17. \A d : d \in Contents(Here)'.data <=> d \in {e \in Contents(Here).data : e[1] # f}
    <2>1. \A d : Written(Here', d) <=> Written(Here, d) /\ d[1] # f
        BY <1>2, <1>15, <1>16 DEF Written
    <2>2. \A d : d \in Contents(Here)'.data <=> Written(Here', d)
        BY ContentsOf
    <2>3. \A d : d \in Contents(Here).data <=> Written(Here, d)
        BY ContentsOf
    <2> QED BY <2>1, <2>2, <2>3
<1>18. Contents(Here)'.data = {e \in Contents(Here).data : e[1] # f}
    BY <1>17
<1>19. /\ Contents(Here).files = DOMAIN root.kids
       /\ Contents(Here)'.files = DOMAIN root.kids \ {f}
    BY <1>2, <1>15, ContentsOf
<1>20. Contents(Here)' = [files |-> Contents(Here)'.files, data |-> Contents(Here)'.data]
    BY ContentsOf
<1>21. Filled(mem, Here) => Filled(mem', Here')
    <2>1. ASSUME NEW g \in Files, g # f
          PROVE /\ Here'[Indirect(g)] = Here[Indirect(g)]
                /\ \A k \in 1..NBlocks : Block(g, k) \in DOMAIN mem => Block(g, k) \in DOMAIN mem'
        BY <1>5, <1>14, <2>1, IndirectForm, BlockForm DEF FilePlaces
    <2>2. Indirect(f) \notin DOMAIN mem' /\ Here'[Indirect(f)].ref = Nil
        BY <1>5, <1>13, IndirectForm DEF FilePlaces, New
    <2> QED BY <1>5, <2>1, <2>2 DEF Filled
<1> QED BY <1>2, <1>3, <1>13, <1>18, <1>19, <1>20, <1>21

\* fs_write: one block reads as what was written, all others as before.
LEMMA WriteStep ==
    ASSUME Inv, NEW f \in Files, NEW n \in 1..NBlocks, NEW v \in Values, fs_write(f, n, v)
    PROVE /\ Inv' /\ Contents(Published)' = Contents(Published) /\ f \in Seen.files
          /\ Seen' = [Seen EXCEPT !.data =
                         {d \in @ : <<d[1], d[2]>> # <<f, n>>} \cup {<<f, n, v>>}]
          /\ Trimmed({})
          /\ Filled(mem, Here) => Filled(mem', Here')
          /\ Within(Published, Here) => Within(Published, Here')
<1> DEFINE p == Block(f, n)
           root == mem[<<>>]
           o == Here[p]
<1>1. /\ phase = "idle" /\ Exists(f) /\ UNCHANGED <<phase, head>> /\ dirty' = TRUE
      /\ Sweep(lru, mem', body, head)
      /\ mem' = [q \in DOMAIN mem \cup Along[p] |->
                  IF q = p THEN [Here[q] EXCEPT !.val = v] ELSE Here[q]]
    BY DEF fs_write, Idle, Changed
<1>2. /\ <<>> \in DOMAIN mem /\ DOMAIN mem \subseteq Paths
      /\ \A q \in DOMAIN mem : Here[q] = mem[q]
      /\ \A q \in Paths : ObjectAt(q, Here[q])
      /\ Here[<<>>] = root /\ DOMAIN root.kids \subseteq Files /\ Seen = Contents(Here)
    BY <1>1, HereObjects
<1>3. f \in DOMAIN root.kids
    BY <1>1 DEF Exists
<1>4. Along[p] = {<<>>, <<f>>, p} \cup (IF n > NDIRECT THEN {Indirect(f)} ELSE {})
    BY AlongBlock
<1>5. p \in Paths \ {<<>>} /\ Along[p] \subseteq Paths
    <2>1. p \in Paths \ {<<>>}
        BY BlockForm
    <2> HIDE DEF p
    <2> QED BY <2>1 DEF Along
<1>6. /\ DOMAIN mem' = DOMAIN mem \cup Along[p] /\ p \in DOMAIN mem'
      /\ \A q \in DOMAIN mem' \ {p} : mem'[q] = Here[q]
    BY <1>1, <1>4
<1>7. mem'[p] = [ref |-> o.ref, kids |-> o.kids, val |-> v]
    <2>1. o = [ref |-> o.ref, kids |-> o.kids, val |-> o.val]
        BY <1>2, <1>5 DEF ObjectAt
    <2>2. mem'[p] = [o EXCEPT !.val = v]
        BY <1>1, <1>6
    <2> HIDE DEF o
    <2> QED BY <2>1, <2>2
<1>8. \A q \in DOMAIN mem' : q \in Paths /\ ObjectAt(q, mem'[q])
    <2>1. ObjectAt(p, o)
        BY <1>2, <1>5
    <2>2. ObjectAt(p, mem'[p])
        BY <1>7, <2>1 DEF ObjectAt
    <2> QED BY <1>2, <1>5, <1>6, <2>2
<1>9. ASSUME NEW q \in Paths \ {<<>>}, Front(q) \in DOMAIN mem'
      PROVE KidRef(mem'[Front(q)], Last(q)) = KidRef(Here[Front(q)], Last(q))
    <2>1. CASE Front(q) = p
        BY <1>7, <2>1 DEF KidRef
    <2>2. CASE Front(q) # p
        BY <1>6, <1>9, <2>2
    <2> QED BY <2>1, <2>2
<1>10. DirtyAbove(mem')
    <2>1. \A q \in Along[p] \ {<<>>} : Front(q) \in Along[p]
        <3>1. n \in Nat /\ NDIRECT \in Nat
            BY UTFileSystemAssumption
        <3> QED BY <1>4, <3>1, BlockForm, IndirectForm, InodeForm
    <2>2. \A q \in DOMAIN mem' \ {<<>>} : Front(q) \in DOMAIN mem'
        BY <1>6, <2>1 DEF Inv, DirtyAbove
    <2>3. mem'[<<>>] = root
        BY <1>2, <1>5, <1>6
    <2>4. \A g \in Files : <<g>> \in Along[p] => g = f
        BY <1>4, BlockForm, IndirectForm
    <2>5. \A g \in Files : <<g>> \in DOMAIN mem' => g \in DOMAIN mem'[<<>>].kids
        BY <1>3, <1>6, <2>3, <2>4 DEF Inv, DirtyAbove
    <2> QED BY <2>2, <2>5 DEF DirtyAbove
<1>11. /\ Inv' /\ Contents(Published)' = Contents(Published) /\ Seen' = Contents(Here)'
       /\ Trimmed({})
       /\ \A q \in Paths : Here'[q] = IF q \in DOMAIN mem' THEN mem'[q] ELSE Here[q]
    <2> DEFINE X == {}
    <2>1. /\ DOMAIN mem' \cap X = {} /\ DOMAIN mem \ X \subseteq DOMAIN mem'
          /\ <<>> \in DOMAIN mem' /\ phase # "down" /\ phase' = "idle"
          /\ \A q \in Paths : q \notin X
        BY <1>1, <1>2, <1>6
    <2>2. \A q \in Paths \ {<<>>} :
              /\ Front(q) \in X => q \in X
              /\ q \in X /\ Front(q) \notin X =>
                    Front(q) \in DOMAIN mem' /\ KidRef(mem'[Front(q)], Last(q)) = Nil
              /\ q \notin X /\ Front(q) \in DOMAIN mem' =>
                    KidRef(mem'[Front(q)], Last(q)) = KidRef(Here[Front(q)], Last(q))
        BY <1>9
    <2>3. X = {}
        OBVIOUS
    <2> HIDE DEF X
    <2>4. /\ Inv' /\ Contents(Published)' = Contents(Published) /\ Seen' = Contents(Here)'
          /\ Trimmed(X)
          /\ \A q \in Paths : Here'[q] = IF q \in X THEN New
                                         ELSE IF q \in DOMAIN mem' THEN mem'[q] ELSE Here[q]
        BY <1>1, <1>8, <1>10, <2>1, <2>2, EditStep
    <2> QED BY <2>3, <2>4
<1>12. /\ Here'[p].val = v
       /\ \A q \in Paths \ {p} : Here'[q] = Here[q]
    BY <1>5, <1>6, <1>7, <1>11
<1>13. DOMAIN Here'[<<>>].kids = DOMAIN root.kids
    BY <1>2, <1>5, <1>12, PathForms
<1>14. v # Zero
    BY UTFileSystemAssumption
<1>15. ASSUME NEW g \in Files, NEW k \in 1..NBlocks
       PROVE Here'[Block(g, k)].val = IF g = f /\ k = n THEN v ELSE Here[Block(g, k)].val
    <2>1. Block(g, k) \in Paths /\ (Block(g, k) = p <=> g = f /\ k = n)
        BY BlockForm
    <2> QED BY <1>12, <2>1
<1>16. \A d : Written(Here', d) <=> \/ Written(Here, d) /\ <<d[1], d[2]>> # <<f, n>>
                                   \/ d = <<f, n, v>>
    BY <1>2, <1>3, <1>13, <1>14, <1>15 DEF Written
<1>17. Contents(Here)'.data =
          {d \in Contents(Here).data : <<d[1], d[2]>> # <<f, n>>} \cup {<<f, n, v>>}
    <2>1. \A d : d \in Contents(Here)'.data <=> Written(Here', d)
        BY ContentsOf
    <2>2. \A d : d \in Contents(Here).data <=> Written(Here, d)
        BY ContentsOf
    <2> QED BY <1>16, <2>1, <2>2
<1>18. /\ Contents(Here).files = DOMAIN root.kids
       /\ Contents(Here)'.files = DOMAIN root.kids
    BY <1>2, <1>13, ContentsOf
<1>19. /\ Contents(Here) = [files |-> Contents(Here).files, data |-> Contents(Here).data]
       /\ Contents(Here)' = [files |-> Contents(Here)'.files, data |-> Contents(Here)'.data]
    BY ContentsOf
<1>20. \A q \in Paths : Here'[q].ref = Here[q].ref /\ Here'[q].kids = Here[q].kids
    <2>1. Here'[p] = mem'[p]
        BY <1>5, <1>6, <1>11
    <2>2. Here'[p].ref = Here[p].ref /\ Here'[p].kids = Here[p].kids
        BY <1>7, <2>1
    <2> QED BY <1>12, <2>2
<1>21. Filled(mem, Here) => Filled(mem', Here')
    <2>1. ASSUME NEW g \in Files
          PROVE /\ Here'[Indirect(g)].ref = Here[Indirect(g)].ref
                /\ DOMAIN Here'[Indirect(g)].kids = DOMAIN Here[Indirect(g)].kids
                /\ Indirect(g) \in DOMAIN mem' =>
                      Indirect(g) \in DOMAIN mem \/ (g = f /\ n > NDIRECT)
        <3>1. /\ Indirect(g) \in Paths /\ Indirect(g) # <<>> /\ Indirect(g) # <<f>> /\ Indirect(g) # p
              /\ Indirect(g) = Indirect(f) => g = f
            BY IndirectForm, BlockForm
        <3>2. Indirect(g) \in Along[p] => g = f /\ n > NDIRECT
            BY <1>4, <3>1
        <3>3. /\ Here'[Indirect(g)].ref = Here[Indirect(g)].ref
              /\ DOMAIN Here'[Indirect(g)].kids = DOMAIN Here[Indirect(g)].kids
            BY <1>20, <3>1
        <3> QED BY <1>6, <3>2, <3>3
    <2>2. Block(f, n) \in DOMAIN mem' /\ DOMAIN mem \subseteq DOMAIN mem'
        BY <1>6
    <2> QED BY <2>1, <2>2 DEF Filled
<1>22. Within(Published, Here) => Within(Published, Here')
    <2>1. Here'[<<>>].ref = Here[<<>>].ref /\ DOMAIN Here[<<>>].kids \subseteq DOMAIN Here'[<<>>].kids
        BY <1>20, PathForms
    <2> QED BY <1>20, <2>1, StillWithin
<1> QED BY <1>2, <1>3, <1>11, <1>17, <1>18, <1>19, <1>21, <1>22

\* A truncation that drops the indirect block finds nothing under it that is to stay.
LEMMA NothingLeft ==
    ASSUME Inv, phase # "down", NEW f \in Files, NEW n \in 0..NBlocks,
           ~(HasIndirect(f) /\ n > NDIRECT /\ LeftUnder(f, n) # {}),
           NEW k \in 1..NBlocks, k > NDIRECT, k <= n
    PROVE Here[Block(f, k)] = New
<1>1. /\ Block(f, k) \in Paths \ {<<>>} /\ Front(Block(f, k)) = Indirect(f)
      /\ Last(Block(f, k)) = k - NDIRECT
    BY BlockForm
<1>2. Indirect(f) \in Paths \ {<<>>}
    BY IndirectForm
<1>3. n > NDIRECT /\ NDIRECT \in Nat /\ NUMREF \in Nat
    BY UTFileSystemAssumption
<1>4. CASE ~HasIndirect(f)
    <2>1. Indirect(f) \notin DOMAIN mem /\ Here[Indirect(f)].ref = Nil
        BY <1>4 DEF HasIndirect
    <2>2. Here = Tree(RootOf(mem), mem, body) /\ BodyOK(body) /\ TreeOK(RootOf(mem), mem, body)
        BY DEF Here, InMemory, Inv, InOrder
    <2>3. Here[Indirect(f)].ref = KidRef(Here[Front(Indirect(f))], Last(Indirect(f)))
        BY <1>2, <2>1, <2>2, TreeObjects
    <2>4. Here[Indirect(f)] = New
        BY <1>2, <2>1, <2>3, NothingBelow
    <2>5. Block(f, k) \notin DOMAIN mem
        BY <1>1, <2>1 DEF Inv, DirtyAbove
    <2>6. KidRef(Here[Front(Block(f, k))], Last(Block(f, k))) = Nil
        BY <1>1, <2>4, NewObject
    <2> QED BY <1>1, <2>5, <2>6, NothingBelow
<1>5. CASE LeftUnder(f, n) = {}
    <2>1. k - NDIRECT \in 1..NUMREF /\ NDIRECT + (k - NDIRECT) = k
        BY <1>3 DEF NBlocks
    <2>2. Block(f, k) \notin DOMAIN mem /\ k - NDIRECT \notin DOMAIN Here[Indirect(f)].kids
        BY <1>5, <2>1 DEF LeftUnder
    <2>3. KidRef(Here[Front(Block(f, k))], Last(Block(f, k))) = Nil
        BY <1>1, <2>2 DEF KidRef
    <2> QED BY <1>1, <2>2, <2>3, NothingBelow
<1> QED BY <1>3, <1>4, <1>5

\* An object that keeps some of its references is one for the same place.
LEMMA KeptObject ==
    ASSUME NEW p, NEW o, ObjectAt(p, o), NEW S
    PROVE /\ ObjectAt(p, Keep(o, S)) /\ Keep(o, S).val = o.val /\ Keep(o, S).ref = o.ref
          /\ DOMAIN Keep(o, S).kids = DOMAIN o.kids \cap S
          /\ \A i : KidRef(Keep(o, S), i) = IF i \in S THEN KidRef(o, i) ELSE Nil
<1>1. PICK kids : kids = [i \in DOMAIN o.kids \cap S |-> o.kids[i]]
    OBVIOUS
<1>2. o = [ref |-> o.ref, kids |-> o.kids, val |-> o.val]
    BY DEF ObjectAt
<1>3. Keep(o, S) = [o EXCEPT !.kids = kids]
    BY <1>1 DEF Keep
<1>4. Keep(o, S) = [ref |-> o.ref, kids |-> kids, val |-> o.val]
    BY <1>2, <1>3
<1>5. \A i : KidRef(Keep(o, S), i) = IF i \in S THEN KidRef(o, i) ELSE Nil
    BY <1>1, <1>4 DEF KidRef
<1>6. \A i \in DOMAIN kids : i \in DOMAIN o.kids /\ kids[i] = o.kids[i]
    BY <1>1
<1>7. ObjectAt(p, Keep(o, S))
    BY <1>4, <1>6 DEF ObjectAt
<1>8. DOMAIN kids = DOMAIN o.kids \cap S
    BY <1>1
<1>9. /\ Keep(o, S).val = o.val /\ Keep(o, S).ref = o.ref
      /\ DOMAIN Keep(o, S).kids = DOMAIN o.kids \cap S
    BY <1>4, <1>8
<1> QED BY <1>5, <1>7, <1>9

\* fs_truncate: the first n blocks stay as they were, the others read as zeros.
LEMMA TruncateStep ==
    ASSUME Inv, NEW f \in Files, NEW n \in 0..NBlocks, fs_truncate(f, n)
    PROVE /\ Inv' /\ Contents(Published)' = Contents(Published) /\ f \in Seen.files
          /\ Seen' = [Seen EXCEPT !.data = {d \in @ : d[1] = f => d[2] <= n}]
          /\ \E X : Trimmed(X)
          /\ Filled(mem, Here) => Filled(mem', Here')
          /\ n = NBlocks /\ Filled(mem, Here) /\ Within(Published, Here) => Within(Published, Here')
<1> DEFINE root == mem[<<>>]
           stays == HasIndirect(f) /\ n > NDIRECT /\ LeftUnder(f, n) # {}
           X == {Block(f, m) : m \in (n + 1)..NBlocks}
                \cup (IF stays THEN {} ELSE {Indirect(f)} \cup Under[Indirect(f)])
           inode == {<<>>, <<f>>} \cup (IF stays /\ n < NBlocks THEN {Indirect(f)} ELSE {})
           K == (1..NDIRECT \cap 1..n) \cup (IF stays THEN {NDIRECT + 1} ELSE {})
<1>1. stays <=> HasIndirect(f) /\ n > NDIRECT /\ LeftUnder(f, n) # {}
    OBVIOUS
<1>2. /\ phase = "idle" /\ Exists(f) /\ UNCHANGED <<phase, head>> /\ dirty' = TRUE
      /\ Sweep(lru, mem', body, head)
      /\ mem' = [q \in (DOMAIN mem \cup inode) \ X |->
                  CASE q = <<f>> -> Keep(Here[q], K)
                    [] q = Indirect(f) -> Keep(Here[q], 1..(n - NDIRECT))
                    [] OTHER -> Here[q]]
    BY DEF fs_truncate, Idle, Changed
<1> HIDE DEF stays
<1>3. X = {Block(f, m) : m \in (n + 1)..NBlocks}
          \cup (IF stays THEN {} ELSE {Indirect(f)} \cup Under[Indirect(f)])
    OBVIOUS
<1>4. inode = {<<>>, <<f>>} \cup (IF stays /\ n < NBlocks THEN {Indirect(f)} ELSE {})
    OBVIOUS
<1>5. K = (1..NDIRECT \cap 1..n) \cup (IF stays THEN {NDIRECT + 1} ELSE {})
    OBVIOUS
<1> HIDE DEF X, inode, K
<1>6. /\ <<>> \in DOMAIN mem /\ DOMAIN mem \subseteq Paths
      /\ \A q \in DOMAIN mem : Here[q] = mem[q]
      /\ \A q \in Paths : ObjectAt(q, Here[q])
      /\ Here[<<>>] = root /\ DOMAIN root.kids \subseteq Files /\ Seen = Contents(Here)
    BY <1>2, HereObjects
<1>7. f \in DOMAIN root.kids
    BY <1>2 DEF Exists
<1>8. NDIRECT \in Nat /\ NBlocks \in Nat /\ n \in Nat /\ NDIRECT < NBlocks
    BY UTFileSystemAssumption DEF NBlocks
<1>9. stays => n > NDIRECT
    BY <1>1
\* Which places are emptied.
<1>10. /\ <<>> \notin X /\ \A g \in Files : <<g>> \notin X
       /\ \A g \in Files : Indirect(g) \in X <=> g = f /\ ~stays
       /\ \A g \in Files, k \in 1..NBlocks :
             Block(g, k) \in X <=> g = f /\ (k > n \/ (~stays /\ k > NDIRECT))
    <2>1. \A q : q \in X <=> \/ \E m \in 1..NBlocks :
                                  q = Block(f, m) /\ (m > n \/ (~stays /\ m > NDIRECT))
                             \/ ~stays /\ q = Indirect(f)
        <3>1. \A q : q \in Under[Indirect(f)] <=> \E m \in 1..NBlocks : q = Block(f, m) /\ m > NDIRECT
            BY BelowIndirect
        <3>2. \A q : q \in {Block(f, m) : m \in (n + 1)..NBlocks}
                      <=> \E m \in 1..NBlocks : q = Block(f, m) /\ m > n
            BY <1>8
        <3> QED BY <1>3, <3>1, <3>2
    <2>2. <<>> \notin X /\ \A g \in Files : <<g>> \notin X
        BY <2>1, BlockForm, IndirectForm
    <2>3. \A g \in Files : Indirect(g) \in X <=> g = f /\ ~stays
        BY <2>1, BlockForm, IndirectForm
    <2>4. \A g \in Files, k \in 1..NBlocks :
             Block(g, k) \in X <=> g = f /\ (k > n \/ (~stays /\ k > NDIRECT))
        BY <2>1, BlockForm
    <2> QED BY <2>2, <2>3, <2>4
<1>11. DOMAIN mem' = (DOMAIN mem \cup inode) \ X
    BY <1>2
<1>12. /\ <<>> \in DOMAIN mem' /\ <<f>> \in DOMAIN mem' /\ mem'[<<f>>] = Keep(Here[<<f>>], K)
       /\ Indirect(f) \in DOMAIN mem' => mem'[Indirect(f)] = Keep(Here[Indirect(f)], 1..(n - NDIRECT))
       /\ \A q \in DOMAIN mem' : q # <<f>> /\ q # Indirect(f) => mem'[q] = Here[q]
    <2>1. Indirect(f) # <<f>>
        BY IndirectForm
    <2>2. <<>> \in DOMAIN mem' /\ <<f>> \in DOMAIN mem'
        BY <1>4, <1>10, <1>11
    <2> QED BY <1>2, <1>11, <2>1, <2>2
<1>13. DOMAIN mem' \subseteq Paths
    BY <1>4, <1>6, <1>11, PathForms
<1>14. \A q \in DOMAIN mem' : q \in Paths /\ ObjectAt(q, mem'[q])
    <2>1. ObjectAt(<<f>>, mem'[<<f>>])
        BY <1>6, <1>12, KeptObject, PathForms
    <2>2. Indirect(f) \in DOMAIN mem' => ObjectAt(Indirect(f), mem'[Indirect(f)])
        BY <1>6, <1>12, KeptObject, PathForms
    <2> QED BY <1>6, <1>12, <1>13, <2>1, <2>2
<1>15. \A i : KidRef(mem'[<<f>>], i) = IF i \in K THEN KidRef(Here[<<f>>], i) ELSE Nil
    BY <1>6, <1>12, KeptObject, PathForms
<1>16. Indirect(f) \in DOMAIN mem' =>
          \A i : KidRef(mem'[Indirect(f)], i) =
                   IF i \in 1..(n - NDIRECT) THEN KidRef(Here[Indirect(f)], i) ELSE Nil
    <2>1. ObjectAt(Indirect(f), Here[Indirect(f)])
        BY <1>6, PathForms
    <2>2. PICK S : S = 1..(n - NDIRECT)
        OBVIOUS
    <2>3. \A i : KidRef(Keep(Here[Indirect(f)], S), i) =
                   IF i \in S THEN KidRef(Here[Indirect(f)], i) ELSE Nil
        BY <2>1, KeptObject
    <2> QED BY <1>12, <2>2, <2>3
<1> DEFINE Fits(q) ==
               /\ Front(q) \in X => q \in X
               /\ q \in X /\ Front(q) \notin X =>
                     Front(q) \in DOMAIN mem' /\ KidRef(mem'[Front(q)], Last(q)) = Nil
               /\ q \notin X /\ Front(q) \in DOMAIN mem' =>
                     KidRef(mem'[Front(q)], Last(q)) = KidRef(Here[Front(q)], Last(q))
\* The references that go are those to the emptied places.
<1>17. ASSUME NEW g \in Files PROVE Fits(<<g>>)
    <2>1. Front(<<g>>) = <<>>
        BY InodeForm
    <2>2. <<>> # <<f>> /\ <<>> # Indirect(f)
        BY InodeForm, IndirectForm
    <2> QED BY <1>10, <1>12, <2>1, <2>2
<1>18. ASSUME NEW g \in Files PROVE Fits(Indirect(g))
    <2>1. Front(Indirect(g)) = <<g>> /\ Last(Indirect(g)) = NDIRECT + 1 /\ <<g>> # Indirect(f)
        BY IndirectForm
    <2>2. <<g>> \notin X
        BY <1>10
    <2>3. CASE g = f
        <3>1. NDIRECT + 1 \in K <=> stays
            BY <1>5, <1>8
        <3> QED BY <1>10, <1>12, <1>15, <2>1, <2>2, <2>3, <3>1
    <2>4. CASE g # f
        BY <1>10, <1>12, <2>1, <2>2, <2>4
    <2> QED BY <2>3, <2>4
<1>19. ASSUME NEW g \in Files, NEW k \in 1..NBlocks PROVE Fits(Block(g, k))
    <2>1. CASE k <= NDIRECT
        <3>1. Front(Block(g, k)) = <<g>> /\ Last(Block(g, k)) = k /\ <<g>> # Indirect(f)
            BY <2>1, BlockForm, IndirectForm
        <3>2. <<g>> \notin X
            BY <1>10
        <3>3. CASE g = f
            <4>1. Block(g, k) \in X <=> k > n
                BY <1>8, <1>10, <2>1, <3>3
            <4>2. k \in K <=> k <= n
                BY <1>5, <1>8, <2>1
            <4> QED BY <1>8, <1>12, <1>15, <3>1, <3>2, <3>3, <4>1, <4>2
        <3>4. CASE g # f
            BY <1>10, <1>12, <3>1, <3>2, <3>4
        <3> QED BY <3>3, <3>4
    <2>2. CASE k > NDIRECT
        <3>1. Front(Block(g, k)) = Indirect(g) /\ Last(Block(g, k)) = k - NDIRECT
            BY <2>2, BlockForm
        <3>2. CASE g = f
            <4>1. Block(g, k) \in X <=> k > n \/ ~stays
                BY <1>10, <2>2, <3>2
            <4>2. Indirect(g) \in X <=> ~stays
                BY <1>10, <3>2
            <4>3. k - NDIRECT \in 1..(n - NDIRECT) <=> k <= n
                BY <1>8, <2>2
            <4>4. stays /\ k > n => Indirect(g) \in DOMAIN mem'
                BY <1>4, <1>8, <1>11, <3>2, <4>2
            <4> QED BY <1>8, <1>16, <3>1, <3>2, <4>1, <4>2, <4>3, <4>4
        <3>3. CASE g # f
            <4>1. Indirect(g) # <<f>> /\ Indirect(g) # Indirect(f)
                BY <3>3, IndirectForm
            <4> QED BY <1>10, <1>12, <3>1, <3>3, <4>1
        <3> QED BY <3>2, <3>3
    <2> QED BY <1>8, <2>1, <2>2
<1>20. ASSUME NEW q \in Paths \ {<<>>} PROVE Fits(q)
    <2> HIDE DEF Fits
    <2>1. CASE \E g \in Files : q = <<g>>
        BY <1>17, <2>1
    <2>2. CASE \E g \in Files : q = Indirect(g)
        BY <1>18, <2>2
    <2>3. CASE \E g \in Files, k \in 1..NBlocks : q = Block(g, k)
        BY <1>19, <2>3
    <2> QED BY <2>1, <2>2, <2>3, PathForms
<1>21. DirtyAbove(mem')
    <2>1. ASSUME NEW q \in DOMAIN mem' \ {<<>>} PROVE Front(q) \in DOMAIN mem'
        <3>1. q \in Paths \ {<<>>} /\ q \notin X /\ Front(q) \notin X
            BY <1>11, <1>13, <1>20
        <3>2. CASE q \in DOMAIN mem
            BY <1>11, <3>1, <3>2 DEF Inv, DirtyAbove
        <3>3. CASE q = <<f>>
            BY <1>12, <3>3, InodeForm
        <3>4. CASE q = Indirect(f)
            BY <1>12, <3>4, IndirectForm
        <3> QED BY <1>4, <1>11, <3>2, <3>3, <3>4
    <2>2. mem'[<<>>] = root
        <3>1. <<>> # <<f>> /\ <<>> # Indirect(f)
            BY InodeForm, IndirectForm
        <3> QED BY <1>6, <1>12, <3>1
    <2>3. \A g \in Files : <<g>> \in inode => g = f
        BY <1>4, IndirectForm
    <2>4. \A g \in Files : <<g>> \in DOMAIN mem' => g \in DOMAIN mem'[<<>>].kids
        BY <1>7, <1>11, <2>2, <2>3 DEF Inv, DirtyAbove
    <2> QED BY <2>1, <2>4 DEF DirtyAbove
<1>22. /\ Inv' /\ Contents(Published)' = Contents(Published) /\ Seen' = Contents(Here)'
       /\ Trimmed(X)
       /\ \A q \in Paths : Here'[q] = IF q \in X THEN New
                                      ELSE IF q \in DOMAIN mem' THEN mem'[q] ELSE Here[q]
    <2>1. /\ DOMAIN mem' \cap X = {} /\ DOMAIN mem \ X \subseteq DOMAIN mem'
          /\ <<>> \in DOMAIN mem' /\ phase # "down" /\ phase' = "idle"
        BY <1>2, <1>11, <1>12
    <2> QED BY <1>2, <1>14, <1>20, <1>21, <2>1, EditStep
<1>23. Here'[<<>>] = root
    <2>1. <<>> # <<f>> /\ <<>> # Indirect(f)
        BY InodeForm, IndirectForm
    <2> QED BY <1>6, <1>10, <1>12, <1>22, <2>1, PathForms
<1>24. ASSUME NEW g \in Files, NEW k \in 1..NBlocks
       PROVE Here'[Block(g, k)].val = IF g = f /\ k > n THEN Zero ELSE Here[Block(g, k)].val
    <2>1. Block(g, k) \in Paths /\ Block(g, k) # <<f>> /\ Block(g, k) # Indirect(f)
        BY BlockForm
    <2>2. CASE Block(g, k) \notin X
        <3>1. Here'[Block(g, k)] = Here[Block(g, k)]
            BY <1>12, <1>22, <2>1, <2>2
        <3>2. ~(g = f /\ k > n)
            BY <1>10, <2>2
        <3> QED BY <3>1, <3>2
    <2>3. CASE Block(g, k) \in X
        <3>1. Here'[Block(g, k)].val = Zero /\ g = f
            BY <1>10, <1>22, <2>1, <2>3 DEF New
        <3>2. ASSUME ~(k > n) PROVE Here[Block(g, k)].val = Zero
            <4>1. ~stays /\ k > NDIRECT /\ k <= n
                BY <1>8, <1>10, <2>3, <3>2
            <4>2. Here[Block(f, k)] = New
                BY <1>1, <1>2, <4>1, NothingLeft
            <4> QED BY <3>1, <4>2 DEF New
        <3> QED BY <3>1, <3>2
    <2> QED BY <2>2, <2>3
<1>25. \A d : Written(Here', d) <=> Written(Here, d) /\ (d[1] = f => d[2] <= n)
    BY <1>6, <1>8, <1>23, <1>24 DEF Written
<1>26. Contents(Here)'.data = {d \in Contents(Here).data : d[1] = f => d[2] <= n}
    <2>1. \A d : d \in Contents(Here)'.data <=> Written(Here', d)
        BY ContentsOf
    <2>2. \A d : d \in Contents(Here).data <=> Written(Here, d)
        BY ContentsOf
    <2> QED BY <1>25, <2>1, <2>2
<1>27. Contents(Here).files = DOMAIN root.kids /\ Contents(Here)'.files = DOMAIN root.kids
    BY <1>6, <1>23, ContentsOf
<1>28. /\ Contents(Here) = [files |-> Contents(Here).files, data |-> Contents(Here).data]
       /\ Contents(Here)' = [files |-> Contents(Here)'.files, data |-> Contents(Here)'.data]
    BY ContentsOf
\* The indirect block, and all other places that have references.
<1>29. /\ ~stays => Indirect(f) \notin DOMAIN mem' /\ Here'[Indirect(f)] = New
       /\ stays => /\ DOMAIN Here[Indirect(f)].kids \cap 1..(n - NDIRECT)
                         \subseteq DOMAIN Here'[Indirect(f)].kids
                   /\ \A k \in 1..NBlocks : k <= n /\ Block(f, k) \in DOMAIN mem => Block(f, k) \in DOMAIN mem'
    <2>1. Indirect(f) \in Paths /\ (Indirect(f) \in X <=> ~stays)
        BY <1>10, IndirectForm
    <2>2. ASSUME ~stays PROVE Indirect(f) \notin DOMAIN mem' /\ Here'[Indirect(f)] = New
        BY <1>11, <1>22, <2>1, <2>2
    <2>3. ASSUME stays
          PROVE DOMAIN Here[Indirect(f)].kids \cap 1..(n - NDIRECT) \subseteq DOMAIN Here'[Indirect(f)].kids
        <3>1. CASE Indirect(f) \in DOMAIN mem'
            <4>1. Here'[Indirect(f)] = Keep(Here[Indirect(f)], 1..(n - NDIRECT))
                BY <1>12, <1>22, <2>1, <2>3, <3>1
            <4>2. PICK S : S = 1..(n - NDIRECT)
                OBVIOUS
            <4>3. DOMAIN Keep(Here[Indirect(f)], S).kids = DOMAIN Here[Indirect(f)].kids \cap S
                BY <1>6, <2>1, KeptObject
            <4> QED BY <4>1, <4>2, <4>3
        <3>2. CASE Indirect(f) \notin DOMAIN mem'
            BY <1>22, <2>1, <2>3, <3>2
        <3> QED BY <3>1, <3>2
    <2>4. ASSUME stays, NEW k \in 1..NBlocks, k <= n, Block(f, k) \in DOMAIN mem
          PROVE Block(f, k) \in DOMAIN mem'
        BY <1>8, <1>10, <1>11, <2>4
    <2> QED BY <2>2, <2>3, <2>4
<1>30. ASSUME NEW g \in Files, g # f
       PROVE /\ Here'[Indirect(g)] = Here[Indirect(g)] /\ Here'[<<g>>] = Here[<<g>>]
             /\ Indirect(g) \in DOMAIN mem' => Indirect(g) \in DOMAIN mem
             /\ \A k \in 1..NBlocks : Block(g, k) \in DOMAIN mem => Block(g, k) \in DOMAIN mem'
    <2>1. /\ Indirect(g) \in Paths /\ Indirect(g) # <<f>> /\ Indirect(g) # Indirect(f) /\ Indirect(g) # <<>>
          /\ <<g>> \in Paths /\ <<g>> # <<f>> /\ <<g>> # Indirect(f)
        BY <1>30, IndirectForm, InodeForm
    <2>2. Indirect(g) \notin X /\ <<g>> \notin X
        BY <1>10, <1>30
    <2>3. \A k \in 1..NBlocks : Block(g, k) \notin X
        BY <1>10, <1>30
    <2> QED BY <1>4, <1>11, <1>12, <1>22, <2>1, <2>2, <2>3
<1>31. ASSUME Filled(mem, Here) PROVE Filled(mem', Here')
    <2> DEFINE Some(g) == \E k \in 1..NBlocks : /\ k > NDIRECT
                                                /\ \/ Block(g, k) \in DOMAIN mem'
                                                   \/ k - NDIRECT \in DOMAIN Here'[Indirect(g)].kids
    <2>1. ASSUME NEW g \in Files, g # f, Indirect(g) \in DOMAIN mem' \/ Here'[Indirect(g)].ref # Nil
          PROVE Some(g)
        BY <1>30, <1>31, <2>1 DEF Filled
    <2>2. ASSUME stays PROVE Some(f)
        <3>1. PICK j \in 1..NUMREF : /\ NDIRECT + j <= n
                                     /\ \/ Block(f, NDIRECT + j) \in DOMAIN mem
                                        \/ j \in DOMAIN Here[Indirect(f)].kids
            BY <1>1, <2>2 DEF LeftUnder
        <3>2. PICK k : k = NDIRECT + j
            OBVIOUS
        <3>3. k \in 1..NBlocks /\ k > NDIRECT /\ k <= n /\ k - NDIRECT = j /\ j \in 1..(n - NDIRECT)
            BY <1>8, <3>1, <3>2, UTFileSystemAssumption DEF NBlocks
        <3> QED BY <1>29, <2>2, <3>1, <3>2, <3>3
    <2>3. ASSUME ~stays PROVE Indirect(f) \notin DOMAIN mem' /\ Here'[Indirect(f)].ref = Nil
        BY <1>29, <2>3 DEF New
    <2> QED BY <2>1, <2>2, <2>3 DEF Filled
<1>32. ASSUME n = NBlocks, Filled(mem, Here), Within(Published, Here) PROVE Within(Published, Here')
    <2>1. PICK P : P = Published
        OBVIOUS
    <2>2. PICK T : T = Here
        OBVIOUS
    <2>3. PICK U : U = Here'
        OBVIOUS
    <2>4. DOMAIN P[<<>>].kids \subseteq Files /\ Within(P, T)
        BY <1>32, <2>1, <2>2, PublishedObjects
    <2>5. ~stays => /\ T[Indirect(f)] = New /\ KidRef(T[<<f>>], NDIRECT + 1) = Nil
        <3> SUFFICES ASSUME ~stays PROVE T[Indirect(f)] = New /\ KidRef(T[<<f>>], NDIRECT + 1) = Nil
            OBVIOUS
        <3>1. ~HasIndirect(f)
            <4> SUFFICES ASSUME HasIndirect(f) PROVE FALSE
                OBVIOUS
            <4>1. PICK k \in 1..NBlocks : /\ k > NDIRECT
                                          /\ \/ Block(f, k) \in DOMAIN mem
                                             \/ k - NDIRECT \in DOMAIN Here[Indirect(f)].kids
                BY <1>32 DEF HasIndirect, Filled
            <4>2. k - NDIRECT \in 1..NUMREF /\ NDIRECT + (k - NDIRECT) = k /\ k <= n
                BY <1>8, <1>32, <4>1, UTFileSystemAssumption DEF NBlocks
            <4>3. k - NDIRECT \in LeftUnder(f, n)
                BY <4>1, <4>2 DEF LeftUnder
            <4> QED BY <1>1, <1>8, <1>32, <4>3
        <3>2. Indirect(f) \notin DOMAIN mem /\ Here[Indirect(f)].ref = Nil
            BY <3>1 DEF HasIndirect
        <3>3. /\ Indirect(f) \in Paths \ {<<>>} /\ Front(Indirect(f)) = <<f>>
              /\ Last(Indirect(f)) = NDIRECT + 1
            BY IndirectForm
        <3>4. Here[Indirect(f)].ref = KidRef(Here[<<f>>], NDIRECT + 1)
            BY <3>2, <3>3, TreeObjects DEF Inv, InOrder, Here, InMemory
        <3>5. Here[Indirect(f)] = New
            BY <1>2, <3>2, <3>3, <3>4, NothingBelow
        <3> QED BY <2>2, <3>2, <3>4, <3>5
    <2>6. U[<<>>] = T[<<>>]
        BY <1>6, <1>23, <2>2, <2>3
    <2>7. ASSUME NEW g \in Files PROVE U[<<g>>].ref = T[<<g>>].ref
        <3>1. U[<<f>>] = Keep(T[<<f>>], K)
            BY <1>10, <1>12, <1>22, <2>2, <2>3, InodeForm
        <3>2. U[<<f>>].ref = T[<<f>>].ref
            BY <1>6, <2>2, <3>1, KeptObject, InodeForm
        <3>3. CASE g # f
            BY <1>30, <2>2, <2>3, <3>3
        <3>4. CASE g = f
            BY <3>2, <3>4
        <3> QED BY <3>3, <3>4
    <2>8. ASSUME NEW q \in Paths \ {<<>>}, Front(q) # <<>>, KidRef(P[Front(q)], Last(q)) # Nil
          PROVE KidRef(U[Front(q)], Last(q)) = KidRef(P[Front(q)], Last(q))
        <3>1. KidRef(T[Front(q)], Last(q)) = KidRef(P[Front(q)], Last(q))
            BY <2>4, <2>8 DEF Within
        <3>2. q \notin X
            <4> SUFFICES ASSUME q \in X PROVE FALSE
                OBVIOUS
            <4>1. ASSUME NEW g \in Files, q = <<g>> PROVE FALSE
                BY <1>10, <4>1
            <4>2. ASSUME NEW g \in Files, q = Indirect(g) PROVE FALSE
                <5>1. g = f /\ ~stays /\ Front(q) = <<f>> /\ Last(q) = NDIRECT + 1
                    BY <1>10, <4>2, IndirectForm
                <5> QED BY <2>5, <2>8, <3>1, <5>1
            <4>3. ASSUME NEW g \in Files, NEW k \in 1..NBlocks, q = Block(g, k) PROVE FALSE
                <5>1. g = f /\ ~stays /\ k > NDIRECT
                    BY <1>8, <1>10, <1>32, <4>3
                <5>2. Front(q) = Indirect(f)
                    BY <4>3, <5>1, BlockForm
                <5>3. KidRef(New, Last(q)) = Nil
                    BY NewObject
                <5> QED BY <2>5, <2>8, <3>1, <5>1, <5>2, <5>3
            <4> QED BY <4>1, <4>2, <4>3, PathForms
        <3> QED BY <1>22, <2>2, <2>3, <3>1, <3>2 DEF Trimmed
    <2>9. ASSUME NEW g \in Files
          PROVE DOMAIN P[Indirect(g)].kids \subseteq DOMAIN U[Indirect(g)].kids
        <3>1. DOMAIN P[Indirect(g)].kids \subseteq DOMAIN T[Indirect(g)].kids
            BY <2>4 DEF Within
        <3>2. CASE g # f
            BY <1>30, <2>2, <2>3, <3>1, <3>2
        <3>3. CASE g = f /\ ~stays
            <4>1. DOMAIN T[Indirect(g)].kids = {}
                BY <2>5, <3>3 DEF New
            <4> QED BY <3>1, <4>1
        <3>4. CASE g = f /\ stays
            <4>1. ASSUME NEW j \in DOMAIN T[Indirect(f)].kids PROVE j \in 1..(n - NDIRECT)
                <5>1. ObjectAt(Indirect(f), T[Indirect(f)])
                    BY <1>6, <2>2, IndirectForm
                <5>2. PICK q \in Paths \ {<<>>} : Front(q) = Indirect(f) /\ Last(q) = j
                    BY <4>1, <5>1 DEF ObjectAt
                <5>3. j \in 1..NUMREF
                    BY <5>2, PlacesBelow
                <5>4. n - NDIRECT = NUMREF
                    BY <1>32, UTFileSystemAssumption DEF NBlocks
                <5> QED BY <5>3, <5>4
            <4> QED BY <1>29, <2>2, <2>3, <3>1, <3>4, <4>1
        <3> QED BY <3>2, <3>3, <3>4
    <2>10. ASSUME NEW g \in DOMAIN P[<<>>].kids
           PROVE g \in DOMAIN U[<<>>].kids /\ U[<<g>>].ref = P[<<g>>].ref
        <3>1. g \in DOMAIN T[<<>>].kids /\ T[<<g>>].ref = P[<<g>>].ref
            BY <2>4 DEF Within
        <3> QED BY <2>4, <2>6, <2>7, <3>1
    <2>11. U[<<>>].ref = P[<<>>].ref
        BY <2>4, <2>6 DEF Within
    <2>12. Within(P, U)
        BY <2>8, <2>9, <2>10, <2>11 DEF Within
    <2> QED BY <2>1, <2>3, <2>12
<1> QED BY <1>6, <1>7, <1>22, <1>26, <1>27, <1>28, <1>31, <1>32

-----------------------------------------------------------------------------
(* The flush *)

\* A put that fails: the object at which the flush stops loses its reference.
LEMMA FailStep ==
    ASSUME Inv, phase = "flush", phase' = "idle", UNCHANGED <<dirty, head>>,
           Sweep(lru, mem', body, head), NEW p \in DOMAIN mem,
           mem' = [mem EXCEPT ![p].ref = Nil]
    PROVE /\ Inv' /\ Contents(Published)' = Contents(Published) /\ Seen' = Seen
          /\ Trimmed({})
          /\ Filled(mem, Here) => Filled(mem', Here')
<1> DEFINE o == mem[p]
<1>1. /\ <<>> \in DOMAIN mem /\ DOMAIN mem \subseteq Paths
      /\ \A q \in DOMAIN mem : Here[q] = mem[q]
      /\ \A q \in Paths : ObjectAt(q, Here[q])
      /\ Here[<<>>] = mem[<<>>] /\ DOMAIN mem[<<>>].kids \subseteq Files
      /\ Seen = Contents(Here)
    BY HereObjects
<1>2. DOMAIN mem' = DOMAIN mem /\ \A q \in DOMAIN mem \ {p} : mem'[q] = mem[q]
    OBVIOUS
<1>3. mem'[p] = [ref |-> Nil, kids |-> o.kids, val |-> o.val] /\ ObjectAt(p, o)
    <2>1. ObjectAt(p, o)
        BY <1>1
    <2>2. o = [ref |-> o.ref, kids |-> o.kids, val |-> o.val]
        BY <2>1 DEF ObjectAt
    <2>3. mem'[p] = [o EXCEPT !.ref = Nil]
        OBVIOUS
    <2> HIDE DEF o
    <2> QED BY <2>1, <2>2, <2>3
<1>4. ObjectAt(p, mem'[p])
    BY <1>3 DEF ObjectAt, Named
<1>5. \A q \in DOMAIN mem : /\ mem'[q].kids = mem[q].kids /\ mem'[q].val = mem[q].val
                            /\ \A i : KidRef(mem'[q], i) = KidRef(mem[q], i)
    BY <1>2, <1>3 DEF KidRef
<1>6. DirtyAbove(mem')
    BY <1>1, <1>2, <1>5 DEF Inv, DirtyAbove
<1>7. /\ Inv' /\ Contents(Published)' = Contents(Published) /\ Seen' = Contents(Here)'
      /\ Trimmed({})
      /\ \A q \in Paths : Here'[q] = IF q \in DOMAIN mem' THEN mem'[q] ELSE Here[q]
    <2> DEFINE X == {}
    <2>1. /\ DOMAIN mem' \cap X = {} /\ DOMAIN mem \ X \subseteq DOMAIN mem'
          /\ <<>> \in DOMAIN mem' /\ phase # "down" /\ dirty'
          /\ \A q \in Paths : q \notin X
        BY <1>1, <1>2 DEF Inv, Settled
    <2>2. \A q \in Paths \ {<<>>} :
              /\ Front(q) \in X => q \in X
              /\ q \in X /\ Front(q) \notin X =>
                    Front(q) \in DOMAIN mem' /\ KidRef(mem'[Front(q)], Last(q)) = Nil
              /\ q \notin X /\ Front(q) \in DOMAIN mem' =>
                    KidRef(mem'[Front(q)], Last(q)) = KidRef(Here[Front(q)], Last(q))
        BY <1>1, <1>2, <1>5
    <2>3. \A q \in DOMAIN mem' : q \in Paths /\ ObjectAt(q, mem'[q])
        BY <1>1, <1>2, <1>4
    <2>4. X = {}
        OBVIOUS
    <2> HIDE DEF X
    <2>5. /\ Inv' /\ Contents(Published)' = Contents(Published) /\ Seen' = Contents(Here)'
          /\ Trimmed(X)
          /\ \A q \in Paths : Here'[q] = IF q \in X THEN New
                                         ELSE IF q \in DOMAIN mem' THEN mem'[q] ELSE Here[q]
        BY <1>6, <2>1, <2>2, <2>3, EditStep
    <2> QED BY <2>4, <2>5
<1>8. \A q \in Paths : Here'[q].val = Here[q].val /\ (q = <<>> => Here'[q].kids = Here[q].kids)
    BY <1>1, <1>2, <1>5, <1>7
<1>9. Contents(Here') = Contents(Here)
    BY <1>1, <1>8, PathForms, SameContents
<1>10. ASSUME Filled(mem, Here) PROVE Filled(mem', Here')
    <2>1. \A q \in Paths : q \notin DOMAIN mem => Here'[q] = Here[q]
        BY <1>2, <1>7
    <2>2. \A q \in Paths : Here'[q].kids = Here[q].kids
        BY <1>1, <1>2, <1>5, <1>7
    <2> QED BY <1>2, <1>10, <2>1, <2>2, IndirectForm DEF Filled
<1> QED BY <1>1, <1>7, <1>9, <1>10

\* The block of the object at p is added to those that are known.
LEMMA NewBlock ==
    ASSUME Inv, phase # "down", NEW p \in DOMAIN mem,
           NEW r, r = Fresh(p), NEW obj, obj = [mem[p] EXCEPT !.ref = r],
           NEW b, b = [s \in DOMAIN body \cup {r} |-> IF s = r THEN obj ELSE body[s]]
    PROVE /\ obj = [ref |-> r, kids |-> mem[p].kids, val |-> mem[p].val]
          /\ ObjectAt(p, obj) /\ r \in Named(p) /\ r # Nil
          /\ r \in DOMAIN b /\ b[r] = obj
          /\ InOrder(mem, b, head)
          /\ InMemory(mem, b) = Here /\ InStore(head, b) = Published /\ b[head] = body[head]
<1>0. InOrder(mem, body, head)
    BY DEF Inv
<1>1. p \in Paths /\ ObjectAt(p, mem[p])
    BY HereObjects
<1>2. r \in {p} \X (1..MaxRef) /\ r \notin InUse(mem, body, head)
    BY <1>0, <1>1, FreshIsNew
<1>3. r # Nil /\ r \in Named(p) /\ r[1] = p
    BY <1>2 DEF Nil, Named
<1>4. r \in Refs
    BY <1>1, <1>2 DEF Refs
<1>5. obj = [ref |-> r, kids |-> mem[p].kids, val |-> mem[p].val]
    <2>1. PICK o : o = mem[p]
        OBVIOUS
    <2>2. o = [ref |-> o.ref, kids |-> o.kids, val |-> o.val]
        BY <1>1, <2>1 DEF ObjectAt
    <2> QED BY <2>1, <2>2
<1>6. ObjectAt(p, obj)
    BY <1>1, <1>3, <1>5 DEF ObjectAt
<1>a. PICK c : c = body
    OBVIOUS
<1>b. PICK m : m = mem
    OBVIOUS
<1>c. PICK old : old = body[head]
    OBVIOUS
<1>d. b = [s \in DOMAIN c \cup {r} |-> IF s = r THEN obj ELSE c[s]]
    BY <1>a
<1>e. BodyOK(c) /\ TreeOK(RootOf(m), m, c) /\ TreeOK(old, NoTree, c)
    BY <1>0, <1>a, <1>b, <1>c DEF InOrder
<1>7. BodyOK(b)
    <2>1. obj.ref = r /\ ObjectAt(r[1], obj)
        BY <1>3, <1>5, <1>6
    <2> QED BY ONLY <1>4, <1>d, <1>e, <2>1, AddedBody
<1>8. /\ r \notin RefsOf(Tree(RootOf(mem), mem, body))
      /\ r \notin RefsOf(Tree(body[head], NoTree, body))
    BY <1>2 DEF InUse, InMemory, InStore
<1>9. Tree(RootOf(mem), mem, b) = Here /\ TreeOK(RootOf(mem), mem, b)
    <2>1. r \notin RefsOf(Tree(RootOf(m), m, c))
        BY <1>8, <1>a, <1>b
    <2>2. Tree(RootOf(m), m, b) = Tree(RootOf(m), m, c) /\ TreeOK(RootOf(m), m, b)
        BY ONLY <1>3, <1>d, <1>e, <2>1, AddedTree
    <2> QED BY <1>a, <1>b, <2>2 DEF Here, InMemory
<1>10. Tree(body[head], NoTree, b) = Published /\ TreeOK(body[head], NoTree, b)
    <2>1. r \notin RefsOf(Tree(old, NoTree, c))
        BY <1>8, <1>a, <1>c
    <2>2. Tree(old, NoTree, b) = Tree(old, NoTree, c) /\ TreeOK(old, NoTree, b)
        BY ONLY <1>3, <1>d, <1>e, <2>1, AddedTree
    <2> QED BY <1>a, <1>c, <2>2 DEF Published, InStore
<1>11. head # r
    <2>1. body[head].ref = head
        BY <1>0 DEF InOrder, BodyOK, New
    <2>2. Tree(body[head], NoTree, body)[<<>>] = body[head]
        BY TreeAt
    <2>3. head \in RefsOf(Tree(body[head], NoTree, body)) \cup {Nil}
        BY <2>1, <2>2, PathForms DEF RefsOf
    <2> QED BY <1>3, <1>8, <2>3
<1>12. head \in DOMAIN b /\ b[head] = body[head]
    BY <1>0, <1>11 DEF InOrder
<1>13. InOrder(mem, b, head)
    BY <1>0, <1>7, <1>9, <1>10, <1>12 DEF InOrder
<1>14. InMemory(mem, b) = Here /\ InStore(head, b) = Published
    BY <1>9, <1>10, <1>12 DEF InMemory, InStore
<1> QED BY <1>3, <1>5, <1>6, <1>12, <1>13, <1>14

\* The list of the store with a block r more, and one less if it was full.
PutList(r) == Append(IF Len(lru) >= Capacity THEN Tail(lru) ELSE lru, r)

\* The object at p has been stored as r, and what is above it refers to r.
Grafted(p, r) ==
    /\ Published' = Published /\ Swept(PutList(r)) /\ r \in Refs
    /\ p \in Paths /\ Here'[p].ref = r /\ DOMAIN mem \ {p} \subseteq DOMAIN mem'
    /\ \A q \in Paths \ {<<>>} :
          KidRef(Here'[Front(q)], Last(q)) = IF q = p THEN r ELSE KidRef(Here[Front(q)], Last(q))

\* The root is stored, the last of the dirty objects.
LEMMA RootStored ==
    ASSUME Inv, phase = "flush", FlushesNext(<<>>), NEW r, r = Fresh(<<>>),
           NEW obj, obj = [mem[<<>>] EXCEPT !.ref = r], mem' = Clean(<<>>, obj), Put(obj, mem'),
           dirty' = FALSE, phase' = "publish", UNCHANGED head
    PROVE /\ Inv' /\ Contents(Published)' = Contents(Published) /\ Seen' = Seen
          /\ Grafted(<<>>, r) /\ (Filled(mem, Here) => Filled(mem', Here'))
<1>1. /\ <<>> \in DOMAIN mem /\ DOMAIN mem \subseteq Paths
      /\ Here[<<>>] = mem[<<>>] /\ DOMAIN mem[<<>>].kids \subseteq Files
      /\ Seen = Contents(Here)
    BY HereObjects
<1>2. DOMAIN mem = {<<>>}
    BY <1>1, FlushedFirst DEF FlushesNext
<1>3. PICK b : b = [s \in DOMAIN body \cup {r} |-> IF s = r THEN obj ELSE body[s]]
    OBVIOUS
<1>4. /\ obj = [ref |-> r, kids |-> mem[<<>>].kids, val |-> mem[<<>>].val]
      /\ ObjectAt(<<>>, obj) /\ r \in DOMAIN b /\ b[r] = obj
      /\ InOrder(mem, b, head)
      /\ InMemory(mem, b) = Here /\ InStore(head, b) = Published
    <2>1. PICK p \in DOMAIN mem : p = <<>>
        BY <1>1
    <2>2. r = Fresh(p) /\ obj = [mem[p] EXCEPT !.ref = r]
        BY <2>1
    <2>3. /\ obj = [ref |-> r, kids |-> mem[p].kids, val |-> mem[p].val]
          /\ ObjectAt(p, obj) /\ r \in DOMAIN b /\ b[r] = obj
          /\ InOrder(mem, b, head)
          /\ InMemory(mem, b) = Here /\ InStore(head, b) = Published
        <3>1. Inv /\ phase # "down" /\ p \in DOMAIN mem
            OBVIOUS
        <3> QED BY ONLY <1>3, <2>2, <3>1, NewBlock
    <2> QED BY <2>1, <2>3
<1>5. Sweep(PutList(r), mem', b, head)
    <2>1. b = [s \in DOMAIN body \cup {obj.ref} |-> IF s = obj.ref THEN obj ELSE body[s]]
        BY <1>3, <1>4
    <2> QED BY <1>4, <2>1 DEF Put, PutList
<1>6. DOMAIN mem' = {<<>>} /\ mem'[<<>>] = obj
    BY <1>2 DEF Clean
<1>7. /\ TreeOK(RootOf(mem'), mem', b)
      /\ \A q \in Paths : InMemory(mem', b)[q] = IF q = <<>> THEN obj ELSE Here[q]
    <2>1. PICK T : T = Here
        OBVIOUS
    <2>2. PICK m : m = mem
        OBVIOUS
    <2>3. PICK m2 : m2 = mem'
        OBVIOUS
    <2>4. PICK U : U = Tree(RootOf(m2), m2, b)
        OBVIOUS
    <2>5. PICK X : X = {}
        OBVIOUS
    <2>6. BodyOK(b) /\ TreeOK(RootOf(m), m, b) /\ T = Tree(RootOf(m), m, b)
        BY <1>4, <2>1, <2>2 DEF InOrder, InMemory
    <2>7. /\ <<>> \in DOMAIN m2 /\ DOMAIN m2 \cap X = {} /\ DOMAIN m \ X \subseteq DOMAIN m2
          /\ \A q \in DOMAIN m2 : q \in Paths /\ ObjectAt(q, m2[q])
        BY <1>2, <1>4, <1>6, <2>2, <2>3, <2>5, PathForms
    <2>8. \A i : KidRef(m2[<<>>], i) = KidRef(T[<<>>], i)
        BY <1>1, <1>4, <1>6, <2>1, <2>3 DEF KidRef
    <2>9. \A q \in Paths \ {<<>>} :
              /\ Front(q) \in X => q \in X
              /\ q \in X /\ Front(q) \notin X =>
                    Front(q) \in DOMAIN m2 /\ KidRef(m2[Front(q)], Last(q)) = Nil
              /\ q \notin X /\ Front(q) \in DOMAIN m2 =>
                    KidRef(m2[Front(q)], Last(q)) = KidRef(T[Front(q)], Last(q))
        BY <1>6, <2>3, <2>5, <2>8
    <2>10. /\ TreeOK(RootOf(m2), m2, b)
           /\ \A q \in Paths : U[q] = IF q \in X THEN New
                                      ELSE IF q \in DOMAIN m2 THEN m2[q] ELSE T[q]
        BY ONLY <2>4, <2>6, <2>7, <2>9, EditedTree
    <2> QED BY <1>6, <2>1, <2>3, <2>4, <2>5, <2>10 DEF InMemory
<1>8. InOrder(mem', b, head')
    BY <1>4, <1>7 DEF InOrder
<1>9. /\ InOrder(mem, body, head)'
      /\ Here' = InMemory(mem', b) /\ Published' = InStore(head', b)
      /\ \A s \in DOMAIN b : s = RootOf(mem').ref => s \in DOMAIN body' /\ body'[s] = b[s]
      /\ Swept(PutList(r))
    BY <1>5, <1>8, SweepStep
<1>10. mem'[<<>>].ref \in DOMAIN body' /\ body'[mem'[<<>>].ref] = mem'[<<>>]
    BY <1>4, <1>6, <1>9 DEF RootOf
<1>11. Settled'
    BY <1>6, <1>10 DEF Settled
<1>12. DirtyAbove(mem')
    BY <1>6 DEF DirtyAbove
<1>13. \A q \in Paths : Here'[q] = IF q = <<>> THEN obj ELSE Here[q]
    BY <1>7, <1>9
<1>14. Contents(Here') = Contents(Here)
    <2>1. /\ DOMAIN Here'[<<>>].kids = DOMAIN Here[<<>>].kids
          /\ DOMAIN Here'[<<>>].kids \subseteq Files
          /\ \A q \in Paths : Here'[q].val = Here[q].val
        BY <1>1, <1>4, <1>13, PathForms
    <2> QED BY <2>1, SameContents
<1>15. Grafted(<<>>, r)
    <2>1. r \in Refs
        BY FreshIsNew, PathForms DEF Inv, Refs
    <2>2. \A q \in Paths : \A k : KidRef(Here'[q], k) = KidRef(Here[q], k)
        BY <1>1, <1>4, <1>13 DEF KidRef
    <2>3. \A q \in Paths \ {<<>>} :
              KidRef(Here'[Front(q)], Last(q)) = IF q = <<>> THEN r ELSE KidRef(Here[Front(q)], Last(q))
        BY <2>2, PathStep
    <2>4. Here'[<<>>].ref = r
        BY <1>4, <1>13, PathForms
    <2>5. DOMAIN mem \ {<<>>} \subseteq DOMAIN mem' /\ Published' = Published
        BY <1>2, <1>4, <1>9
    <2> QED BY <1>9, <2>1, <2>3, <2>4, <2>5, PathForms DEF Grafted
<1>16. Filled(mem, Here) => Filled(mem', Here')
    <2>1. DOMAIN mem' = DOMAIN mem
        BY <1>2, <1>6
    <2>2. \A g \in Files : Here'[Indirect(g)] = Here[Indirect(g)]
        BY <1>13, IndirectForm
    <2> QED BY <2>1, <2>2 DEF Filled
<1> QED BY <1>1, <1>4, <1>9, <1>11, <1>12, <1>14, <1>15, <1>16 DEF Inv, Seen

\* A dirty object other than the root is stored.
LEMMA KidStored ==
    ASSUME Inv, phase = "flush", NEW p \in DOMAIN mem \ {<<>>}, FlushesNext(p), NEW r, r = Fresh(p),
           NEW obj, obj = [mem[p] EXCEPT !.ref = r], mem' = Clean(p, obj), Put(obj, mem'),
           UNCHANGED <<dirty, phase, head>>
    PROVE /\ Inv' /\ Contents(Published)' = Contents(Published) /\ Seen' = Seen
          /\ Grafted(p, r) /\ (Filled(mem, Here) => Filled(mem', Here'))
<1> DEFINE up == Front(p)
           i == Last(p)
           kids == [j \in DOMAIN mem[up].kids \cup {i} |-> IF j = i THEN r ELSE mem[up].kids[j]]
<1>1. /\ <<>> \in DOMAIN mem /\ DOMAIN mem \subseteq Paths
      /\ \A q \in DOMAIN mem : Here[q] = mem[q]
      /\ \A q \in Paths : ObjectAt(q, Here[q])
      /\ Here[<<>>] = mem[<<>>] /\ DOMAIN mem[<<>>].kids \subseteq Files
      /\ Seen = Contents(Here)
    BY HereObjects
<1>2. /\ p \in Paths /\ up \in DOMAIN mem /\ up # p
      /\ \A q \in DOMAIN mem \ {<<>>} : Front(q) \in DOMAIN mem
      /\ \A f \in Files : <<f>> \in DOMAIN mem => f \in DOMAIN mem[<<>>].kids
    BY <1>1, PathStep DEF Inv, DirtyAbove
<1>3. \A q \in DOMAIN mem \ {<<>>} : Front(q) # p
    BY <1>1, <1>2, FlushedFirst, PathStep DEF FlushesNext
<1>4. PICK b : b = [s \in DOMAIN body \cup {r} |-> IF s = r THEN obj ELSE body[s]]
    OBVIOUS
<1>5. /\ obj = [ref |-> r, kids |-> mem[p].kids, val |-> mem[p].val]
      /\ ObjectAt(p, obj) /\ r \in Named(p) /\ r \in DOMAIN b /\ b[r] = obj
      /\ InOrder(mem, b, head)
      /\ InMemory(mem, b) = Here /\ InStore(head, b) = Published
    BY <1>4, NewBlock
<1>6. Sweep(PutList(r), mem', b, head)
    <2>1. b = [s \in DOMAIN body \cup {obj.ref} |-> IF s = obj.ref THEN obj ELSE body[s]]
        BY <1>4, <1>5
    <2> QED BY <1>5, <2>1 DEF Put, PutList
<1>7. /\ DOMAIN mem' = DOMAIN mem \ {p}
      /\ \A q \in DOMAIN mem \ {p, up} : mem'[q] = mem[q]
      /\ mem'[up] = [ref |-> mem[up].ref, kids |-> kids, val |-> mem[up].val]
    <2>1. mem' = [q \in DOMAIN mem \ {p} |->
                    IF q = up THEN [mem[q] EXCEPT !.kids = [j \in DOMAIN @ \cup {i} |->
                                              IF j = i THEN obj.ref ELSE mem[q].kids[j]]]
                    ELSE mem[q]]
        BY DEF Clean
    <2>2. mem[up] = [ref |-> mem[up].ref, kids |-> mem[up].kids, val |-> mem[up].val]
        BY <1>1, <1>2 DEF ObjectAt
    <2>3. mem'[up] = [mem[up] EXCEPT !.kids = [j \in DOMAIN mem[up].kids \cup {i} |->
                                                 IF j = i THEN obj.ref ELSE mem[up].kids[j]]]
        BY <1>2, <2>1, <2>2
    <2>4. [j \in DOMAIN mem[up].kids \cup {i} |->
               IF j = i THEN obj.ref ELSE mem[up].kids[j]] = kids
        BY <1>5
    <2>5. mem'[up] = [mem[up] EXCEPT !.kids = kids]
        BY <2>3, <2>4
    <2>6. mem'[up] = [ref |-> mem[up].ref, kids |-> kids, val |-> mem[up].val]
        <3> HIDE DEF kids, up, i
        <3> QED BY <2>2, <2>5
    <2> QED BY <2>1, <2>6
<1>8. ObjectAt(up, mem'[up])
    <2>1. ObjectAt(up, mem[up])
        BY <1>1, <1>2
    <2>2. ASSUME NEW j \in DOMAIN kids
          PROVE \E q \in Paths \ {<<>>} : Front(q) = up /\ Last(q) = j /\ kids[j] \in Named(q)
        <3>1. CASE j = i
            BY <1>2, <1>5, <3>1
        <3>2. CASE j # i
            <4>1. j \in DOMAIN mem[up].kids /\ kids[j] = mem[up].kids[j]
                BY <2>2, <3>2
            <4> QED BY <2>1, <4>1 DEF ObjectAt
        <3> QED BY <3>1, <3>2
    <2>3. mem[up].ref \in Named(up)
        BY <2>1 DEF ObjectAt
    <2> HIDE DEF kids, up, i
    <2> QED BY <1>7, <2>2, <2>3 DEF ObjectAt
<1>9. \A j : KidRef(mem'[up], j) = IF j = i THEN r ELSE KidRef(mem[up], j)
    <2>1. mem'[up].kids = kids
        BY <1>7
    <2> QED BY <2>1 DEF KidRef
<1>10. /\ TreeOK(RootOf(mem'), mem', b)
       /\ \A q \in Paths : InMemory(mem', b)[q] =
                              IF q = p THEN obj ELSE IF q = up THEN mem'[q] ELSE Here[q]
    <2>1. PICK T : T = Here
        OBVIOUS
    <2>2. PICK m : m = mem
        OBVIOUS
    <2>3. PICK m2 : m2 = mem'
        OBVIOUS
    <2>4. PICK U : U = Tree(RootOf(m2), m2, b)
        OBVIOUS
    <2>5. BodyOK(b) /\ TreeOK(RootOf(m), m, b) /\ T = Tree(RootOf(m), m, b)
        BY <1>5, <2>1, <2>2 DEF InOrder, InMemory
    <2>6. p \in DOMAIN m \ {<<>>} /\ <<>> \in DOMAIN m /\ Front(p) \in DOMAIN m
        BY <1>1, <1>2, <2>2
    <2>7. obj.ref \in DOMAIN b /\ b[obj.ref] = obj /\ obj.kids = m[p].kids
        BY <1>5, <2>2
    <2>8. DOMAIN m2 = DOMAIN m \ {p}
        BY <1>7, <2>2, <2>3
    <2>9. \A q \in DOMAIN m2 : ObjectAt(q, m2[q]) /\ (q # Front(p) => m2[q] = m[q])
        BY <1>1, <1>7, <1>8, <2>2, <2>3
    <2>10. \A j : KidRef(m2[Front(p)], j) = IF j = Last(p) THEN obj.ref ELSE KidRef(m[Front(p)], j)
        BY <1>5, <1>9, <2>2, <2>3
    <2> HIDE DEF up, i
    <2>11. Stored(m, b, p, obj, m2)
        BY ONLY <2>6, <2>7, <2>8, <2>9, <2>10 DEF Stored
    <2>12. /\ TreeOK(RootOf(m2), m2, b)
           /\ \A q \in Paths : U[q] = IF q = p THEN obj ELSE IF q = Front(p) THEN m2[q] ELSE T[q]
        BY ONLY <2>4, <2>5, <2>11, StoredTree
    <2> QED BY <2>1, <2>3, <2>4, <2>12 DEF InMemory, up
<1>11. InOrder(mem', b, head')
    BY <1>5, <1>10 DEF InOrder
<1>12. /\ InOrder(mem, body, head)'
       /\ Here' = InMemory(mem', b) /\ Published' = InStore(head', b) /\ Swept(PutList(r))
    BY <1>6, <1>11, SweepStep
<1>13. DOMAIN mem'[<<>>].kids = DOMAIN mem[<<>>].kids
    <2>1. CASE up = <<>>
        <3>1. i \in Files /\ p = <<i>>
            BY <1>2, <2>1, TopPlaces
        <3>2. i \in DOMAIN mem[<<>>].kids
            BY <1>2, <3>1
        <3>3. mem'[<<>>].kids = kids
            BY <1>7, <2>1
        <3>4. DOMAIN kids = DOMAIN mem[<<>>].kids
            BY <2>1, <3>2
        <3> QED BY <3>3, <3>4
    <2>2. CASE up # <<>>
        BY <1>1, <1>7, <2>2
    <2> QED BY <2>1, <2>2
<1>14. DirtyAbove(mem')
    BY <1>2, <1>3, <1>7, <1>13 DEF DirtyAbove
<1>15. Settled'
    BY <1>1, <1>7 DEF Inv, Settled
<1>16. \A q \in Paths : Here'[q] = IF q = p THEN obj ELSE IF q = up THEN mem'[q] ELSE Here[q]
    BY <1>10, <1>12
<1>17. Contents(Here') = Contents(Here)
    <2>1. \A q \in Paths : Here'[q].val = Here[q].val
        <3>1. obj.val = Here[p].val /\ mem'[up].val = Here[up].val
            <4>1. obj.val = mem[p].val /\ mem'[up].val = mem[up].val
                BY <1>5, <1>7
            <4> QED BY <1>1, <1>2, <4>1
        <3> QED BY <1>16, <3>1
    <2>2. DOMAIN Here'[<<>>].kids = DOMAIN Here[<<>>].kids
        BY <1>1, <1>13, <1>16, PathForms
    <2> QED BY <1>1, <2>1, <2>2, SameContents
<1>18. Grafted(p, r)
    <2>1. r \in Refs
        BY <1>2, FreshIsNew DEF Inv, Refs
    <2>2. \A q \in Paths : \A k : KidRef(Here'[q], k) =
              IF q = up /\ k = i THEN r ELSE KidRef(Here[q], k)
        <3>1. \A k : KidRef(obj, k) = KidRef(Here[p], k)
            BY <1>1, <1>5 DEF KidRef
        <3>2. Here[up] = mem[up]
            BY <1>1, <1>2
        <3> HIDE DEF up, i, kids
        <3> QED BY <1>2, <1>9, <1>16, <3>1, <3>2
    <2>3. ASSUME NEW q \in Paths \ {<<>>}
          PROVE KidRef(Here'[Front(q)], Last(q)) = IF q = p THEN r ELSE KidRef(Here[Front(q)], Last(q))
        <3>1. Front(q) \in Paths /\ (Front(q) = up /\ Last(q) = i <=> q = p)
            BY <1>2, PathStep, PathUnique
        <3> HIDE DEF up, i, kids
        <3> QED BY <2>2, <3>1
    <2>4. Here'[p].ref = r
        BY <1>2, <1>5, <1>16
    <2>5. Published' = Published
        BY <1>5, <1>12
    <2> QED BY <1>2, <1>7, <1>12, <2>1, <2>3, <2>4, <2>5 DEF Grafted
<1>19. ASSUME Filled(mem, Here) PROVE Filled(mem', Here')
    <2>1. DOMAIN mem'[up].kids = DOMAIN Here[up].kids \cup {i}
        BY <1>1, <1>2, <1>7
    <2>2. ASSUME NEW q \in Paths PROVE DOMAIN Here[q].kids \subseteq DOMAIN Here'[q].kids
        <3>1. CASE q = p
            <4>1. Here'[q] = obj /\ Here[q] = mem[p]
                BY <1>1, <1>16, <3>1
            <4> QED BY <1>5, <4>1
        <3>2. CASE q = up
            BY <1>2, <1>16, <2>1, <3>2
        <3>3. CASE q # p /\ q # up
            BY <1>16, <3>3
        <3> QED BY <3>1, <3>2, <3>3
    <2>3. \A q \in Paths : q \notin DOMAIN mem => Here'[q] = Here[q]
        BY <1>2, <1>16
    <2>4. ASSUME NEW g \in Files, Indirect(g) \in DOMAIN mem' \/ Here'[Indirect(g)].ref # Nil
          PROVE \E k \in 1..NBlocks : k > NDIRECT /\ (\/ Block(g, k) \in DOMAIN mem'
                                                      \/ k - NDIRECT \in DOMAIN Here'[Indirect(g)].kids)
        <3>1. Indirect(g) \in Paths /\ (Indirect(g) \in DOMAIN mem \/ Here[Indirect(g)].ref # Nil)
            BY <1>7, <2>3, <2>4, IndirectForm
        <3>2. PICK k \in 1..NBlocks : k > NDIRECT /\ (\/ Block(g, k) \in DOMAIN mem
                                                      \/ k - NDIRECT \in DOMAIN Here[Indirect(g)].kids)
            BY <1>19, <3>1 DEF Filled
        <3>3. CASE Block(g, k) = p
            <4>1. up = Indirect(g) /\ i = k - NDIRECT
                BY <3>2, <3>3, BlockForm
            <4>2. k - NDIRECT \in DOMAIN Here'[Indirect(g)].kids
                BY <1>2, <1>16, <2>1, <3>1, <4>1
            <4> QED BY <3>2, <4>2
        <3>4. CASE Block(g, k) # p
            BY <1>7, <2>2, <3>1, <3>2, <3>4
        <3> QED BY <3>3, <3>4
    <2> QED BY <2>4 DEF Filled
<1> QED BY <1>1, <1>5, <1>12, <1>14, <1>15, <1>17, <1>18, <1>19 DEF Inv, Seen

\* One put of a flush.
LEMMA PersistStep ==
    ASSUME Inv, bn_persist
    PROVE /\ Inv' /\ Contents(Published)' = Contents(Published) /\ Seen' = Seen
          /\ \E p, r : Grafted(p, r) /\ (phase' = "publish" => p = <<>>)
          /\ Filled(mem, Here) => Filled(mem', Here')
<1>1. PICK p \in DOMAIN mem :
          /\ FlushesNext(p)
          /\ \E obj \in {[mem[p] EXCEPT !.ref = Fresh(p)]} :
                 mem' = Clean(p, obj) /\ Put(obj, mem')
          /\ IF p = <<>> THEN dirty' = FALSE /\ phase' = "publish"
             ELSE UNCHANGED <<dirty, phase>>
    BY DEF bn_persist
<1>2. PICK obj : obj = [mem[p] EXCEPT !.ref = Fresh(p)] /\ mem' = Clean(p, obj) /\ Put(obj, mem')
    BY <1>1
<1>3. phase = "flush" /\ UNCHANGED head
    BY DEF bn_persist
<1>4. CASE p = <<>>
    <2>1. PICK r : r = Fresh(<<>>)
        OBVIOUS
    <2> QED BY <1>1, <1>2, <1>3, <1>4, <2>1, RootStored
<1>5. CASE p # <<>>
    <2>1. PICK r : r = Fresh(p)
        OBVIOUS
    <2> QED BY <1>1, <1>2, <1>3, <1>5, <2>1, KidStored
<1> QED BY <1>4, <1>5

-----------------------------------------------------------------------------
(* The blocks that no put can purge *)

\* The blocks that are not marked.
Committed == {lru[i] : i \in (marked + 1)..Len(lru)}

Store == lru \in Seq(Refs \cup {Nil}) /\ marked \in 0..Len(lru)

\* The published tree is committed.
PublishedKept == harm = "none" => RefsOf(Published) \subseteq Committed

\* So is what the users' tree refers to, but for the old blocks of dirty inodes.
TreeKept ==
    phase # "down" /\ harm # "stranded" =>
        \A q \in Paths \ {<<>>} : q \notin DOMAIN mem \/ Front(q) # <<>> =>
            KidRef(Here[Front(q)], Last(q)) \in Committed \cup {Nil}

\* So is the root that is to be published.
RootKept == phase = "publish" => Here[<<>>].ref \in Committed

\* While nothing was dropped the users' tree has all references of the published one.
SoFar == phase = "idle" /\ ~shrunk => Within(Published, Here)

\* No indirect block is stored with nothing under it: a truncation would drop it.
AllFilled == Filled(mem, Here) /\ Filled(NoTree, Published)

Kept == Store /\ PublishedKept /\ TreeKept /\ RootKept /\ SoFar /\ AllFilled

\* The references of the trees are told apart.
LEMMA UsedRefs ==
    ASSUME NEW m, NEW b, NEW h, InOrder(m, b, h), DirtyAbove(m), NEW T, T = InMemory(m, b)
    PROVE /\ RefsOf(T) \subseteq InUse(m, b, h) /\ RefsOf(InStore(h, b)) \subseteq InUse(m, b, h)
          /\ <<>> \in DOMAIN m => \A q \in Paths \ {<<>>} :
                KidRef(T[Front(q)], Last(q)) \in InUse(m, b, h) \cup {Nil}
<1>1. RefsOf(T) \subseteq InUse(m, b, h) /\ RefsOf(InStore(h, b)) \subseteq InUse(m, b, h)
    BY DEF InUse
<1>2. ASSUME <<>> \in DOMAIN m, NEW q \in Paths \ {<<>>}
      PROVE KidRef(T[Front(q)], Last(q)) \in InUse(m, b, h) \cup {Nil}
    <2>1. T = Tree(RootOf(m), m, b) /\ TreeOK(RootOf(m), m, b) /\ BodyOK(b)
        BY DEF InMemory, InOrder
    <2>2. CASE q \notin DOMAIN m
        <3>1. T[q].ref = KidRef(T[Front(q)], Last(q))
            BY <2>1, <2>2, TreeObjects
        <3>2. T[q].ref \in RefsOf(T) \cup {Nil}
            BY DEF RefsOf
        <3> QED BY <1>1, <3>1, <3>2
    <2>3. CASE q \in DOMAIN m
        <3>1. Front(q) \in DOMAIN m /\ Front(q) \in Paths
            BY <2>3, PathStep DEF DirtyAbove
        <3>2. T[Front(q)] = m[Front(q)]
            BY <1>2, <2>1, <3>1, TreeAt DEF RootOf
        <3>3. KidRef(m[Front(q)], Last(q)) \in ToSet(m[Front(q)].kids) \cup {Nil}
            BY DEF KidRef, ToSet
        <3>4. ASSUME NEW r, r \in ToSet(m[Front(q)].kids), r # Nil PROVE r \in InUse(m, b, h)
            <4>1. r \in UNION {ToSet(m[p].kids) : p \in DOMAIN m}
                BY <3>1, <3>4
            <4>2. (UNION {ToSet(m[p].kids) : p \in DOMAIN m}) \ {Nil} \subseteq InUse(m, b, h)
                BY DEF InUse
            <4>3. r \in (UNION {ToSet(m[p].kids) : p \in DOMAIN m}) \ {Nil}
                BY <3>4, <4>1, Zenon
            <4> QED BY <4>2, <4>3, Zenon
        <3> QED BY <3>2, <3>3, <3>4
    <2> QED BY <2>2, <2>3
<1> QED BY <1>1, <1>2

\* The same, after a step.
LEMMA UsedAfter ==
    ASSUME Inv'
    PROVE /\ RefsOf(Here') \subseteq Used' /\ RefsOf(Published') \subseteq Used'
          /\ phase' # "down" => \A q \in Paths \ {<<>>} :
                KidRef(Here'[Front(q)], Last(q)) \in Used' \cup {Nil}
<1>1. PICK m : m = mem'
    OBVIOUS
<1>2. PICK b : b = body'
    OBVIOUS
<1>3. PICK h : h = head'
    OBVIOUS
<1>4. PICK T : T = InMemory(m, b)
    OBVIOUS
<1>5. InOrder(m, b, h) /\ DirtyAbove(m) /\ (phase' # "down" => <<>> \in DOMAIN m)
    BY <1>1, <1>2, <1>3 DEF Inv, Settled
<1>6. /\ RefsOf(T) \subseteq InUse(m, b, h) /\ RefsOf(InStore(h, b)) \subseteq InUse(m, b, h)
      /\ <<>> \in DOMAIN m => \A q \in Paths \ {<<>>} :
            KidRef(T[Front(q)], Last(q)) \in InUse(m, b, h) \cup {Nil}
    BY ONLY <1>4, <1>5, UsedRefs
<1>7. T = Here' /\ InStore(h, b) = Published' /\ InUse(m, b, h) = Used'
    BY <1>1, <1>2, <1>3, <1>4 DEF Here, Published, Used
<1> QED BY <1>5, <1>6, <1>7

\* A sweep keeps the blocks that are used where they are.
LEMMA SweptStore ==
    ASSUME Store, Swept(lru), UNCHANGED marked
    PROVE Store' /\ Committed \cap Used' \subseteq Committed'
<1>1. Len(lru) \in Nat /\ DOMAIN lru = 1..Len(lru) /\ \A i \in 1..Len(lru) : lru[i] \in Refs \cup {Nil}
    BY DEF Store
<1>2. lru' = [i \in 1..Len(lru) |-> IF lru[i] \in Used' THEN lru[i] ELSE Nil]
    BY <1>1 DEF Swept
<1>3. \A i \in 1..Len(lru) : lru'[i] \in Refs \cup {Nil}
    BY <1>1, <1>2
<1>4. lru' \in Seq(Refs \cup {Nil}) /\ Len(lru') = Len(lru)
    BY <1>1, <1>2, <1>3
<1>5. Store'
    BY <1>4 DEF Store
<1>6. ASSUME NEW i \in (marked + 1)..Len(lru), lru[i] \in Used' PROVE lru[i] \in Committed'
    <2>1. i \in 1..Len(lru) /\ i \in (marked' + 1)..Len(lru')
        BY <1>1, <1>4 DEF Store
    <2>2. lru'[i] = lru[i]
        BY <1>2, <1>6, <2>1
    <2> QED BY <2>1, <2>2 DEF Committed
<1> QED BY <1>5, <1>6 DEF Committed

\* A put that finds space purges a marked block.
LEMMA PutStore ==
    ASSUME Store, ~NoSpace, NEW r \in Refs, Swept(PutList(r)),
           marked' = IF Len(lru) >= Capacity THEN marked - 1 ELSE marked
    PROVE Store' /\ (Committed \cup {r}) \cap Used' \subseteq Committed'
<1> DEFINE X == Refs \cup {Nil}
           l == PutList(r)
<1>0. lru \in Seq(X) /\ Len(lru) \in Nat /\ marked \in Nat /\ marked <= Len(lru) /\ Capacity \in Nat \ {0}
    BY UTFileSystemAssumption DEF Store
<1>1. PICK d \in 0..1 :
          /\ d <= marked /\ marked' = marked - d
          /\ l \in Seq(X) /\ Len(l) = Len(lru) - d + 1 /\ l[Len(l)] = r
          /\ \A i \in (d + 1)..Len(lru) : l[i - d] = lru[i]
    <2>0. r \in X
        OBVIOUS
    <2> HIDE DEF X
    <2>1. CASE Len(lru) >= Capacity
        <3>1. lru # <<>> /\ marked >= 1
            BY <1>0, <2>1 DEF NoSpace
        <3>2. PICK t : t = Tail(lru)
            OBVIOUS
        <3>3. t \in Seq(X) /\ Len(t) = Len(lru) - 1 /\ \A i \in 1..Len(t) : t[i] = lru[i + 1]
            BY <1>0, <3>1, <3>2
        <3>4. l = Append(t, r)
            BY <2>1, <3>2 DEF PutList
        <3>5. l \in Seq(X) /\ Len(l) = Len(t) + 1 /\ l[Len(l)] = r /\ \A i \in 1..Len(t) : l[i] = t[i]
            BY <2>0, <3>3, <3>4
        <3>6. ASSUME NEW i \in 2..Len(lru) PROVE l[i - 1] = lru[i]
            <4>1. i - 1 \in 1..Len(t) /\ (i - 1) + 1 = i
                BY <1>0, <3>3
            <4> QED BY <3>3, <3>5, <4>1
        <3>7. marked' = marked - 1 /\ 1 <= marked
            BY <1>0, <2>1, <3>1
        <3>8. Len(l) = Len(lru) - 1 + 1
            BY <3>3, <3>5
        <3> QED BY <3>5, <3>6, <3>7, <3>8
    <2>2. CASE ~(Len(lru) >= Capacity)
        <3>1. l = Append(lru, r)
            BY <2>2 DEF PutList
        <3>2. l \in Seq(X) /\ Len(l) = Len(lru) + 1 /\ l[Len(l)] = r /\ \A i \in 1..Len(lru) : l[i] = lru[i]
            BY <1>0, <2>0, <3>1
        <3>3. \A i \in 1..Len(lru) : i - 0 = i
            BY <1>0
        <3>4. marked' = marked - 0 /\ 0 <= marked /\ Len(l) = Len(lru) - 0 + 1
            BY <1>0, <2>2, <3>2
        <3> QED BY <3>2, <3>3, <3>4
    <2> QED BY <2>1, <2>2
<1>2. lru' = [i \in 1..Len(l) |-> IF l[i] \in Used' THEN l[i] ELSE Nil]
    BY <1>1 DEF Swept
<1> HIDE DEF l
<1>3. Len(l) \in Nat /\ \A i \in 1..Len(l) : l[i] \in X
    BY <1>1
<1>4. \A i \in 1..Len(l) : lru'[i] \in X
    BY <1>2, <1>3
<1>5. lru' \in Seq(X) /\ Len(lru') = Len(l)
    <2> HIDE DEF X
    <2> QED BY <1>2, <1>3, <1>4
<1>6. Store'
    BY <1>0, <1>1, <1>5 DEF Store
<1>7. ASSUME NEW i \in (marked + 1)..Len(lru), lru[i] \in Used' PROVE lru[i] \in Committed'
    <2>1. i - d \in 1..Len(l) /\ i - d \in (marked' + 1)..Len(lru') /\ i \in (d + 1)..Len(lru)
        BY <1>0, <1>1, <1>5
    <2>2. lru'[i - d] = lru[i]
        BY <1>1, <1>2, <1>7, <2>1
    <2> QED BY <2>1, <2>2 DEF Committed
<1>8. ASSUME r \in Used' PROVE r \in Committed'
    <2>1. Len(l) \in 1..Len(l) /\ Len(l) \in (marked' + 1)..Len(lru')
        BY <1>0, <1>1, <1>3, <1>5
    <2>2. lru'[Len(l)] = r
        BY <1>1, <1>2, <1>8, <2>1
    <2> QED BY <2>1, <2>2 DEF Committed
<1> QED BY <1>6, <1>7, <1>8 DEF Committed

\* Blocks in C that are used stay committed: what the trees have of C is kept.
LEMMA CommittedKept ==
    ASSUME Inv', NEW C, C \cap Used' \subseteq Committed',
           harm' = "none" => RefsOf(Published') \subseteq C,
           phase' # "down" /\ harm' # "stranded" =>
               \A q \in Paths \ {<<>>} : q \notin DOMAIN mem' \/ Front(q) # <<>> =>
                   KidRef(Here'[Front(q)], Last(q)) \in C \cup {Nil}
    PROVE PublishedKept' /\ TreeKept'
<1>1. /\ RefsOf(Published') \subseteq Used'
      /\ phase' # "down" => \A q \in Paths \ {<<>>} :
            KidRef(Here'[Front(q)], Last(q)) \in Used' \cup {Nil}
    BY UsedAfter
<1>2. PublishedKept'
    BY <1>1 DEF PublishedKept
<1>3. TreeKept'
    BY <1>1 DEF TreeKept
<1> QED BY <1>2, <1>3

\* A change of the users' tree, or a put that fails.
LEMMA EditKept ==
    ASSUME Kept, Inv', phase # "down", phase' = "idle", UNCHANGED <<marked, harm>>,
           NEW X, Trimmed(X), Filled(mem, Here) => Filled(mem', Here'),
           \/ shrunk'
           \/ phase = "idle" /\ ~shrunk /\ (Within(Published, Here) => Within(Published, Here'))
    PROVE Kept'
<1>1. /\ Published' = Published /\ Swept(lru) /\ DOMAIN mem \ X \subseteq DOMAIN mem'
      /\ \A q \in Paths \ {<<>>} :
            KidRef(Here'[Front(q)], Last(q)) =
                IF q \in X THEN Nil ELSE KidRef(Here[Front(q)], Last(q))
    BY DEF Trimmed
<1>2. Store' /\ Committed \cap Used' \subseteq Committed'
    BY <1>1, SweptStore DEF Kept
<1>3. harm' = "none" => RefsOf(Published') \subseteq Committed
    BY <1>1 DEF Kept, PublishedKept
<1>4. ASSUME harm' # "stranded", NEW q \in Paths \ {<<>>}, q \notin DOMAIN mem' \/ Front(q) # <<>>
      PROVE KidRef(Here'[Front(q)], Last(q)) \in Committed \cup {Nil}
    <2>1. CASE q \in X
        BY <1>1, <2>1
    <2>2. CASE q \notin X
        <3>1. q \notin DOMAIN mem \/ Front(q) # <<>>
            BY <1>1, <1>4, <2>2
        <3>2. KidRef(Here[Front(q)], Last(q)) \in Committed \cup {Nil}
            BY <1>4, <3>1 DEF Kept, TreeKept
        <3> QED BY <1>1, <2>2, <3>2
    <2> QED BY <2>1, <2>2
<1>5. PublishedKept' /\ TreeKept'
    BY <1>2, <1>3, <1>4, CommittedKept
<1>6. RootKept'
    BY DEF RootKept
<1>7. SoFar'
    BY <1>1 DEF Kept, SoFar
<1>8. AllFilled'
    BY <1>1 DEF Kept, AllFilled
<1> QED BY <1>2, <1>5, <1>6, <1>7, <1>8 DEF Kept

\* A process that is down has no tree.
LEMMA NoneFilled ==
    ASSUME Inv', mem' = NoTree PROVE Filled(mem', Here')
<1>1. PICK b : b = body'
    OBVIOUS
<1>2. BodyOK(b)
    BY <1>1 DEF Inv, InOrder
<1>3. \A p \in Paths : Tree(New, NoTree, b)[p] = New
    BY <1>2, EmptyTree
<1>4. Here' = Tree(New, NoTree, b) /\ DOMAIN mem' = {}
    BY <1>1 DEF Here, InMemory, RootOf, NoTree
<1>5. \A f \in Files : Here'[Indirect(f)].ref = Nil
    <2> SUFFICES ASSUME NEW f \in Files PROVE Here'[Indirect(f)].ref = Nil
        OBVIOUS
    <2>1. Indirect(f) \in Paths
        BY PathForms
    <2>2. Here'[Indirect(f)] = New
        BY <1>3, <1>4, <2>1
    <2> QED BY <2>2 DEF New
<1> QED BY <1>4, <1>5 DEF Filled

\* The process ends.
LEMMA DownKept ==
    ASSUME Inv, Kept, Down, Sweep(lru, mem', body, head'), UNCHANGED <<head, marked, harm>>
    PROVE Kept'
<1>1. Inv' /\ Published' = Published /\ Swept(lru)
    BY DownStep
<1>2. phase' = "down" /\ mem' = NoTree
    BY DEF Down
<1>3. Store' /\ Committed \cap Used' \subseteq Committed'
    BY <1>1, SweptStore DEF Kept
<1>4. harm' = "none" => RefsOf(Published') \subseteq Committed
    BY <1>1 DEF Kept, PublishedKept
<1>5. PublishedKept' /\ TreeKept'
    BY <1>1, <1>2, <1>3, <1>4, CommittedKept
<1>6. RootKept' /\ SoFar'
    BY <1>2 DEF RootKept, SoFar
<1>7. AllFilled'
    BY <1>1, <1>2, NoneFilled DEF Kept, AllFilled
<1> QED BY <1>3, <1>5, <1>6, <1>7 DEF Kept

\* The users' tree is made, or is the published one.
LEMMA MountKept ==
    ASSUME Inv, Kept, fs_mkfs \/ fs_mount PROVE Kept'
<1>1. /\ phase = "down" /\ mem' = [p \in {<<>>} |-> body[head]] /\ UNCHANGED <<body, head>>
      /\ (phase' = "idle" /\ UNCHANGED dirty) \/ (phase' = "flush" /\ dirty')
      /\ UNCHANGED <<lru, marked, harm>>
      /\ head = Nil \/ harm = "none"
    BY DEF fs_mkfs, fs_mount, StartFlush, Inv, InOrder, BodyOK
<1>2. Inv' /\ Here' = Published /\ Published' = Published
    BY <1>1, MountStep
<1>3. Store' /\ Committed' = Committed /\ PublishedKept'
    BY <1>1, <1>2 DEF Kept, Store, Committed, PublishedKept
<1>4. ASSUME NEW q \in Paths \ {<<>>} PROVE KidRef(Published[Front(q)], Last(q)) \in Committed \cup {Nil}
    <2>1. CASE head = Nil
        <3>1. body[head] = New /\ BodyOK(body)
            BY <2>1 DEF Inv, InOrder, BodyOK
        <3>2. \A p \in Paths : Published[p] = New
            BY <3>1, EmptyTree DEF Published, InStore
        <3> QED BY <3>2, PathStep, NewObject
    <2>2. CASE harm = "none"
        <3>1. Published[q].ref = KidRef(Published[Front(q)], Last(q))
            BY PublishedObjects
        <3> QED BY <2>2, <3>1 DEF Kept, PublishedKept, RefsOf
    <2> QED BY <1>1, <2>1, <2>2
<1>5. TreeKept'
    BY <1>2, <1>3, <1>4 DEF TreeKept
<1>6. RootKept'
    BY <1>1 DEF RootKept
<1>7. Within(Published, Published)
    BY DEF Within
<1>8. SoFar'
    BY <1>2, <1>7 DEF SoFar
<1>9. Filled(mem', Published)
    <2>1. DOMAIN mem' = {<<>>} /\ DOMAIN NoTree = {}
        BY <1>1 DEF NoTree
    <2>2. Filled(NoTree, Published)
        BY DEF Kept, AllFilled
    <2> QED BY <2>1, <2>2, IndirectForm, BlockForm DEF Filled
<1>10. AllFilled'
    BY <1>2, <1>9 DEF Kept, AllFilled
<1> QED BY <1>3, <1>5, <1>6, <1>8, <1>10 DEF Kept

\* A step that leaves the trees and the store alone.
LEMMA QuietKept ==
    ASSUME Kept, UNCHANGED <<lru, marked, body, head, mem, shrunk, harm>>,
           \/ UNCHANGED phase
           \/ phase = "idle" /\ phase' = "flush"
    PROVE Kept'
<1>1. Here' = Here /\ Published' = Published
    BY DEF Here, Published
<1>2. Store' /\ Committed' = Committed
    BY DEF Kept, Store, Committed
<1>3. PublishedKept' /\ RootKept' /\ SoFar' /\ AllFilled'
    BY <1>1, <1>2 DEF Kept, PublishedKept, RootKept, SoFar, AllFilled
<1>4. TreeKept'
    BY <1>1, <1>2 DEF Kept, TreeKept
<1> QED BY <1>2, <1>3, <1>4 DEF Kept

\* One put of a flush.
LEMMA PersistKept ==
    ASSUME Inv, Kept, bn_persist PROVE Kept'
<1>1. /\ Inv' /\ \E p, r : Grafted(p, r) /\ (phase' = "publish" => p = <<>>)
      /\ Filled(mem, Here) => Filled(mem', Here')
    BY PersistStep
<1>2. PICK p, r : Grafted(p, r) /\ (phase' = "publish" => p = <<>>)
    BY <1>1
<1>3. /\ Published' = Published /\ Swept(PutList(r)) /\ r \in Refs
      /\ p \in Paths /\ Here'[p].ref = r /\ DOMAIN mem \ {p} \subseteq DOMAIN mem'
      /\ \A q \in Paths \ {<<>>} :
            KidRef(Here'[Front(q)], Last(q)) = IF q = p THEN r ELSE KidRef(Here[Front(q)], Last(q))
    BY <1>2 DEF Grafted
<1>4. /\ phase = "flush" /\ ~NoSpace /\ UNCHANGED harm /\ phase' \in {"flush", "publish"}
      /\ marked' = IF Len(lru) >= Capacity THEN marked - 1 ELSE marked
    BY DEF bn_persist, Put
<1>5. Store' /\ (Committed \cup {r}) \cap Used' \subseteq Committed'
    BY <1>3, <1>4, PutStore DEF Kept
<1>6. harm' = "none" => RefsOf(Published') \subseteq Committed \cup {r}
    BY <1>3, <1>4 DEF Kept, PublishedKept
<1>7. ASSUME harm' # "stranded", NEW q \in Paths \ {<<>>}, q \notin DOMAIN mem' \/ Front(q) # <<>>
      PROVE KidRef(Here'[Front(q)], Last(q)) \in (Committed \cup {r}) \cup {Nil}
    <2>1. CASE q = p
        BY <1>3, <2>1
    <2>2. CASE q # p
        <3>1. q \notin DOMAIN mem \/ Front(q) # <<>>
            BY <1>3, <1>7, <2>2
        <3>2. KidRef(Here[Front(q)], Last(q)) \in Committed \cup {Nil}
            BY <1>4, <1>7, <3>1 DEF Kept, TreeKept
        <3> QED BY <1>3, <2>2, <3>2
    <2> QED BY <2>1, <2>2
<1>8. PublishedKept' /\ TreeKept'
    <2>1. PICK C : C = Committed \cup {r}
        OBVIOUS
    <2> QED BY <1>1, <1>5, <1>6, <1>7, <2>1, CommittedKept
<1>9. RootKept'
    <2> SUFFICES ASSUME phase' = "publish" PROVE Here'[<<>>].ref \in Committed'
        BY DEF RootKept
    <2>1. p = <<>> /\ Here'[<<>>].ref = r
        BY <1>2, <1>3
    <2>2. r \in RefsOf(Here')
        <3>1. r # Nil
            BY <1>3 DEF Refs, Nil
        <3> QED BY <2>1, <3>1, PathForms DEF RefsOf
    <2>3. r \in Used'
        BY <1>1, <2>2, UsedAfter
    <2> QED BY <1>5, <2>1, <2>3
<1>10. SoFar'
    BY <1>4 DEF SoFar
<1>11. AllFilled'
    BY <1>1, <1>3 DEF Kept, AllFilled
<1> QED BY <1>5, <1>8, <1>9, <1>10, <1>11 DEF Kept

\* A tree that was flushed is committed.
LEMMA FlushedKept ==
    ASSUME Inv, Kept, phase = "publish", harm # "stranded"
    PROVE  RefsOf(Here) \subseteq Committed
<1>1. DOMAIN mem = {<<>>}
    BY DEF Inv, Settled
<1>2. ASSUME NEW q \in Paths, Here[q].ref # Nil PROVE Here[q].ref \in Committed
    <2>1. CASE q = <<>>
        BY <2>1 DEF Kept, RootKept
    <2>2. CASE q # <<>>
        <3>1. Here = Tree(RootOf(mem), mem, body) /\ BodyOK(body) /\ TreeOK(RootOf(mem), mem, body)
            BY DEF Here, InMemory, Inv, InOrder
        <3>2. Here[q].ref = KidRef(Here[Front(q)], Last(q))
            BY <1>1, <2>2, <3>1, TreeObjects
        <3>3. KidRef(Here[Front(q)], Last(q)) \in Committed \cup {Nil}
            BY <1>1, <2>2 DEF Kept, TreeKept
        <3> QED BY <1>2, <3>2, <3>3
    <2> QED BY <2>1, <2>2
<1> QED BY <1>2 DEF RefsOf

\* The tree that was flushed becomes the published one.
LEMMA PublishKept ==
    ASSUME Inv, Kept, rootref PROVE Kept'
<1>1. /\ Inv' /\ Published' = Here /\ Swept(lru)
      /\ \/ phase' = "down" /\ mem' = NoTree
         \/ phase' = "idle" /\ mem' = mem /\ Here' = Here
    BY PublishStep
<1>2. /\ phase = "publish" /\ UNCHANGED marked
      /\ harm' = IF harm = "exposed" THEN "none" ELSE harm
    BY DEF rootref
<1>3. DOMAIN mem = {<<>>}
    BY <1>2 DEF Inv, Settled
<1>4. Store' /\ Committed \cap Used' \subseteq Committed'
    BY <1>1, <1>2, SweptStore DEF Kept
<1>5. ASSUME harm' = "none" PROVE RefsOf(Here) \subseteq Committed
    <2>1. harm # "stranded"
        BY <1>2, <1>5
    <2> QED BY <1>2, <2>1, FlushedKept
<1>6. harm' = "none" => RefsOf(Published') \subseteq Committed
    BY <1>1, <1>5
<1>7. ASSUME phase' # "down", harm' # "stranded", NEW q \in Paths \ {<<>>},
             q \notin DOMAIN mem' \/ Front(q) # <<>>
      PROVE KidRef(Here'[Front(q)], Last(q)) \in Committed \cup {Nil}
    BY <1>1, <1>2, <1>7 DEF Kept, TreeKept
<1>8. PublishedKept' /\ TreeKept'
    BY <1>1, <1>4, <1>6, <1>7, CommittedKept
<1>9. RootKept'
    BY <1>1 DEF RootKept
<1>10. SoFar'
    <2>1. Within(Here, Here)
        BY DEF Within
    <2> QED BY <1>1, <2>1 DEF SoFar
<1>11. AllFilled'
    <2>1. Filled(NoTree, Here)
        <3>1. DOMAIN NoTree = {}
            BY DEF NoTree
        <3>2. Filled(mem, Here)
            BY DEF Kept, AllFilled
        <3> QED BY <1>3, <3>1, <3>2, IndirectForm, BlockForm DEF Filled
    <2>2. Filled(mem', Here')
        BY <1>1, NoneFilled DEF Kept, AllFilled
    <2> QED BY <1>1, <2>1, <2>2 DEF AllFilled
<1> QED BY <1>4, <1>8, <1>9, <1>10, <1>11 DEF Kept

-----------------------------------------------------------------------------
(* What a refresh cycle touches *)

\* The members of the second of two sequences that are put together.
LEMMA ConcatTail ==
    ASSUME NEW X, NEW s \in Seq(X), NEW t \in Seq(X)
    PROVE  {(s \o t)[i] : i \in (Len(s) + 1)..Len(s \o t)} = ToSet(t)
<1>1. /\ Len(s) \in Nat /\ Len(t) \in Nat /\ Len(s \o t) = Len(s) + Len(t) /\ DOMAIN t = 1..Len(t)
      /\ \A i \in 1..(Len(s) + Len(t)) : (s \o t)[i] = IF i <= Len(s) THEN s[i] ELSE t[i - Len(s)]
    OBVIOUS
<1>2. PICK u : u = s \o t
    OBVIOUS
<1>3. /\ Len(u) = Len(s) + Len(t)
      /\ \A i \in 1..(Len(s) + Len(t)) : u[i] = IF i <= Len(s) THEN s[i] ELSE t[i - Len(s)]
    BY ONLY <1>1, <1>2
<1>4. ASSUME NEW i \in (Len(s) + 1)..Len(u) PROVE u[i] \in ToSet(t)
    <2>1. i \in 1..(Len(s) + Len(t)) /\ ~(i <= Len(s)) /\ i - Len(s) \in 1..Len(t)
        BY <1>1, <1>3
    <2>2. u[i] = t[i - Len(s)]
        BY <1>3, <2>1
    <2> QED BY <1>1, <2>1, <2>2 DEF ToSet
<1>5. ASSUME NEW j \in 1..Len(t) PROVE \E i \in (Len(s) + 1)..Len(u) : u[i] = t[j]
    <2>1. Len(s) + j \in (Len(s) + 1)..Len(u) /\ Len(s) + j \in 1..(Len(s) + Len(t))
          /\ ~(Len(s) + j <= Len(s)) /\ (Len(s) + j) - Len(s) = j
        BY <1>1, <1>3
    <2>2. u[Len(s) + j] = t[j]
        BY <1>3, <2>1
    <2> QED BY <2>1, <2>2
<1>6. {u[i] : i \in (Len(s) + 1)..Len(u)} = ToSet(t)
    BY <1>1, <1>4, <1>5 DEF ToSet
<1> QED BY <1>2, <1>6

\* The blocks keys, those that the store has, go to the new end of its list.
LEMMA TouchedList ==
    ASSUME Store, NEW keys \in Seq(Refs \cup {Nil})
    PROVE  /\ Untouched(keys) \in Seq(Refs \cup {Nil}) /\ Touch(keys) \in Seq(Refs \cup {Nil})
           /\ Len(Untouched(keys)) \in 0..Len(Touch(keys))
           /\ \A i \in 1..Len(Untouched(keys)) : Touch(keys)[i] = Untouched(keys)[i]
           /\ {Touch(keys)[i] : i \in (Len(Untouched(keys)) + 1)..Len(Touch(keys))} = Touched(keys)
<1>1. PICK X : X = Refs \cup {Nil}
    OBVIOUS
<1>2. lru \in Seq(X) /\ keys \in Seq(X)
    BY <1>1 DEF Store
<1>3. PICK u : u = Untouched(keys)
    OBVIOUS
<1>4. PICK w : w = Without(keys, ToSet(keys) \ Touched(keys))
    OBVIOUS
<1>5. u \in Seq(X)
    BY <1>2, <1>3, WithoutMembers DEF Untouched
<1>6. w \in Seq(X) /\ ToSet(w) = ToSet(keys) \ (ToSet(keys) \ Touched(keys))
    BY <1>2, <1>4, WithoutMembers
<1>7. ToSet(w) = Touched(keys)
    <2>1. Touched(keys) \subseteq ToSet(keys)
        BY DEF Touched
    <2> QED BY <1>6, <2>1
<1>8. Touch(keys) = u \o w
    BY <1>3, <1>4 DEF Touch
<1>9. /\ u \o w \in Seq(X) /\ Len(u) \in 0..Len(u \o w)
      /\ \A i \in 1..Len(u) : (u \o w)[i] = u[i]
    BY ONLY <1>5, <1>6
<1>10. {(u \o w)[i] : i \in (Len(u) + 1)..Len(u \o w)} = Touched(keys)
    BY <1>5, <1>6, <1>7, ConcatTail
<1> QED BY <1>1, <1>3, <1>5, <1>8, <1>9, <1>10

\* What a whole cycle touched is committed, and nothing else.
LEMMA CycleStore ==
    ASSUME Store, NEW keys \in Seq(Refs \cup {Nil}), Cycle(keys)
    PROVE  Store' /\ Committed' = Touched(keys)
<1>1. lru' = Touch(keys) /\ marked' = Len(Untouched(keys))
    BY DEF Cycle
<1> QED BY <1>1, TouchedList DEF Store, Committed

\* A cycle that does not finish leaves committed what was.
LEMMA WaitStore ==
    ASSUME Store, NEW keys \in Seq(Refs \cup {Nil}),
           lru' = Touch(keys), marked' = MarkedLeft(keys)
    PROVE  Store' /\ Committed \ {Nil} \subseteq Committed'
<1>1. PICK X : X = Refs \cup {Nil}
    OBVIOUS
<1>2. lru \in Seq(X) /\ marked \in 0..Len(lru)
    BY <1>1 DEF Store
<1>3. PICK u : u = Untouched(keys)
    OBVIOUS
<1>4. /\ u \in Seq(X) /\ lru' \in Seq(X) /\ Len(u) \in 0..Len(lru')
      /\ \A i \in 1..Len(u) : lru'[i] = u[i]
      /\ {lru'[i] : i \in (Len(u) + 1)..Len(lru')} = Touched(keys)
    BY <1>1, <1>3, TouchedList
<1>5. /\ marked' \in 0..Len(u)
      /\ \A j \in (marked + 1)..Len(lru) :
            lru[j] \notin Touched(keys) => \E k \in (marked' + 1)..Len(u) : u[k] = lru[j]
    BY <1>2, <1>3, WithoutSuffix DEF Untouched, MarkedLeft
<1>6. Store'
    BY <1>1, <1>4, <1>5 DEF Store
<1>7. ASSUME NEW j \in (marked + 1)..Len(lru), lru[j] # Nil PROVE lru[j] \in Committed'
    <2>1. CASE lru[j] \in Touched(keys)
        <3>1. PICK i \in (Len(u) + 1)..Len(lru') : lru'[i] = lru[j]
            BY <1>4, <2>1
        <3>2. i \in (marked' + 1)..Len(lru')
            BY <1>4, <1>5
        <3> QED BY <3>1, <3>2 DEF Committed
    <2>2. CASE lru[j] \notin Touched(keys)
        <3>1. PICK k \in (marked' + 1)..Len(u) : u[k] = lru[j]
            BY <1>5, <2>2
        <3>2. k \in (marked' + 1)..Len(lru') /\ k \in 1..Len(u)
            BY <1>4, <1>5
        <3>3. lru'[k] = lru[j]
            BY <1>4, <3>1, <3>2
        <3> QED BY <3>2, <3>3 DEF Committed
    <2> QED BY <2>1, <2>2
<1> QED BY <1>6, <1>7 DEF Committed

\* The references of an object of the users' tree.
LEMMA KidSeqMembers ==
    ASSUME Inv, phase # "down", NEW p \in Paths, NEW n \in Nat
    PROVE  /\ KidSeq(Here[p], n) \in Seq(Refs \cup {Nil})
           /\ ToSet(KidSeq(Here[p], n)) = {KidRef(Here[p], i) : i \in 1..n} \ {Nil}
<1>1. ObjectAt(p, Here[p])
    BY HereObjects
<1>2. ASSUME NEW i PROVE KidRef(Here[p], i) \in Refs \cup {Nil}
    <2>1. CASE i \in DOMAIN Here[p].kids
        <3>1. PICK q \in Paths \ {<<>>} : Here[p].kids[i] \in Named(q)
            BY <1>1, <2>1 DEF ObjectAt
        <3> QED BY <2>1, <3>1 DEF KidRef, Named, Refs
    <2>2. CASE i \notin DOMAIN Here[p].kids
        BY <2>2 DEF KidRef
    <2> QED BY <2>1, <2>2
<1>3. PICK X : X = Refs \cup {Nil}
    OBVIOUS
<1>4. PICK s : s = [i \in 1..n |-> KidRef(Here[p], i)]
    OBVIOUS
<1>5. s \in Seq(X)
    BY <1>2, <1>3, <1>4
<1>6. ToSet(s) = {KidRef(Here[p], i) : i \in 1..n}
    BY <1>4 DEF ToSet
<1>7. Without(s, {Nil}) \in Seq(X) /\ ToSet(Without(s, {Nil})) = ToSet(s) \ {Nil}
    BY <1>5, WithoutMembers
<1> QED BY <1>3, <1>4, <1>6, <1>7 DEF KidSeq

\* The references that are touched for the file f.
FileRefs(f) ==
    {Here[<<f>>].ref}
    \cup ({KidRef(Here[<<f>>], i) : i \in 1..(NDIRECT + 1)} \ {Nil})
    \cup (IF Descends(f) THEN {KidRef(Here[Indirect(f)], i) : i \in 1..NUMREF} \ {Nil} ELSE {})

\* rb_refresh of a file touches these.
LEMMA FileKeysMembers ==
    ASSUME Inv, phase # "down", NEW f \in Files
    PROVE  FileKeys(f) \in Seq(Refs \cup {Nil}) /\ ToSet(FileKeys(f)) = FileRefs(f)
<1>1. PICK X : X = Refs \cup {Nil}
    OBVIOUS
<1>2. <<f>> \in Paths /\ Indirect(f) \in Paths /\ NDIRECT + 1 \in Nat /\ NUMREF \in Nat
    BY PathForms, UTFileSystemAssumption
<1>3. PICK k : k = KidSeq(Here[<<f>>], NDIRECT + 1)
    OBVIOUS
<1>4. k \in Seq(X) /\ ToSet(k) = {KidRef(Here[<<f>>], i) : i \in 1..(NDIRECT + 1)} \ {Nil}
    BY <1>1, <1>2, <1>3, KidSeqMembers
<1>5. PICK u : u = UnderIndirect(f)
    OBVIOUS
<1>6. /\ u \in Seq(X)
      /\ ToSet(u) = IF Descends(f) THEN {KidRef(Here[Indirect(f)], i) : i \in 1..NUMREF} \ {Nil} ELSE {}
    <2>1. CASE Descends(f)
        BY <1>1, <1>2, <1>5, <2>1, KidSeqMembers DEF UnderIndirect
    <2>2. CASE ~Descends(f)
        BY <1>5, <2>2 DEF UnderIndirect, ToSet
    <2> QED BY <2>1, <2>2
<1>7. PICK r : r = Here[<<f>>].ref
    OBVIOUS
<1>8. r \in X
    <2>1. ObjectAt(<<f>>, Here[<<f>>])
        BY <1>2, HereObjects
    <2> QED BY <1>1, <1>2, <1>7, <2>1 DEF ObjectAt, Named, Refs
<1>9. <<r>> \in Seq(X) /\ ToSet(<<r>>) = {r}
    BY <1>8 DEF ToSet
<1>10. u \o <<r>> \in Seq(X) /\ ToSet(u \o <<r>>) = ToSet(u) \cup {r}
    <2>1. PICK t : t = <<r>>
        OBVIOUS
    <2>2. t \in Seq(X) /\ ToSet(t) = {r}
        BY ONLY <1>9, <2>1
    <2>3. u \o t \in Seq(X) /\ ToSet(u \o t) = ToSet(u) \cup ToSet(t)
        BY ONLY <1>6, <2>2, ConcatMembers
    <2> QED BY ONLY <2>1, <2>2, <2>3
<1>11. (u \o <<r>>) \o k \in Seq(X) /\ ToSet((u \o <<r>>) \o k) = ToSet(u) \cup {r} \cup ToSet(k)
    <2>1. PICK t : t = u \o <<r>>
        OBVIOUS
    <2>2. t \in Seq(X) /\ ToSet(t) = ToSet(u) \cup {r}
        BY ONLY <1>10, <2>1
    <2>3. t \o k \in Seq(X) /\ ToSet(t \o k) = ToSet(t) \cup ToSet(k)
        BY ONLY <1>4, <2>2, ConcatMembers
    <2> QED BY ONLY <2>1, <2>2, <2>3
<1>12. FileKeys(f) = (u \o <<r>>) \o k
    BY <1>3, <1>5, <1>7 DEF FileKeys
<1>13. FileRefs(f) = {r} \cup ToSet(k) \cup ToSet(u)
    BY <1>4, <1>6, <1>7 DEF FileRefs
<1> QED BY <1>1, <1>11, <1>12, <1>13

\* The blocks of the files before f that exist.
LEMMA KeysBeforeMembers ==
    ASSUME Inv, phase # "down", NEW f \in 1..(NFiles + 1)
    PROVE  /\ KeysBefore(f) \in Seq(Refs \cup {Nil})
           /\ \A r : r \in ToSet(KeysBefore(f)) <=>
                        \E g \in Files : g < f /\ Exists(g) /\ r \in FileRefs(g)
<1>1. PICK X : X = Refs \cup {Nil}
    OBVIOUS
<1>2. NFiles \in Nat /\ f \in Nat /\ f - 1 \in Nat /\ \A g \in 1..(f - 1) : g \in Files
    BY UTFileSystemAssumption DEF Files
<1>3. PICK ss : ss = [g \in 1..(f - 1) |-> IF Exists(g) THEN FileKeys(g) ELSE <<>>]
    OBVIOUS
<1>4. \A g \in 1..(f - 1) : ss[g] \in Seq(X)
    BY <1>1, <1>2, <1>3, FileKeysMembers
<1>5. ss \in Seq(Seq(X)) /\ Len(ss) = f - 1
    BY <1>2, <1>3, <1>4
<1>6. \A g \in 1..(f - 1) : ToSet(ss[g]) = IF Exists(g) THEN FileRefs(g) ELSE {}
    <2> SUFFICES ASSUME NEW g \in 1..(f - 1) PROVE ToSet(ss[g]) = IF Exists(g) THEN FileRefs(g) ELSE {}
        OBVIOUS
    <2>1. CASE Exists(g)
        BY <1>2, <1>3, <2>1, FileKeysMembers
    <2>2. CASE ~Exists(g)
        BY <1>3, <2>2 DEF ToSet
    <2> QED BY <2>1, <2>2
<1>7. KeysBefore(f) = FlattenSeq(ss)
    BY <1>3 DEF KeysBefore
<1>8. /\ FlattenSeq(ss) \in Seq(X)
      /\ ToSet(FlattenSeq(ss)) = UNION {ToSet(ss[i]) : i \in 1..Len(ss)}
    BY <1>5, FlattenMembers
<1>9. \A r : r \in ToSet(FlattenSeq(ss)) <=> \E g \in 1..(f - 1) : r \in ToSet(ss[g])
    BY <1>5, <1>8
<1>10. \A g : g \in 1..(f - 1) <=> g \in Files /\ g < f
    BY <1>2 DEF Files
<1> QED BY <1>1, <1>6, <1>7, <1>8, <1>9, <1>10

\* The blocks a whole cycle is about.
LEMMA RefreshKeysMembers ==
    ASSUME Inv, phase # "down"
    PROVE  /\ RefreshKeys \in Seq(Refs \cup {Nil})
           /\ \A r : r \in ToSet(RefreshKeys) <=>
                        \/ r = Here[<<>>].ref
                        \/ \E g \in Files : Exists(g) /\ r \in FileRefs(g)
<1>1. PICK X : X = Refs \cup {Nil}
    OBVIOUS
<1>2. NFiles + 1 \in 1..(NFiles + 1) /\ \A g \in Files : g < NFiles + 1
    BY UTFileSystemAssumption DEF Files
<1>3. PICK k : k = KeysBefore(NFiles + 1)
    OBVIOUS
<1>4. /\ k \in Seq(X)
      /\ \A r : r \in ToSet(k) <=> \E g \in Files : Exists(g) /\ r \in FileRefs(g)
    BY <1>1, <1>2, <1>3, KeysBeforeMembers
<1>5. PICK h : h = Here[<<>>].ref
    OBVIOUS
<1>6. mem[<<>>].ref = h /\ h \in X
    <2>1. ObjectAt(<<>>, Here[<<>>]) /\ Here[<<>>] = mem[<<>>] /\ <<>> \in Paths
        BY HereObjects, PathForms
    <2> QED BY <1>1, <1>5, <2>1 DEF ObjectAt, Named, Refs
<1>7. <<h>> \in Seq(X) /\ ToSet(<<h>>) = {h}
    BY <1>6 DEF ToSet
<1>8. k \o <<h>> \in Seq(X) /\ ToSet(k \o <<h>>) = ToSet(k) \cup {h}
    <2>1. PICK t : t = <<h>>
        OBVIOUS
    <2>2. t \in Seq(X) /\ ToSet(t) = {h}
        BY ONLY <1>7, <2>1
    <2>3. k \o t \in Seq(X) /\ ToSet(k \o t) = ToSet(k) \cup ToSet(t)
        BY ONLY <1>4, <2>2, ConcatMembers
    <2> QED BY ONLY <2>1, <2>2, <2>3
<1>9. RefreshKeys = k \o <<h>>
    BY <1>3, <1>6 DEF RefreshKeys
<1> QED BY <1>1, <1>4, <1>5, <1>8, <1>9

\* A cycle that passes over nothing touches every reference that is followed.
LEMMA KeysReach ==
    ASSUME Inv, phase # "down", ~Stranded, NEW q \in Paths \ {<<>>},
           q \notin DOMAIN mem \/ Front(q) # <<>>, KidRef(Here[Front(q)], Last(q)) # Nil
    PROVE  KidRef(Here[Front(q)], Last(q)) \in ToSet(RefreshKeys)
<1>1. PICK r : r = KidRef(Here[Front(q)], Last(q))
    OBVIOUS
<1>2. ASSUME NEW f \in Files, q \in FilePlaces(f), Front(q) \in FilePlaces(f) PROVE Exists(f)
    <2>1. ASSUME ~Exists(f) PROVE FALSE
        <3>1. Here[Front(q)] = New
            BY <1>2, <2>1, NoFile
        <3> QED BY <3>1, NewObject
    <2> QED BY <2>1
<1>3. ASSUME NEW f \in Files, Front(q) = <<>>, q = <<f>> PROVE Exists(f) /\ r \in FileRefs(f)
    <2>1. q \notin DOMAIN mem
        BY <1>3
    <2>2. Here = Tree(RootOf(mem), mem, body) /\ BodyOK(body) /\ TreeOK(RootOf(mem), mem, body)
        BY DEF Here, InMemory, Inv, InOrder
    <2>3. Here[q].ref = r
        BY <1>1, <2>1, <2>2, TreeObjects
    <2>4. ASSUME ~Exists(f) PROVE FALSE
        <3>1. <<f>> \in FilePlaces(f)
            BY <1>3 DEF FilePlaces
        <3>2. Here[<<f>>] = New
            BY <2>4, <3>1, NoFile
        <3> QED BY <1>1, <1>3, <2>3, <3>2 DEF New
    <2> QED BY <1>3, <2>3, <2>4 DEF FileRefs
<1>4. ASSUME NEW f \in Files, Front(q) = <<f>> PROVE Exists(f) /\ r \in FileRefs(f)
    <2>1. <<f>> \in FilePlaces(f) /\ q \in FilePlaces(f)
        <3>1. <<f>> \in FilePlaces(f)
            BY InodeForm DEF FilePlaces
        <3> QED BY <1>4, <3>1, BelowInode
    <2>2. Last(q) \in 1..(NDIRECT + 1)
        BY <1>4, PlacesBelow
    <2>3. r \in {KidRef(Here[<<f>>], i) : i \in 1..(NDIRECT + 1)} \ {Nil}
        BY <1>1, <1>4, <2>2
    <2> QED BY <1>2, <1>4, <2>1, <2>3 DEF FileRefs
<1>5. ASSUME NEW f \in Files, Front(q) = Indirect(f) PROVE Exists(f) /\ r \in FileRefs(f)
    <2>1. Indirect(f) \in FilePlaces(f) /\ q \in FilePlaces(f)
        <3>1. Indirect(f) \in FilePlaces(f)
            BY IndirectForm DEF FilePlaces
        <3> QED BY <1>5, <3>1, BelowInode
    <2>2. Last(q) \in 1..NUMREF
        BY <1>5, PlacesBelow
    <2>3. ASSUME ~Descends(f) PROVE FALSE
        <3>1. KidRef(Here[Front(Indirect(f))], Last(Indirect(f))) = Nil
            BY <2>3, IndirectForm DEF Descends, KidRef
        <3>2. CASE Indirect(f) \in DOMAIN mem
            <4>1. Here[Indirect(f)].kids = <<>>
                BY <2>3, <3>2, HereObjects DEF Stranded
            <4> QED BY <1>5, <4>1 DEF KidRef
        <3>3. CASE Indirect(f) \notin DOMAIN mem
            <4>1. Here[Indirect(f)] = New
                BY <3>1, <3>3, NothingBelow, IndirectForm
            <4> QED BY <1>5, <4>1, NewObject
        <3> QED BY <3>2, <3>3
    <2>4. r \in {KidRef(Here[Indirect(f)], i) : i \in 1..NUMREF} \ {Nil}
        BY <1>1, <1>5, <2>2
    <2> QED BY <1>2, <1>5, <2>1, <2>3, <2>4 DEF FileRefs
<1>6. \E f \in Files : Exists(f) /\ r \in FileRefs(f)
    <2>1. CASE Front(q) = <<>>
        BY <1>3, <2>1, TopPlaces
    <2>2. CASE \E f \in Files : Front(q) = <<f>>
        BY <1>4, <2>2
    <2>3. CASE \E f \in Files : Front(q) = Indirect(f)
        BY <1>5, <2>3
    <2>4. \/ Front(q) = <<>>
          \/ \E f \in Files : Front(q) = <<f>>
          \/ \E f \in Files : Front(q) = Indirect(f)
        BY FrontOf
    <2> QED BY <2>1, <2>2, <2>3, <2>4
<1> QED BY <1>1, <1>6, RefreshKeysMembers

\* What is committed is in the store.
LEMMA CommittedStored ==
    ASSUME Store PROVE Committed \subseteq ToSet(lru)
<1>1. Len(lru) \in Nat /\ DOMAIN lru = 1..Len(lru) /\ marked \in Nat
    BY DEF Store
<1>2. \A i \in (marked + 1)..Len(lru) : i \in DOMAIN lru
    BY <1>1
<1> QED BY <1>2 DEF Committed, ToSet

\* A whole cycle: the published tree is among what is touched if nothing was dropped.
LEMMA CycleKept ==
    ASSUME Inv, Kept, refresh_cycle
    PROVE  Kept' /\ Committed' = Touched(RefreshKeys)
<1>1. /\ phase = "idle" /\ harm # "stranded" /\ Cycle(RefreshKeys)
      /\ harm' = IF Stranded THEN "stranded"
                 ELSE IF shrunk /\ harm = "none" THEN "exposed" ELSE harm
      /\ phase' \in {"idle", "flush"} /\ UNCHANGED <<body, head, mem, shrunk>>
    BY DEF refresh_cycle, Idle, StartFlush
<1>2. Here' = Here /\ Published' = Published
    BY <1>1 DEF Here, Published
<1>3. RefreshKeys \in Seq(Refs \cup {Nil})
    BY <1>1, RefreshKeysMembers
<1>4. Store' /\ Committed' = Touched(RefreshKeys)
    BY <1>1, <1>3, CycleStore DEF Kept
<1>5. ASSUME NEW r, r \in Committed, r # Nil, r \in ToSet(RefreshKeys) PROVE r \in Committed'
    <2>1. r \in ToSet(lru)
        BY <1>5, CommittedStored DEF Kept
    <2> QED BY <1>4, <1>5, <2>1 DEF Touched
<1>6. TreeKept'
    <2> SUFFICES ASSUME harm' # "stranded", NEW q \in Paths \ {<<>>},
                        q \notin DOMAIN mem \/ Front(q) # <<>>,
                        KidRef(Here[Front(q)], Last(q)) # Nil
                 PROVE  KidRef(Here[Front(q)], Last(q)) \in Committed'
        BY <1>1, <1>2 DEF TreeKept
    <2>1. ~Stranded
        BY <1>1
    <2>2. KidRef(Here[Front(q)], Last(q)) \in ToSet(RefreshKeys)
        BY <1>1, <2>1, KeysReach
    <2>3. KidRef(Here[Front(q)], Last(q)) \in Committed
        BY <1>1 DEF Kept, TreeKept
    <2> QED BY <1>5, <2>2, <2>3
<1>7. PublishedKept'
    <2> SUFFICES ASSUME harm' = "none", NEW q \in Paths, Published[q].ref # Nil
                 PROVE  Published[q].ref \in Committed'
        BY <1>2 DEF PublishedKept, RefsOf
    <2>1. ~Stranded /\ harm = "none" /\ ~shrunk
        BY <1>1
    <2>2. Within(Published, Here)
        BY <1>1, <2>1 DEF Kept, SoFar
    <2>3. Published[q].ref \in Committed
        BY <2>1 DEF Kept, PublishedKept, RefsOf
    <2>4. Published[q].ref \in ToSet(RefreshKeys)
        <3>1. CASE q = <<>>
            <4>1. Published[q].ref = Here[<<>>].ref
                BY <2>2, <3>1 DEF Within
            <4> QED BY <1>1, <4>1, RefreshKeysMembers
        <3>2. CASE q # <<>> /\ Front(q) = <<>>
            <4>1. Last(q) \in Files /\ q = <<Last(q)>>
                BY <3>2, TopPlaces
            <4>2. PICK f \in Files : f = Last(q) /\ q = <<f>>
                BY <4>1
            <4>3. Published[q].ref = KidRef(Published[<<>>], f)
                BY <3>2, <4>2, PublishedObjects
            <4>4. f \in DOMAIN Published[<<>>].kids
                BY <4>3 DEF KidRef
            <4>5. f \in DOMAIN Here[<<>>].kids /\ Here[<<f>>].ref = Published[<<f>>].ref
                BY <2>2, <4>4 DEF Within
            <4>6. Exists(f) /\ Published[q].ref \in FileRefs(f)
                BY <1>1, <4>2, <4>5, HereObjects DEF Exists, FileRefs
            <4> QED BY <1>1, <4>6, RefreshKeysMembers
        <3>3. CASE q # <<>> /\ Front(q) # <<>>
            <4>1. Published[q].ref = KidRef(Published[Front(q)], Last(q))
                BY <3>3, PublishedObjects
            <4>2. Published[q].ref = KidRef(Here[Front(q)], Last(q))
                BY <2>2, <3>3, <4>1 DEF Within
            <4> QED BY <1>1, <2>1, <3>3, <4>2, KeysReach
        <3> QED BY <3>1, <3>2, <3>3
    <2> QED BY <1>5, <2>3, <2>4
<1>8. RootKept'
    BY <1>1 DEF RootKept
<1>9. SoFar' /\ AllFilled'
    BY <1>1, <1>2 DEF Kept, SoFar, AllFilled
<1> QED BY <1>4, <1>6, <1>7, <1>8, <1>9 DEF Kept

\* A cycle that does not finish.
LEMMA WaitKept ==
    ASSUME Inv, Kept, refresh_waits PROVE Kept'
<1>1. /\ phase = "idle" /\ phase' = "waits" /\ Waits # {}
      /\ lru' = Touch(KeysBefore(Min(Waits))) /\ marked' = MarkedLeft(KeysBefore(Min(Waits)))
      /\ UNCHANGED <<body, head, mem, shrunk, harm>>
    BY DEF refresh_waits, Idle
<1>2. Here' = Here /\ Published' = Published
    BY <1>1 DEF Here, Published
<1>3. Min(Waits) \in Waits
    <2>1. Waits \in SUBSET Nat
        BY UTFileSystemAssumption DEF Waits, Files
    <2>2. \E n \in Waits : \A m \in Waits : n <= m
        BY <1>1, <2>1, LeastNat
    <2> QED BY <2>2 DEF Min
<1>4. Min(Waits) \in 1..(NFiles + 1)
    BY <1>3, UTFileSystemAssumption DEF Waits, Files
<1>5. KeysBefore(Min(Waits)) \in Seq(Refs \cup {Nil})
    BY <1>1, <1>4, KeysBeforeMembers
<1>6. Store' /\ Committed \ {Nil} \subseteq Committed'
    BY <1>1, <1>5, WaitStore DEF Kept
<1>7. PublishedKept'
    BY <1>1, <1>2, <1>6 DEF Kept, PublishedKept, RefsOf
<1>8. TreeKept'
    BY <1>1, <1>2, <1>6 DEF Kept, TreeKept
<1>9. RootKept' /\ SoFar' /\ AllFilled'
    BY <1>1, <1>2 DEF Kept, RootKept, SoFar, AllFilled
<1> QED BY <1>6, <1>7, <1>8, <1>9 DEF Kept

-----------------------------------------------------------------------------
(* The theorems *)

\* The block store is empty and no process runs.
LEMMA InitInv ==
    ASSUME Init
    PROVE Inv /\ Seen = Abstract!Empty /\ Contents(Published) = Abstract!Empty
<1>1. /\ body = [r \in {Nil} |-> New] /\ head = Nil /\ mem = NoTree
      /\ phase = "down" /\ dirty = FALSE
    BY DEF Init
<1>2. DOMAIN body = {Nil} /\ body[Nil] = New
    BY <1>1
<1>3. BodyOK(body)
    BY <1>2 DEF BodyOK
<1>4. TreeOK(New, NoTree, body) /\ \A p \in Paths : Tree(New, NoTree, body)[p] = New
    BY <1>3, EmptyTree
<1>5. RootOf(mem) = New /\ DOMAIN mem = {}
    BY <1>1 DEF RootOf, NoTree
<1>6. InOrder(mem, body, head)
    BY <1>1, <1>2, <1>3, <1>4, <1>5 DEF InOrder, Named
<1>7. DirtyAbove(mem)
    BY <1>5 DEF DirtyAbove
<1>8. Settled
    BY <1>1 DEF Settled
<1>9. Published[<<>>] = New
    BY <1>1, <1>2, <1>4, PathForms DEF Published, InStore
<1>10. DOMAIN Published[<<>>].kids = {}
    BY <1>9 DEF New
<1>11. Contents(Published) = [files |-> {}, data |-> {}]
    <2>1. \A d : ~Written(Published, d)
        BY <1>10 DEF Written
    <2>2. Contents(Published).files = {} /\ Contents(Published).data = {}
        BY <1>10, <2>1, ContentsOf
    <2> QED BY <2>2, ContentsOf
<1> QED BY <1>1, <1>6, <1>7, <1>8, <1>11 DEF Inv, Seen, Abstract!Empty

\* What a step may do to what the users see and to what is published.
Promised ==
    \/ Contents(Published)' = Contents(Published) /\ Seen' = Seen
    \/ Contents(Published)' = Contents(Published) /\ Seen' \in Abstract!Changes(Seen)
    \/ Contents(Published)' = Seen /\ Seen' = Seen
    \/ Contents(Published)' = Contents(Published) /\ Seen' = Contents(Published)

\* Every step keeps the invariant and the promise.
LEMMA StepInv ==
    ASSUME Inv, [Next]_vars
    PROVE Inv' /\ Promised
<1>1. CASE fs_mkfs
    <2>1. body[head] = New
        BY <1>1 DEF fs_mkfs, Inv, InOrder, BodyOK
    <2>2. /\ phase = "down" /\ mem' = [p \in {<<>>} |-> body[head]] /\ UNCHANGED <<body, head>>
          /\ phase' = "flush" /\ dirty'
        BY <1>1, <2>1 DEF fs_mkfs, StartFlush
    <2> QED BY <2>2, MountStep DEF Promised
<1>2. CASE fs_mount
    <2>1. /\ phase = "down" /\ mem' = [p \in {<<>>} |-> body[head]] /\ UNCHANGED <<body, head>>
          /\ phase' = "idle" /\ UNCHANGED dirty
        BY <1>2 DEF fs_mount
    <2> QED BY <2>1, MountStep DEF Promised
<1>3. CASE fs_umount
    <2>1. CASE dirty
        <3>1. phase = "idle" /\ phase' = "flush" /\ UNCHANGED <<mem, body, head, dirty>>
            BY <1>3, <2>1 DEF fs_umount, Idle, StartFlush
        <3> QED BY <2>1, <3>1, QuietStep DEF Promised
    <2>2. CASE ~dirty
        <3>1. Down /\ Sweep(lru, mem', body, head') /\ UNCHANGED head
            BY <1>3, <2>2 DEF fs_umount
        <3> QED BY <3>1, DownStep DEF Promised
    <2> QED BY <2>1, <2>2
<1>4. CASE Crash
    <2>1. Down /\ Sweep(lru, mem', body, head') /\ UNCHANGED head
        BY <1>4 DEF Crash
    <2> QED BY <2>1, DownStep DEF Promised
<1>5. ASSUME NEW f \in Files, fs_mknod(f) PROVE Inv' /\ Promised
    <2>1. /\ Inv' /\ Contents(Published)' = Contents(Published)
          /\ Seen' = [Seen EXCEPT !.files = @ \cup {f}] /\ f \notin Seen.files
        BY <1>5, MknodStep
    <2>2. Seen' \in Abstract!Creations(Seen)
        BY <2>1 DEF Abstract!Creations
    <2> QED BY <2>1, <2>2 DEF Promised, Abstract!Changes
<1>6. ASSUME NEW f \in Files, fs_unlink(f) PROVE Inv' /\ Promised
    <2>1. /\ Inv' /\ Contents(Published)' = Contents(Published) /\ f \in Seen.files
          /\ Seen' = [files |-> Seen.files \ {f}, data |-> {d \in Seen.data : d[1] # f}]
        BY <1>6, UnlinkStep
    <2>2. Seen' \in Abstract!Removals(Seen)
        BY <2>1 DEF Abstract!Removals
    <2> QED BY <2>1, <2>2 DEF Promised, Abstract!Changes
<1>7. ASSUME NEW f \in Files, NEW n \in 1..NBlocks, NEW v \in Values, fs_write(f, n, v)
      PROVE Inv' /\ Promised
    <2>1. /\ Inv' /\ Contents(Published)' = Contents(Published) /\ f \in Seen.files
          /\ Seen' = [Seen EXCEPT !.data =
                         {d \in @ : <<d[1], d[2]>> # <<f, n>>} \cup {<<f, n, v>>}]
        BY <1>7, WriteStep
    <2>2. Seen' \in Abstract!Writes(Seen)
        <3>1. Seen' = Abstract!Written(Seen, f, n, v)
            BY <2>1 DEF Abstract!Written
        <3> QED BY <2>1, <3>1 DEF Abstract!Writes
    <2> QED BY <2>1, <2>2 DEF Promised, Abstract!Changes
<1>8. ASSUME NEW f \in Files, NEW n \in 0..NBlocks, fs_truncate(f, n)
      PROVE Inv' /\ Promised
    <2>1. /\ Inv' /\ Contents(Published)' = Contents(Published) /\ f \in Seen.files
          /\ Seen' = [Seen EXCEPT !.data = {d \in @ : d[1] = f => d[2] <= n}]
        BY <1>8, TruncateStep
    <2>2. Seen' \in Abstract!Truncations(Seen)
        <3> DEFINE K(g, k) == [Seen EXCEPT !.data = {d \in @ : d[1] = g => d[2] <= k}]
        <3>1. Seen' = K(f, n)
            BY <2>1
        <3>2. K(f, n) \in {K(g, k) : g \in Seen.files, k \in 0..NBlocks}
            <4> HIDE DEF K
            <4> QED BY <2>1
        <3> QED BY <3>1, <3>2 DEF Abstract!Truncations
    <2> QED BY <2>1, <2>2 DEF Promised, Abstract!Changes
<1>9. CASE fs_sync
    <2>1. /\ phase = "idle" /\ phase' = "flush" /\ dirty
          /\ UNCHANGED <<mem, body, head, dirty>>
        BY <1>9 DEF fs_sync, Idle, StartFlush
    <2> QED BY <2>1, QuietStep DEF Promised
<1>10. CASE bn_persist
    BY <1>10, PersistStep DEF Promised
<1>11. CASE bn_persist_fails
    <2>1. CASE op \in {"postsync", "mkfs"}
        <3>1. Down /\ Sweep(lru, mem', body, head') /\ UNCHANGED head
            BY <1>11, <2>1 DEF bn_persist_fails
        <3> QED BY <3>1, DownStep DEF Promised
    <2>2. CASE op \notin {"postsync", "mkfs"}
        <3>1. /\ phase = "flush" /\ phase' = "idle" /\ UNCHANGED <<dirty, head>>
              /\ Sweep(lru, mem', body, head)
              /\ \E p \in DOMAIN mem : mem' = [mem EXCEPT ![p].ref = Nil]
            BY <1>11, <2>2 DEF bn_persist_fails
        <3>2. PICK p \in DOMAIN mem : mem' = [mem EXCEPT ![p].ref = Nil]
            BY <3>1
        <3> QED BY <3>1, <3>2, FailStep DEF Promised
    <2> QED BY <2>1, <2>2
<1>12. CASE rootref
    BY <1>12, PublishStep DEF Promised
<1>13. CASE fs_refresh
    <2>1. /\ phase = "idle" /\ UNCHANGED <<mem, body, head, dirty>>
          /\ (UNCHANGED phase \/ (phase' = "flush" /\ dirty))
        BY <1>13 DEF fs_refresh, Idle, StartFlush
    <2> QED BY <2>1, QuietStep DEF Promised
<1>14. CASE refresh_cycle
    <2>1. /\ phase = "idle" /\ UNCHANGED <<mem, body, head, dirty>>
          /\ (UNCHANGED phase \/ (phase' = "flush" /\ dirty))
        BY <1>14 DEF refresh_cycle, Idle, StartFlush
    <2> QED BY <2>1, QuietStep DEF Promised
<1>15. CASE refresh_waits
    <2>1. phase = "idle" /\ phase' = "waits" /\ UNCHANGED <<mem, body, head, dirty>>
        BY <1>15 DEF refresh_waits, Idle
    <2> QED BY <2>1, QuietStep DEF Promised
<1>16. CASE UNCHANGED vars
    <2>1. UNCHANGED <<mem, body, head, dirty, phase>>
        BY <1>16 DEF vars
    <2>2. Here' = Here /\ Published' = Published
        BY <2>1 DEF Here, Published
    <2>3. Settled'
        BY <2>1 DEF Inv, Settled
    <2> QED BY <2>1, <2>2, <2>3 DEF Inv, Seen, Promised
<1> QED BY <1>1, <1>2, <1>3, <1>4, <1>5, <1>6, <1>7, <1>8, <1>9, <1>10, <1>11, <1>12,
           <1>13, <1>14, <1>15, <1>16 DEF Next

\* While the file system is idle and its root is not marked dirty, the users see exactly
\* what is published (CleanIsPublished), for any number of files, blocks and references.
THEOREM CleanIsPublishedHolds == Spec => []CleanIsPublished
<1>1. Init => Inv
    BY InitInv
<1>2. Inv /\ [Next]_vars => Inv'
    BY StepInv
<1>3. Inv => CleanIsPublished
    <2> SUFFICES ASSUME Inv, Idle, ~dirty PROVE Contents(Here) = Contents(Published)
        BY DEF CleanIsPublished
    <2>1. DOMAIN mem = {<<>>} /\ mem[<<>>] = body[head] /\ InOrder(mem, body, head)
        BY DEF Inv, Settled, Idle
    <2>2. InMemory(mem, body) = InStore(head, body)
        BY <2>1, MountedTree
    <2> QED BY <2>2 DEF Here, Published
<1> QED BY <1>1, <1>2, <1>3, PTL DEF Spec

\* The file system implements DurableFS: the users see their own changes and nothing
\* else, a sync publishes all of them at once, and a crash, or a put without space at
\* the wrong moment, takes them back to the last sync.
THEOREM ImplementsHolds == Spec => Implements
<1> DEFINE C == IF phase = "down" THEN Contents(Published) ELSE Contents(Here)
           D == Contents(Published)
<1>1. Init => Inv /\ Abstract!Init
    BY InitInv DEF Seen, Abstract!Init
<1>2. Inv /\ [Next]_vars => Inv' /\ [Abstract!Next]_<<C, D>>
    <2> SUFFICES ASSUME Inv, [Next]_vars PROVE Inv' /\ [Abstract!Next]_<<C, D>>
        OBVIOUS
    <2>1. Inv' /\ Promised
        BY StepInv
    <2>2. Promised => [Abstract!Next]_<<C, D>>
        BY DEF Promised, Seen, Abstract!Next, Abstract!Change, Abstract!Sync, Abstract!Crash
    <2> QED BY <2>1, <2>2
<1> QED BY <1>1, <1>2, PTL DEF Spec, Implements, Abstract!Spec, Abstract!vars

\* The empty store has lost nothing.
LEMMA InitKept ==
    ASSUME Init, Inv PROVE Kept
<1>1. /\ lru = <<>> /\ marked = 0 /\ body = [r \in {Nil} |-> New] /\ head = Nil /\ mem = NoTree
      /\ phase = "down" /\ harm = "none"
    BY DEF Init
<1>2. Store
    BY <1>1 DEF Store
<1>3. body[head] = New /\ BodyOK(body) /\ RootOf(mem) = New
    BY <1>1 DEF Inv, InOrder, RootOf, NoTree
<1>4. \A p \in Paths : Published[p] = New /\ Here[p] = New
    BY <1>1, <1>3, EmptyTree DEF Published, InStore, Here, InMemory
<1>5. PublishedKept
    BY <1>4 DEF PublishedKept, RefsOf, New
<1>6. TreeKept /\ RootKept /\ SoFar
    BY <1>1 DEF TreeKept, RootKept, SoFar
<1>7. AllFilled
    <2>1. DOMAIN NoTree = {}
        BY DEF NoTree
    <2>2. \A f \in Files : Published[Indirect(f)].ref = Nil /\ Here[Indirect(f)].ref = Nil
        <3> SUFFICES ASSUME NEW f \in Files
                     PROVE  Published[Indirect(f)].ref = Nil /\ Here[Indirect(f)].ref = Nil
            OBVIOUS
        <3>1. Indirect(f) \in Paths
            BY PathForms
        <3>2. Published[Indirect(f)] = New /\ Here[Indirect(f)] = New
            BY <1>4, <3>1
        <3> QED BY <3>2 DEF New
    <2> QED BY <1>1, <2>1, <2>2 DEF AllFilled, Filled
<1> QED BY <1>2, <1>5, <1>6, <1>7 DEF Kept

\* No step makes a put purge what the trees need.
LEMMA StepKept ==
    ASSUME Inv, Kept, [Next]_vars
    PROVE  Kept'
<1>0. Inv'
    BY StepInv
<1>1. CASE fs_mkfs \/ fs_mount
    BY <1>1, MountKept
<1>2. CASE fs_umount
    <2>1. CASE dirty
        <3>1. phase = "idle" /\ phase' = "flush" /\ UNCHANGED <<lru, marked, body, head, mem, shrunk, harm>>
            BY <1>2, <2>1 DEF fs_umount, Idle, StartFlush
        <3> QED BY <3>1, QuietKept
    <2>2. CASE ~dirty
        <3>1. Down /\ Sweep(lru, mem', body, head') /\ UNCHANGED <<head, marked, harm>>
            BY <1>2, <2>2 DEF fs_umount
        <3> QED BY <3>1, DownKept
    <2> QED BY <2>1, <2>2
<1>3. CASE Crash
    <2>1. Down /\ Sweep(lru, mem', body, head') /\ UNCHANGED <<head, marked, harm>>
        BY <1>3 DEF Crash
    <2> QED BY <2>1, DownKept
<1>4. ASSUME NEW f \in Files, fs_mknod(f) PROVE Kept'
    <2>1. /\ Trimmed({}) /\ (Filled(mem, Here) => Filled(mem', Here'))
          /\ Within(Published, Here) => Within(Published, Here')
        BY <1>4, MknodStep
    <2>2. phase = "idle" /\ phase' = "idle" /\ UNCHANGED <<marked, harm, shrunk>>
        BY <1>4 DEF fs_mknod, Idle, Changed
    <2>3. shrunk' \/ ~shrunk
        BY <2>2
    <2> QED BY <1>0, <2>1, <2>2, <2>3, EditKept
<1>5. ASSUME NEW f \in Files, fs_unlink(f) PROVE Kept'
    <2>1. Trimmed(FilePlaces(f)) /\ (Filled(mem, Here) => Filled(mem', Here'))
        BY <1>5, UnlinkStep
    <2>2. phase = "idle" /\ phase' = "idle" /\ UNCHANGED <<marked, harm>> /\ shrunk'
        BY <1>5 DEF fs_unlink, Idle, Changed
    <2> QED BY <1>0, <2>1, <2>2, EditKept
<1>6. ASSUME NEW f \in Files, NEW n \in 1..NBlocks, NEW v \in Values, fs_write(f, n, v)
      PROVE Kept'
    <2>1. /\ Trimmed({}) /\ (Filled(mem, Here) => Filled(mem', Here'))
          /\ Within(Published, Here) => Within(Published, Here')
        BY <1>6, WriteStep
    <2>2. phase = "idle" /\ phase' = "idle" /\ UNCHANGED <<marked, harm, shrunk>>
        BY <1>6 DEF fs_write, Idle, Changed
    <2>3. shrunk' \/ ~shrunk
        BY <2>2
    <2> QED BY <1>0, <2>1, <2>2, <2>3, EditKept
<1>7. ASSUME NEW f \in Files, NEW n \in 0..NBlocks, fs_truncate(f, n)
      PROVE Kept'
    <2>1. /\ \E X : Trimmed(X)
          /\ Filled(mem, Here) => Filled(mem', Here')
          /\ n = NBlocks /\ Filled(mem, Here) /\ Within(Published, Here) => Within(Published, Here')
        BY <1>7, TruncateStep
    <2>2. PICK X : Trimmed(X)
        BY <2>1
    <2>3. /\ phase = "idle" /\ phase' = "idle" /\ UNCHANGED <<marked, harm>>
          /\ shrunk' = (shrunk \/ n < NBlocks)
        BY <1>7 DEF fs_truncate, Idle, Changed
    <2>4. n < NBlocks \/ n = NBlocks
        BY UTFileSystemAssumption DEF NBlocks
    <2>5. Filled(mem, Here)
        BY DEF Kept, AllFilled
    <2>6. shrunk' \/ (~shrunk /\ (Within(Published, Here) => Within(Published, Here')))
        BY <2>1, <2>3, <2>4, <2>5
    <2> QED BY <1>0, <2>1, <2>2, <2>3, <2>6, EditKept
<1>8. CASE fs_sync
    <2>1. phase = "idle" /\ phase' = "flush" /\ UNCHANGED <<lru, marked, body, head, mem, shrunk, harm>>
        BY <1>8 DEF fs_sync, Idle, StartFlush
    <2> QED BY <2>1, QuietKept
<1>9. CASE bn_persist
    BY <1>9, PersistKept
<1>10. CASE bn_persist_fails
    <2>1. CASE op \in {"postsync", "mkfs"}
        <3>1. Down /\ Sweep(lru, mem', body, head') /\ UNCHANGED <<head, marked, harm>>
            BY <1>10, <2>1 DEF bn_persist_fails
        <3> QED BY <3>1, DownKept
    <2>2. CASE op \notin {"postsync", "mkfs"}
        <3>1. /\ phase = "flush" /\ phase' = "idle" /\ UNCHANGED <<dirty, head>>
              /\ Sweep(lru, mem', body, head) /\ UNCHANGED <<marked, harm>> /\ shrunk'
              /\ \E p \in DOMAIN mem : mem' = [mem EXCEPT ![p].ref = Nil]
            BY <1>10, <2>2 DEF bn_persist_fails
        <3>2. PICK p \in DOMAIN mem : mem' = [mem EXCEPT ![p].ref = Nil]
            BY <3>1
        <3>3. Trimmed({}) /\ (Filled(mem, Here) => Filled(mem', Here'))
            BY <3>1, <3>2, FailStep
        <3> QED BY <1>0, <3>1, <3>3, EditKept
    <2> QED BY <2>1, <2>2
<1>11. CASE rootref
    BY <1>11, PublishKept
<1>12. CASE fs_refresh
    <2>1. /\ UNCHANGED <<lru, marked, body, head, mem, shrunk, harm>>
          /\ UNCHANGED phase \/ (phase = "idle" /\ phase' = "flush")
        BY <1>12 DEF fs_refresh, Idle, StartFlush
    <2> QED BY <2>1, QuietKept
<1>13. CASE refresh_cycle
    BY <1>13, CycleKept
<1>14. CASE refresh_waits
    BY <1>14, WaitKept
<1>15. CASE UNCHANGED vars
    <2>1. UNCHANGED <<lru, marked, body, head, mem, shrunk, harm>> /\ UNCHANGED phase
        BY <1>15 DEF vars
    <2> QED BY <2>1, QuietKept
<1> QED BY <1>1, <1>2, <1>3, <1>4, <1>5, <1>6, <1>7, <1>8, <1>9, <1>10, <1>11, <1>12,
           <1>13, <1>14, <1>15 DEF Next

\* A file system that was synced can be read back after a crash at any moment, unless
\* a refresh cycle ended after the tree shrunk with no sync in between
\* (PublishedReadable): no put, of a flush or after a refresh, purges a block of the
\* published tree.
THEOREM PublishedReadableHolds == Spec => []PublishedReadable
<1>1. Init => Inv /\ Kept
    BY InitInv, InitKept
<1>2. Inv /\ Kept /\ [Next]_vars => Inv' /\ Kept'
    BY StepInv, StepKept
<1>3. Kept => PublishedReadable
    BY CommittedStored DEF Kept, PublishedKept, PublishedReadable
<1> QED BY <1>1, <1>2, <1>3, PTL DEF Spec

\* No put purges a block that the users still need (TreeReadable): the clean blocks of
\* the mounted tree, and what a refresh cycle looks up under an indirect block.
THEOREM TreeReadableHolds == Spec => []TreeReadable
<1>1. Init => Inv /\ Kept
    BY InitInv, InitKept
<1>2. Inv /\ Kept /\ [Next]_vars => Inv' /\ Kept'
    BY StepInv, StepKept
<1>3. Inv /\ Kept => TreeReadable
    <2> SUFFICES ASSUME Inv, Kept, phase # "down", harm # "stranded"
                 PROVE  /\ {Here[p].ref : p \in Paths \ DOMAIN mem} \ {Nil} \subseteq ToSet(lru)
                        /\ \A f \in Files : Exists(f) => ToSet(UnderIndirect(f)) \subseteq ToSet(lru)
        BY DEF TreeReadable
    <2>1. Committed \subseteq ToSet(lru)
        BY CommittedStored DEF Kept
    <2>2. \A q \in Paths \ {<<>>} : q \notin DOMAIN mem \/ Front(q) # <<>> =>
              KidRef(Here[Front(q)], Last(q)) \in Committed \cup {Nil}
        BY DEF Kept, TreeKept
    <2>3. ASSUME NEW p \in Paths \ DOMAIN mem PROVE Here[p].ref \in Committed \cup {Nil}
        <3>1. p # <<>>
            BY HereObjects
        <3>2. Here = Tree(RootOf(mem), mem, body) /\ BodyOK(body) /\ TreeOK(RootOf(mem), mem, body)
            BY DEF Here, InMemory, Inv, InOrder
        <3>3. Here[p].ref = KidRef(Here[Front(p)], Last(p))
            BY <3>1, <3>2, TreeObjects
        <3> QED BY <2>2, <3>1, <3>3
    <2>4. ASSUME NEW f \in Files PROVE ToSet(UnderIndirect(f)) \subseteq Committed
        <3>1. CASE Descends(f)
            <4>1. Indirect(f) \in Paths /\ NUMREF \in Nat
                BY PathForms, UTFileSystemAssumption
            <4>2. ToSet(UnderIndirect(f)) = {KidRef(Here[Indirect(f)], i) : i \in 1..NUMREF} \ {Nil}
                BY <3>1, <4>1, KidSeqMembers DEF UnderIndirect
            <4>3. ASSUME NEW i \in 1..NUMREF PROVE KidRef(Here[Indirect(f)], i) \in Committed \cup {Nil}
                <5>1. NDIRECT + i \in 1..NBlocks /\ NDIRECT + i > NDIRECT /\ (NDIRECT + i) - NDIRECT = i
                    BY UTFileSystemAssumption DEF NBlocks
                <5>2. PICK q \in Paths \ {<<>>} : Front(q) = Indirect(f) /\ Last(q) = i
                    BY <5>1, BlockForm
                <5>3. Indirect(f) # <<>>
                    BY IndirectForm
                <5> QED BY <2>2, <5>2, <5>3
            <4> QED BY <4>2, <4>3
        <3>2. CASE ~Descends(f)
            BY <3>2 DEF UnderIndirect, ToSet
        <3> QED BY <3>1, <3>2
    <2> QED BY <2>1, <2>3, <2>4
<1> QED BY <1>1, <1>2, <1>3, PTL DEF Spec

\* A refresh cycle over a clean tree leaves nothing committed but the published tree
\* (CompactionExact): the rest of the store's space can be used again.
THEOREM CompactionExactHolds == Spec => CompactionExact
<1> DEFINE Exact == refresh_cycle /\ ~dirty /\ harm' = "none" =>
                        {lru'[i] : i \in (marked' + 1)..Len(lru')} = RefsOf(Published)
<1>1. Init => Inv /\ Kept
    BY InitInv, InitKept
<1>2. Inv /\ Kept /\ [Next]_vars => Inv' /\ Kept'
    BY StepInv, StepKept
<1>3. Inv /\ Kept => Exact
    <2> SUFFICES ASSUME Inv, Kept, refresh_cycle, ~dirty, harm' = "none"
                 PROVE  Committed' = RefsOf(Published)
        BY DEF Committed
    <2>1. Kept' /\ Committed' = Touched(RefreshKeys)
        BY CycleKept
    <2>2. phase = "idle" /\ UNCHANGED <<body, head>>
        BY DEF refresh_cycle, Idle
    <2>3. Published' = Published
        BY <2>2 DEF Published
    <2>4. RefsOf(Published) \subseteq Committed'
        BY <2>1, <2>3 DEF Kept, PublishedKept
    <2>5. DOMAIN mem = {<<>>} /\ mem[<<>>] = body[head] /\ InOrder(mem, body, head)
        BY <2>2 DEF Inv, Settled
    <2>6. Here = Published
        BY <2>5, MountedTree DEF Here, Published
    <2>7. ASSUME NEW q \in Paths \ {<<>>}
          PROVE  KidRef(Here[Front(q)], Last(q)) \in RefsOf(Published) \cup {Nil}
        BY <2>6, PublishedObjects DEF RefsOf
    <2>8. ASSUME NEW f \in Files PROVE FileRefs(f) \subseteq RefsOf(Published) \cup {Nil}
        <3>1. Here[<<f>>].ref \in RefsOf(Published) \cup {Nil}
            BY <2>6, PathForms DEF RefsOf
        <3>2. ASSUME NEW i \in 1..(NDIRECT + 1)
              PROVE  KidRef(Here[<<f>>], i) \in RefsOf(Published) \cup {Nil}
            <4>1. CASE i = NDIRECT + 1
                BY <2>7, <4>1, IndirectForm
            <4>2. CASE i # NDIRECT + 1
                <5>1. i \in 1..NBlocks /\ i <= NDIRECT
                    BY <4>2, UTFileSystemAssumption DEF NBlocks
                <5> QED BY <2>7, <5>1, BlockForm
            <4> QED BY <4>1, <4>2
        <3>3. ASSUME NEW i \in 1..NUMREF
              PROVE  KidRef(Here[Indirect(f)], i) \in RefsOf(Published) \cup {Nil}
            <4>1. NDIRECT + i \in 1..NBlocks /\ NDIRECT + i > NDIRECT /\ (NDIRECT + i) - NDIRECT = i
                BY UTFileSystemAssumption DEF NBlocks
            <4> QED BY <2>7, <4>1, BlockForm
        <3> QED BY <3>1, <3>2, <3>3 DEF FileRefs
    <2>9. Here[<<>>].ref \in RefsOf(Published) \cup {Nil}
        BY <2>6, PathForms DEF RefsOf
    <2>10. ToSet(RefreshKeys) \subseteq RefsOf(Published) \cup {Nil}
        BY <2>2, <2>8, <2>9, RefreshKeysMembers
    <2>11. Committed' \subseteq RefsOf(Published)
        BY <2>1, <2>10 DEF Touched
    <2> QED BY <2>4, <2>11
<1> QED BY <1>1, <1>2, <1>3, PTL DEF Spec, CompactionExact

\* What a flush publishes is in the block store (SyncedReadable) unless a refresh cycle
\* passed over blocks under an indirect block the inode did not refer to yet: stranding
\* is the only way in which a sync can publish a tree that cannot be read.
THEOREM SyncedUnlessStranded == Spec => [](harm # "stranded" => SyncedReadable)
<1>1. Init => Inv /\ Kept
    BY InitInv, InitKept
<1>2. Inv /\ Kept /\ [Next]_vars => Inv' /\ Kept'
    BY StepInv, StepKept
<1>3. Inv /\ Kept => (harm # "stranded" => SyncedReadable)
    <2> SUFFICES ASSUME Inv, Kept, harm # "stranded", phase = "publish"
                 PROVE  RefsOf(Here) \subseteq ToSet(lru)
        BY DEF SyncedReadable
    <2>1. RefsOf(Here) \subseteq Committed
        BY FlushedKept
    <2>2. Committed \subseteq ToSet(lru)
        BY CommittedStored DEF Kept
    <2> QED BY <2>1, <2>2
<1> QED BY <1>1, <1>2, <1>3, PTL DEF Spec
=============================================================================
