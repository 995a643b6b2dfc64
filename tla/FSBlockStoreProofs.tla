------------------------- MODULE FSBlockStoreProofs -------------------------
(***************************************************************************)
(* Theorems about FSBlockStore, for any keys, refresh ids, block sizes and *)
(* capacity.                                                               *)
(*                                                                         *)
(* The properties need each other.  The counts balance because the list    *)
(* holds the files of the directory, each once, with their sizes; the      *)
(* store stays within its capacity because the counts balance and because  *)
(* a put whose own old block was purged to make room did not count that    *)
(* block as room; and the list is in order because an entry has the time   *)
(* of its file and no file is newer than the clock.                        *)
(***************************************************************************)
EXTENDS FSBlockStore, FiniteSetTheorems, SequenceTheorems, TLAPS

Running == phase \in {"opening", "idle", "purging"}

\* A list that holds no entry twice.
Once(s) == \A i, j \in 1..Len(s) : s[i] = s[j] => i = j

Sorted(s, time) == \A i, j \in 1..Len(s) : i < j => time[s[i]] >= time[s[j]]

\* Only blocks have bytes, and no file is from the future.
FilesInv ==
    /\ \A n \in Names : mtime[n] <= now
    /\ \A n \in Names \ Keys : fsize[n] = 0 /\ esize[n] = 0

\* A process that does not run has nothing in memory.
DownInv ==
    /\ phase \in {"gone", "down"} =>
         m_entries = {} /\ m_lru = <<>> /\ m_committed = 0 /\ m_uncommitted = 0
    /\ phase = "gone" => disk = {}

\* While bs_open reads, the files it has not read are the older ones.
Reading ==
    phase = "opening" =>
        /\ Listed(m_lru) = m_entries /\ m_entries \subseteq disk
        /\ \A n \in m_entries, o \in disk \ m_entries : mtime[n] >= mtime[o]

\* The list and what the entries say of the files.
ListInv ==
    Running =>
        /\ Once(m_lru) /\ Sorted(m_lru, mtime)
        /\ Listed(m_lru) \subseteq m_entries
        /\ Up => Listed(m_lru) = disk
        /\ \A n \in Listed(m_lru) : tstamp[n] = mtime[n]
        /\ ~resized => /\ \A n \in Listed(m_lru) : esize[n] = fsize[n]
                       /\ m_committed + m_uncommitted = Bytes(fsize, Listed(m_lru))

\* What a put knows of the block it replaces.  If that block was purged meanwhile, its
\* entry is still there, and the put did not count on its room or changes its size.
PutInv ==
    phase = "purging" =>
        /\ put.key \in disk => put.prevsize = fsize[put.key]
        /\ put.key \notin disk /\ put.prevsize # 0 =>
             /\ put.key \in m_entries
             /\ put.wascommitted /\ ~resized => esize[put.key] # put.size

Inv == TypeOK /\ FilesInv /\ DownInv /\ Reading /\ ListInv /\ PutInv /\ WithinCapacity

-----------------------------------------------------------------------------
(* Lists *)

\* The entries of t come in the order they have in s.
InOrderOf(t, s) ==
    \A i, j \in 1..Len(t) : i < j =>
        \E a, b \in 1..Len(s) : a < b /\ t[i] = s[a] /\ t[j] = s[b]

\* A list of names lists names.
LEMMA ListedNames ==
    ASSUME NEW T, NEW s \in Seq(T)
    PROVE  Listed(s) \subseteq T
BY DEF Listed

\* What is left of a list when one of its entries is erased.
LEMMA EraseList ==
    ASSUME NEW T, NEW s \in Seq(T), Once(s), NEW n \in Listed(s)
    PROVE  /\ Erase(s, n) \in Seq(T) /\ Once(Erase(s, n))
           /\ Listed(Erase(s, n)) = Listed(s) \ {n}
           /\ InOrderOf(Erase(s, n), s)
<1> DEFINE p == CHOOSE i \in 1..Len(s) : s[i] = n
           e == Erase(s, n)
<1>1. Len(s) \in Nat /\ p \in 1..Len(s) /\ s[p] = n /\ \A i \in 1..Len(s) : s[i] \in T
  BY DEF Listed
<1>2. e = [i \in 1..(Len(s) - 1) |-> IF i < p THEN s[i] ELSE s[i + 1]]
  BY DEF Erase
<1> HIDE DEF p
<1>3. e \in Seq(T) /\ Len(e) = Len(s) - 1
  <2>1. \A i \in 1..(Len(s) - 1) : (IF i < p THEN s[i] ELSE s[i + 1]) \in T
    BY <1>1
  <2>2. Len(s) - 1 \in Nat
    BY <1>1
  <2>3. QED
    BY <1>2, <2>1, <2>2
<1> HIDE DEF e
<1>4. \A i \in 1..Len(e) : e[i] = IF i < p THEN s[i] ELSE s[i + 1]
  BY <1>2, <1>3
<1>5. Once(e)
  BY <1>1, <1>3, <1>4 DEF Once
<1>6. ASSUME NEW m \in Listed(e) PROVE m \in Listed(s) \ {n}
  <2>1. PICK i \in 1..Len(e) : m = e[i]
    BY DEF Listed
  <2>2. PICK a \in 1..Len(s) : m = s[a] /\ a # p
    BY <1>1, <1>3, <1>4, <2>1
  <2>3. QED
    BY <1>1, <2>2 DEF Listed, Once
<1>7. ASSUME NEW m \in Listed(s) \ {n} PROVE m \in Listed(e)
  <2>1. PICK a \in 1..Len(s) : m = s[a] /\ a # p
    BY <1>1 DEF Listed
  <2>2. CASE a < p
    BY <1>1, <1>3, <1>4, <2>1, <2>2 DEF Listed
  <2>3. CASE a > p
    <3>1. a - 1 \in 1..Len(e) /\ e[a - 1] = m
      BY <1>1, <1>3, <1>4, <2>1, <2>3
    <3>2. QED
      BY <3>1 DEF Listed
  <2>4. QED
    BY <1>1, <2>1, <2>2, <2>3
<1>8. InOrderOf(e, s)
  <2> SUFFICES ASSUME NEW i \in 1..Len(e), NEW j \in 1..Len(e), i < j
               PROVE  \E a, b \in 1..Len(s) : a < b /\ e[i] = s[a] /\ e[j] = s[b]
    BY DEF InOrderOf
  <2> DEFINE a == IF i < p THEN i ELSE i + 1
             b == IF j < p THEN j ELSE j + 1
  <2>1. a \in 1..Len(s) /\ b \in 1..Len(s) /\ a < b
    BY <1>1, <1>3
  <2>2. e[i] = s[a] /\ e[j] = s[b]
    BY <1>4
  <2>3. QED
    BY <2>1, <2>2
<1>9. QED
  BY <1>3, <1>5, <1>6, <1>7, <1>8 DEF e

Push(n, s) == <<n>> \o s

\* An entry put before a list that does not hold it.
LEMMA PushList ==
    ASSUME NEW T, NEW s \in Seq(T), Once(s), NEW n \in T, n \notin Listed(s),
           NEW t, t = Push(n, s)
    PROVE  /\ t \in Seq(T) /\ Once(t)
           /\ Listed(t) = Listed(s) \cup {n}
           /\ \A i, j \in 1..Len(t) : i < j =>
                /\ t[j] \in Listed(s)
                /\ t[i] = n \/ \E a, b \in 1..Len(s) : a < b /\ t[i] = s[a] /\ t[j] = s[b]
<1>1. Len(s) \in Nat /\ \A i \in 1..Len(s) : s[i] \in T
  OBVIOUS
<1>2. t \in Seq(T) /\ Len(t) = Len(s) + 1 /\ t[1] = n
  BY <1>1 DEF Push
<1>3. \A i \in 2..Len(t) : i - 1 \in 1..Len(s) /\ t[i] = s[i - 1]
  BY <1>1, <1>2 DEF Push
<1>4. \A i \in 2..Len(t) : t[i] \in Listed(s)
  BY <1>3 DEF Listed
<1>5. Once(t)
  <2> SUFFICES ASSUME NEW i \in 1..Len(t), NEW j \in 1..Len(t), t[i] = t[j] PROVE i = j
    BY DEF Once
  <2>1. (i = 1 \/ i \in 2..Len(t)) /\ (j = 1 \/ j \in 2..Len(t))
    BY <1>1, <1>2
  <2>2. CASE i = 1 \/ j = 1
    BY <1>2, <1>4, <2>1, <2>2
  <2>3. CASE i \in 2..Len(t) /\ j \in 2..Len(t)
    <3>1. i - 1 = j - 1
      BY <1>3, <2>3 DEF Once
    <3>2. QED
      BY <3>1
  <2>4. QED
    BY <2>1, <2>2, <2>3
<1>6. Listed(t) = Listed(s) \cup {n}
  <2>1. \A i \in 1..Len(s) : i + 1 \in 1..Len(t) /\ t[i + 1] = s[i]
    BY <1>1, <1>2, <1>3
  <2>2. 1 \in 1..Len(t)
    BY <1>1, <1>2
  <2>3. \A i \in 1..Len(t) : i = 1 \/ i \in 2..Len(t)
    BY <1>1, <1>2
  <2>4. ASSUME NEW m \in Listed(t) PROVE m \in Listed(s) \cup {n}
    <3>1. PICK i \in 1..Len(t) : m = t[i]
      BY DEF Listed
    <3>2. QED
      BY <1>2, <1>4, <2>3, <3>1
  <2>5. ASSUME NEW m \in Listed(s) PROVE m \in Listed(t)
    <3>1. PICK i \in 1..Len(s) : m = s[i]
      BY DEF Listed
    <3>2. QED
      BY <2>1, <3>1 DEF Listed
  <2>6. n \in Listed(t)
    BY <1>2, <2>2 DEF Listed
  <2>7. QED
    BY <2>4, <2>5, <2>6
<1>7. ASSUME NEW i \in 1..Len(t), NEW j \in 1..Len(t), i < j
      PROVE  /\ t[j] \in Listed(s)
             /\ t[i] = n \/ \E a, b \in 1..Len(s) : a < b /\ t[i] = s[a] /\ t[j] = s[b]
  <2>1. j \in 2..Len(t) /\ (i = 1 \/ i \in 2..Len(t))
    BY <1>1, <1>2, <1>7
  <2>2. i - 1 < j - 1
    BY <1>7
  <2>3. QED
    BY <1>2, <1>3, <1>4, <2>1, <2>2
<1>8. QED
  BY <1>2, <1>5, <1>6, <1>7

PushBack(s, n) == Append(s, n)

\* An entry put behind a list that does not hold it.
LEMMA AppendList ==
    ASSUME NEW T, NEW s \in Seq(T), Once(s), NEW n \in T, n \notin Listed(s),
           NEW t, t = PushBack(s, n)
    PROVE  /\ t \in Seq(T) /\ Once(t)
           /\ Listed(t) = Listed(s) \cup {n}
           /\ \A i, j \in 1..Len(t) : i < j =>
                /\ i \in 1..Len(s) /\ t[i] = s[i]
                /\ t[j] = n \/ (j \in 1..Len(s) /\ t[j] = s[j])
<1>1. Len(s) \in Nat /\ t \in Seq(T) /\ Len(t) = Len(s) + 1 /\ t[Len(t)] = n
  BY DEF PushBack
<1>2. \A i \in 1..Len(s) : i \in 1..Len(t) /\ t[i] = s[i] /\ s[i] # n
  BY DEF Listed, PushBack
<1>3. \A i \in 1..Len(t) : i = Len(t) \/ i \in 1..Len(s)
  BY <1>1
<1>4. Once(t)
  BY <1>1, <1>2, <1>3 DEF Once
<1>5. ASSUME NEW m \in Listed(t) PROVE m \in Listed(s) \cup {n}
  <2>1. PICK i \in 1..Len(t) : m = t[i]
    BY DEF Listed
  <2>2. QED
    BY <1>1, <1>2, <1>3, <2>1 DEF Listed
<1>6. ASSUME NEW m \in Listed(s) PROVE m \in Listed(t)
  <2>1. PICK i \in 1..Len(s) : m = s[i]
    BY DEF Listed
  <2>2. QED
    BY <1>2, <2>1 DEF Listed
<1>7. n \in Listed(t)
  <2>1. Len(t) \in 1..Len(t)
    BY <1>1
  <2>2. QED
    BY <1>1, <2>1 DEF Listed
<1>8. ASSUME NEW i \in 1..Len(t), NEW j \in 1..Len(t), i < j
      PROVE  /\ i \in 1..Len(s) /\ t[i] = s[i]
             /\ t[j] = n \/ (j \in 1..Len(s) /\ t[j] = s[j])
  <2>1. i \in 1..Len(s)
    BY <1>1, <1>8
  <2>2. QED
    BY <1>1, <1>2, <1>3, <2>1
<1>9. QED
  BY <1>1, <1>4, <1>5, <1>6, <1>7, <1>8

\* A list without its last entry.
LEMMA ChopList ==
    ASSUME NEW T, NEW s \in Seq(T), Once(s), s # <<>>
    PROVE  LET t == SubSeq(s, 1, Len(s) - 1)
           IN  /\ t \in Seq(T) /\ Once(t) /\ s[Len(s)] \in Listed(s)
               /\ Listed(t) = Listed(s) \ {s[Len(s)]} /\ InOrderOf(t, s)
<1> DEFINE t == SubSeq(s, 1, Len(s) - 1)
<1>1. Len(s) \in Nat \ {0} /\ Len(s) - 1 \in Nat
  OBVIOUS
<1>2. t \in Seq(T) /\ Len(t) = Len(s) - 1 /\ \A i \in 1..(Len(s) - 1) : t[i] = s[i]
  <2>1. \A i \in 1..(Len(s) - 1) : s[i] \in T
    BY <1>1
  <2>2. /\ t \in Seq(T) /\ Len(t) = IF 1 <= Len(s) - 1 THEN Len(s) - 1 - 1 + 1 ELSE 0
        /\ \A i \in 1..(Len(s) - 1 - 1 + 1) : t[i] = s[1 + i - 1]
    BY <1>1, <2>1, SubSeqProperties
  <2> HIDE DEF t
  <2>3. ASSUME NEW i \in 1..(Len(s) - 1) PROVE t[i] = s[i]
    <3>1. i \in 1..(Len(s) - 1 - 1 + 1) /\ 1 + i - 1 = i
      BY <1>1
    <3>2. QED
      BY <2>2, <3>1
  <2>4. Len(t) = Len(s) - 1
    <3>1. ASSUME NEW l \in Nat \ {0}
          PROVE  (IF 1 <= l - 1 THEN l - 1 - 1 + 1 ELSE 0) = l - 1
      OBVIOUS
    <3>2. QED
      BY <1>1, <2>2, <3>1
  <2>5. QED
    BY <2>2, <2>3, <2>4
<1> HIDE DEF t
<1>3. \A i \in 1..Len(t) : i \in 1..Len(s) /\ i # Len(s) /\ t[i] = s[i]
  BY <1>1, <1>2
<1>4. Once(t) /\ InOrderOf(t, s)
  BY <1>3 DEF Once, InOrderOf
<1>5. Len(s) \in 1..Len(s) /\ \A i \in 1..Len(s) : i = Len(s) \/ i \in 1..Len(t)
  BY <1>1, <1>2
<1>6. ASSUME NEW m \in Listed(t) PROVE m \in Listed(s) \ {s[Len(s)]}
  <2>1. PICK i \in 1..Len(t) : m = t[i]
    BY DEF Listed
  <2>2. QED
    BY <1>3, <1>5, <2>1 DEF Listed, Once
<1>7. ASSUME NEW m \in Listed(s) \ {s[Len(s)]} PROVE m \in Listed(t)
  <2>1. PICK i \in 1..Len(s) : m = s[i]
    BY DEF Listed
  <2>2. QED
    BY <1>3, <1>5, <2>1 DEF Listed
<1>8. s[Len(s)] \in Listed(s)
  BY <1>5 DEF Listed
<1>9. QED
  BY <1>2, <1>4, <1>6, <1>7, <1>8 DEF t

\* An entry of a list under a name that is not on it.
LEMMA RenameList ==
    ASSUME NEW T, NEW s \in Seq(T), Once(s), NEW n \in Listed(s), NEW m \in T, m \notin Listed(s)
    PROVE  LET t == Rename(s, n, m)
           IN  /\ t \in Seq(T) /\ Once(t) /\ Len(t) = Len(s)
               /\ Listed(t) = (Listed(s) \ {n}) \cup {m}
               /\ \A i \in 1..Len(s) : t[i] = IF s[i] = n THEN m ELSE s[i]
<1> DEFINE t == Rename(s, n, m)
<1>1. t = [i \in 1..Len(s) |-> IF s[i] = n THEN m ELSE s[i]] /\ Len(s) \in Nat
  BY DEF Rename
<1>2. \A i \in 1..Len(s) : (IF s[i] = n THEN m ELSE s[i]) \in T
  OBVIOUS
<1>3. t \in Seq(T) /\ Len(t) = Len(s) /\ \A i \in 1..Len(s) : t[i] = IF s[i] = n THEN m ELSE s[i]
  BY <1>1, <1>2
<1> HIDE DEF t
<1>4. \A i \in 1..Len(s) : s[i] # m
  BY DEF Listed
<1>5. Once(t)
  BY <1>3, <1>4 DEF Once
<1>6. Listed(t) = (Listed(s) \ {n}) \cup {m}
  BY <1>3, <1>4 DEF Listed
<1>7. QED
  BY <1>3, <1>5, <1>6 DEF t

\* A list that holds no entry twice is as long as the set it lists.
LEMMA ListLength ==
    ASSUME NEW T, NEW s \in Seq(T), Once(s)
    PROVE  IsFiniteSet(Listed(s)) /\ Cardinality(Listed(s)) = Len(s)
<1>1. Len(s) \in Nat /\ s \in [1..Len(s) -> T]
  OBVIOUS
<1>2. s \in Bijection(1..Len(s), Listed(s))
  BY <1>1 DEF Bijection, Injection, Surjection, IsInjective, Once, Listed
<1>3. ExistsBijection(1..Len(s), Listed(s))
  BY <1>2 DEF ExistsBijection
<1>4. IsFiniteSet(1..Len(s)) /\ Cardinality(1..Len(s)) = Len(s)
  BY <1>1, FS_Interval
<1>5. QED
  BY <1>3, <1>4, FS_Bijection

-----------------------------------------------------------------------------
(* Bytes *)

\* The bytes of a finite set of files are finitely many.
LEMMA BytesType ==
    ASSUME NEW S, IsFiniteSet(S), NEW size
    PROVE  /\ IsFiniteSet({b \in S \X (1..MaxBlock) : b[2] <= size[b[1]]})
           /\ Bytes(size, S) \in Nat
<1>1. IsFiniteSet(1..MaxBlock)
  BY FSBlockStoreAssumption, FS_Interval
<1>2. IsFiniteSet(S \X (1..MaxBlock))
  BY <1>1, FS_Product
<1>3. IsFiniteSet({b \in S \X (1..MaxBlock) : b[2] <= size[b[1]]})
  BY <1>2, FS_Subset
<1>4. QED
  BY <1>3, FS_CardinalityType DEF Bytes

\* Files of the same sizes, but for empty ones, have the same bytes.
LEMMA BytesSame ==
    ASSUME NEW S, NEW T, NEW size, NEW other,
           \A n \in S : size[n] \in 0..MaxBlock /\ (size[n] # 0 => n \in T /\ other[n] = size[n]),
           \A n \in T : other[n] \in 0..MaxBlock /\ (other[n] # 0 => n \in S /\ other[n] = size[n])
    PROVE  Bytes(size, S) = Bytes(other, T)
<1> DEFINE B == {b \in S \X (1..MaxBlock) : b[2] <= size[b[1]]}
           C == {b \in T \X (1..MaxBlock) : b[2] <= other[b[1]]}
<1>1. ASSUME NEW b \in B PROVE b \in C
  BY FSBlockStoreAssumption
<1>2. ASSUME NEW b \in C PROVE b \in B
  BY FSBlockStoreAssumption
<1>3. QED
  BY <1>1, <1>2 DEF Bytes

\* The bytes of two sets that have no file in common add up.
LEMMA BytesUnion ==
    ASSUME NEW S, IsFiniteSet(S), NEW T, IsFiniteSet(T), S \cap T = {}, NEW size
    PROVE  Bytes(size, S \cup T) = Bytes(size, S) + Bytes(size, T)
<1> DEFINE B(U) == {b \in U \X (1..MaxBlock) : b[2] <= size[b[1]]}
<1>1. B(S \cup T) = B(S) \cup B(T) /\ B(S) \cap B(T) = {}
  OBVIOUS
<1>2. /\ IsFiniteSet(B(S)) /\ IsFiniteSet(B(T))
      /\ Cardinality(B(S)) \in Nat /\ Cardinality(B(T)) \in Nat
  BY BytesType DEF Bytes
<1>3. Cardinality(B(S) \cup B(T)) = Cardinality(B(S)) + Cardinality(B(T)) - Cardinality(B(S) \cap B(T))
  BY <1>2, FS_Union
<1>4. Cardinality(B(S) \cap B(T)) = 0
  BY <1>1, FS_EmptySet
<1>5. /\ Bytes(size, S) = Cardinality(B(S)) /\ Bytes(size, T) = Cardinality(B(T))
      /\ Bytes(size, S \cup T) = Cardinality(B(S) \cup B(T))
  BY <1>1 DEF Bytes
<1> HIDE DEF B
<1>6. QED
  BY <1>2, <1>3, <1>4, <1>5

\* One file has as many bytes as its size says.
LEMMA BytesOne ==
    ASSUME NEW n, NEW size, size[n] \in 0..MaxBlock
    PROVE  Bytes(size, {n}) = size[n]
<1> DEFINE B == {b \in {n} \X (1..MaxBlock) : b[2] <= size[b[1]]}
           f == [i \in 1..size[n] |-> <<n, i>>]
<1>1. f \in Bijection(1..size[n], B)
  <2>1. f \in [1..size[n] -> B]
    BY FSBlockStoreAssumption
  <2>2. \A b \in B : b[2] \in 1..size[n] /\ b = <<n, b[2]>>
    BY FSBlockStoreAssumption
  <2>3. \A b \in B : \E i \in 1..size[n] : f[i] = b
    BY <2>2
  <2>4. QED
    BY <2>1, <2>3 DEF Bijection, Injection, Surjection, IsInjective
<1>2. ExistsBijection(1..size[n], B)
  BY <1>1 DEF ExistsBijection
<1>3. IsFiniteSet(1..size[n]) /\ Cardinality(1..size[n]) = size[n]
  <2>1. size[n] \in Nat
    BY FSBlockStoreAssumption
  <2>2. QED
    BY <2>1, FS_Interval
<1>4. QED
  BY <1>2, <1>3, FS_Bijection DEF Bytes

\* A set of files one of which gets another size, or comes in.
LEMMA BytesReplace ==
    ASSUME NEW S \in SUBSET Names, NEW size \in [Names -> 0..MaxBlock],
           NEW new \in [Names -> 0..MaxBlock], NEW k \in Names,
           \A n \in S \ {k} : new[n] = size[n]
    PROVE  /\ k \in S => Bytes(new, S \cup {k}) = Bytes(size, S) - size[k] + new[k]
           /\ k \notin S => Bytes(new, S \cup {k}) = Bytes(size, S) + new[k]
<1> DEFINE R == S \ {k}
<1>1. IsFiniteSet(R) /\ IsFiniteSet({k}) /\ IsFiniteSet(S)
  BY FSBlockStoreAssumption, FS_Subset, FS_Singleton
<1>2. Bytes(new, R) = Bytes(size, R)
  <2>1. \A n \in R : new[n] \in 0..MaxBlock /\ size[n] \in 0..MaxBlock
    OBVIOUS
  <2>2. QED
    BY <2>1, BytesSame
<1>3. Bytes(new, R \cup {k}) = Bytes(new, R) + Bytes(new, {k})
  BY <1>1, BytesUnion
<1>4. Bytes(size, R \cup {k}) = Bytes(size, R) + Bytes(size, {k})
  BY <1>1, BytesUnion
<1>5. Bytes(new, {k}) = new[k] /\ Bytes(size, {k}) = size[k]
  BY BytesOne
<1>6. R \cup {k} = S \cup {k} /\ (k \in S => R \cup {k} = S) /\ (k \notin S => R = S)
  OBVIOUS
<1>7. Bytes(size, R) \in Nat
  BY <1>1, BytesType
<1>8. size[k] \in Int /\ new[k] \in Int
  BY FSBlockStoreAssumption
<1> HIDE DEF R
<1>9. Bytes(new, S \cup {k}) = Bytes(size, R) + new[k]
  BY <1>2, <1>3, <1>5, <1>6
<1>10. ASSUME k \in S PROVE Bytes(new, S \cup {k}) = Bytes(size, S) - size[k] + new[k]
  <2>1. Bytes(size, S) = Bytes(size, R) + size[k]
    BY <1>4, <1>5, <1>6, <1>10
  <2>2. QED
    BY <1>7, <1>8, <1>9, <2>1
<1>11. ASSUME k \notin S PROVE Bytes(new, S \cup {k}) = Bytes(size, S) + new[k]
  BY <1>6, <1>9, <1>11
<1>12. QED
  BY <1>10, <1>11

\* A set of files one of which goes.
LEMMA BytesDrop ==
    ASSUME NEW S \in SUBSET Names, NEW size \in [Names -> 0..MaxBlock],
           NEW new \in [Names -> 0..MaxBlock], NEW k \in S,
           \A n \in S \ {k} : new[n] = size[n]
    PROVE  Bytes(new, S \ {k}) = Bytes(size, S) - size[k]
<1> DEFINE R == S \ {k}
<1>1. k \in Names /\ R \in SUBSET Names /\ k \notin R /\ R \cup {k} = S
  OBVIOUS
<1>2. \A n \in R \ {k} : size[n] = new[n]
  OBVIOUS
<1>3. Bytes(size, R \cup {k}) = Bytes(new, R) + size[k]
  <2> HIDE DEF R
  <2>1. QED
    BY <1>1, <1>2, BytesReplace
<1>4. IsFiniteSet(R) /\ size[k] \in Int
  BY <1>1, FSBlockStoreAssumption, FS_Subset
<1>5. Bytes(new, R) \in Nat
  BY <1>4, BytesType
<1> HIDE DEF R
<1>6. Bytes(new, R) = Bytes(size, S) - size[k]
  BY <1>1, <1>3, <1>4, <1>5
<1>7. QED
  BY <1>6 DEF R

\* The mark divides a list that holds it.
LEMMA MarkSplits ==
    ASSUME NEW s \in Seq(Names), Once(s), MARK \in Listed(s)
    PROVE  /\ BeforeMark(s) \cap BehindMark(s) = {}
           /\ BeforeMark(s) \cup BehindMark(s) = Listed(s) \ {MARK}
<1>1. PICK p \in 1..Len(s) : s[p] = MARK
  BY DEF Listed
<1>2. Len(s) \in Nat
  OBVIOUS
<1>3. ASSUME NEW j \in 1..Len(s)
      PROVE  /\ (\A l \in 1..j : s[l] # MARK) <=> j < p
             /\ (\E l \in 1..(j - 1) : s[l] = MARK) <=> j > p
  <2>1. \A l \in 1..Len(s) : s[l] = MARK <=> l = p
    BY <1>1 DEF Once
  <2>2. \A l \in 1..j : l \in 1..Len(s)
    BY <1>2
  <2>3. \A l \in 1..(j - 1) : l \in 1..Len(s)
    BY <1>2
  <2>4. QED
    BY <1>2, <2>1, <2>2, <2>3
<1>4. /\ BeforeMark(s) = {s[j] : j \in {i \in 1..Len(s) : i < p}}
      /\ BehindMark(s) = {s[j] : j \in {i \in 1..Len(s) : i > p}}
  BY <1>3 DEF BeforeMark, BehindMark
<1>5. ASSUME NEW m \in Listed(s) \ {MARK} PROVE m \in BeforeMark(s) \cup BehindMark(s)
  <2>1. PICK i \in 1..Len(s) : m = s[i]
    BY DEF Listed
  <2>2. i < p \/ i > p
    BY <1>1, <1>2, <2>1
  <2>3. QED
    BY <1>4, <2>1, <2>2
<1>6. ASSUME NEW m \in BeforeMark(s) PROVE m \in Listed(s) \ {MARK} /\ m \notin BehindMark(s)
  <2>1. PICK i \in 1..Len(s) : i < p /\ m = s[i]
    BY <1>4
  <2>2. \A j \in 1..Len(s) : s[j] = m => j = i
    BY <2>1 DEF Once
  <2>3. QED
    BY <1>1, <1>2, <1>4, <2>1, <2>2 DEF Listed
<1>7. ASSUME NEW m \in BehindMark(s) PROVE m \in Listed(s) \ {MARK}
  <2>1. PICK i \in 1..Len(s) : i > p /\ m = s[i]
    BY <1>4
  <2>2. m # MARK
    BY <1>1, <1>2, <2>1 DEF Once
  <2>3. QED
    BY <2>1, <2>2 DEF Listed
<1>8. QED
  BY <1>5, <1>6, <1>7

-----------------------------------------------------------------------------
(* The steps *)

\* The list without n, whether or not n has an entry.
LEMMA WithoutList ==
    ASSUME TypeOK, ListInv, Running, NEW n \in Names, ~Dangling(n)
    PROVE  LET t == IF n \in m_entries THEN Erase(m_lru, n) ELSE m_lru
           IN  /\ t \in Seq(Names) /\ Once(t) /\ Listed(t) = Listed(m_lru) \ {n}
               /\ Sorted(t, mtime)
<1> DEFINE t == IF n \in m_entries THEN Erase(m_lru, n) ELSE m_lru
<1>1. m_lru \in Seq(Names) /\ Once(m_lru) /\ Sorted(m_lru, mtime) /\ Listed(m_lru) \subseteq m_entries
  BY DEF TypeOK, ListInv
<1>2. CASE n \in m_entries
  <2>1. n \in Listed(m_lru) /\ t = Erase(m_lru, n)
    BY <1>2 DEF Dangling
  <2>2. /\ t \in Seq(Names) /\ Once(t) /\ Listed(t) = Listed(m_lru) \ {n}
        /\ InOrderOf(t, m_lru)
    BY <1>1, <2>1, EraseList
  <2> HIDE DEF t
  <2>3. Sorted(t, mtime)
    BY <1>1, <2>2 DEF Sorted, InOrderOf
  <2>4. QED
    BY <2>2, <2>3 DEF t
<1>3. CASE n \notin m_entries
  BY <1>1, <1>3
<1>4. QED
  BY <1>2, <1>3

\* touch_entry, when the entry's m_listpos is good.
LEMMA TouchList ==
    ASSUME TypeOK, FilesInv, ListInv, Up, NEW n \in Names, NEW size, ~Dangling(n),
           touch_entry(n, now, size), mtime' = [mtime EXCEPT ![n] = now]
    PROVE  /\ m_lru' \in Seq(Names) /\ Once(m_lru') /\ Sorted(m_lru', mtime')
           /\ Listed(m_lru') = Listed(m_lru) \cup {n}
           /\ Listed(m_lru)' \subseteq m_entries'
           /\ \A m \in Listed(m_lru)' : tstamp'[m] = mtime'[m]
<1> DEFINE t == IF n \in m_entries THEN Erase(m_lru, n) ELSE m_lru
<1>1. t \in Seq(Names) /\ Once(t) /\ Listed(t) = Listed(m_lru) \ {n} /\ Sorted(t, mtime)
  BY WithoutList DEF Running, Up
<1>2. m_lru' = Push(n, t)
  BY DEF touch_entry, Push
<1> HIDE DEF t
<1>3. n \notin Listed(t) /\ Listed(m_lru) \subseteq Names
  <2>1. Listed(m_lru) \subseteq Names
    BY ListedNames DEF TypeOK
  <2>2. QED
    BY <1>1, <2>1
<1>4. /\ m_lru' \in Seq(Names) /\ Once(m_lru') /\ Listed(m_lru') = Listed(t) \cup {n}
      /\ \A i, j \in 1..Len(m_lru') : i < j =>
           /\ m_lru'[j] \in Listed(t)
           /\ m_lru'[i] = n \/ \E a, b \in 1..Len(t) :
                 a < b /\ m_lru'[i] = t[a] /\ m_lru'[j] = t[b]
  BY <1>1, <1>2, <1>3, PushList
<1>5. /\ \A m \in Listed(t) : mtime'[m] = mtime[m] /\ mtime[m] <= now
      /\ mtime'[n] = now
  BY <1>1, <1>3 DEF TypeOK, FilesInv
<1>6. Sorted(m_lru', mtime')
  <2> SUFFICES ASSUME NEW i \in 1..Len(m_lru'), NEW j \in 1..Len(m_lru'), i < j
               PROVE  mtime'[m_lru'[i]] >= mtime'[m_lru'[j]]
    BY DEF Sorted
  <2>1. CASE m_lru'[i] = n
    <3>1. m_lru'[j] \in Listed(t)
      BY <1>4
    <3>2. mtime'[m_lru'[j]] = mtime[m_lru'[j]] /\ mtime[m_lru'[j]] <= now
      BY <1>5, <3>1
    <3>3. mtime[m_lru'[j]] \in Int /\ now \in Int
      BY <1>1, <1>3, <3>1, FSBlockStoreAssumption DEF TypeOK
    <3>4. QED
      BY <1>5, <2>1, <3>2, <3>3
  <2>2. CASE \E a, b \in 1..Len(t) : a < b /\ m_lru'[i] = t[a] /\ m_lru'[j] = t[b]
    <3>1. PICK a \in 1..Len(t), b \in 1..Len(t) : a < b /\ m_lru'[i] = t[a] /\ m_lru'[j] = t[b]
      BY <2>2
    <3>2. t[a] \in Listed(t) /\ t[b] \in Listed(t) /\ mtime[t[a]] >= mtime[t[b]]
      BY <1>1, <3>1 DEF Listed, Sorted
    <3>3. QED
      BY <1>5, <3>1, <3>2
  <2>3. QED
    BY <1>4, <2>1, <2>2
<1>7. /\ m_entries' = m_entries \cup {n} /\ tstamp' = [tstamp EXCEPT ![n] = now]
  BY DEF touch_entry
<1>8. Listed(m_lru') = Listed(m_lru) \cup {n}
  BY <1>1, <1>4
<1>9. Listed(m_lru)' \subseteq m_entries'
  BY <1>7, <1>8 DEF ListInv, Running, Up
<1>10. \A m \in Listed(m_lru)' : tstamp'[m] = mtime'[m]
  BY <1>3, <1>7, <1>8 DEF TypeOK, ListInv, Running, Up
<1>11. QED
  BY <1>4, <1>6, <1>8, <1>9, <1>10

\* touch_entry keeps the types.
LEMMA TouchTypes ==
    ASSUME TypeOK, NEW n \in Names, NEW size \in 0..MaxBlock, touch_entry(n, now, size),
           m_lru' \in Seq(Names)
    PROVE  /\ m_entries' \subseteq Names
           /\ esize' \in [Names -> 0..MaxBlock] /\ tstamp' \in [Names -> 0..MaxTime]
           /\ phase' \in {"idle", "ub"}
<1>1. now \in 0..MaxTime
  BY FSBlockStoreAssumption DEF TypeOK
<1>2. (IF n \in m_entries THEN esize[n] ELSE size) \in 0..MaxBlock
  BY DEF TypeOK
<1>3. QED
  BY <1>1, <1>2 DEF TypeOK, touch_entry

\* bs_refresh_start_async.
LEMMA RefreshStartKeeps ==
    ASSUME Inv, NEW r \in Rids, bs_refresh_start(r)
    PROVE  Inv'
<1> USE DEF Inv
<1>1. /\ r \in Names /\ r \notin Keys /\ 0 \in 0..MaxBlock /\ now \in 0..MaxTime
      /\ Up /\ r \notin disk /\ phase = "idle" /\ Running
  BY FSBlockStoreAssumption DEF Names, TypeOK, bs_refresh_start, Up, Running
<1>2. /\ touch_entry(r, now, 0) /\ mtime' = [mtime EXCEPT ![r] = now] /\ disk' = disk \cup {r}
      /\ UNCHANGED <<fsize, now, put, m_mark, m_committed, m_uncommitted, resized>>
  BY DEF bs_refresh_start
<1>3. disk \subseteq Names /\ fsize \in [Names -> 0..MaxBlock] /\ r \notin Listed(m_lru)
  BY <1>1 DEF TypeOK, ListInv
<1>4. ASSUME NEW S \in SUBSET Names, r \notin S PROVE Bytes(fsize, S \cup {r}) = Bytes(fsize, S)
  <2>1. fsize[r] = 0
    BY <1>1 DEF FilesInv
  <2>2. \A n \in S \cup {r} : fsize[n] \in 0..MaxBlock
    BY <1>1, <1>3
  <2>3. QED
    BY <1>4, <2>1, <2>2, BytesSame
<1>5. WithinCapacity'
  BY <1>1, <1>2, <1>3, <1>4 DEF WithinCapacity
<1>6. m_lru' \in Seq(Names)
  BY <1>1, <1>2, TouchList DEF touch_entry, TypeOK
<1>7. TypeOK'
  <2>1. /\ m_entries' \subseteq Names /\ phase' \in {"idle", "ub"}
        /\ esize' \in [Names -> 0..MaxBlock] /\ tstamp' \in [Names -> 0..MaxTime]
    BY <1>1, <1>2, <1>6, TouchTypes
  <2>2. QED
    BY <1>1, <1>2, <1>6, <2>1 DEF TypeOK, Phases
<1>8. FilesInv'
  <2>1. esize'[r] = IF r \in m_entries THEN esize[r] ELSE 0
    BY <1>1, <1>2 DEF touch_entry, TypeOK, FilesInv
  <2>2. QED
    BY <1>1, <1>2, <2>1 DEF FilesInv, touch_entry, TypeOK
<1>9. CASE Dangling(r)
  <2>1. phase' = "ub"
    BY <1>2, <1>9 DEF touch_entry
  <2>2. QED
    BY <1>5, <1>7, <1>8, <2>1 DEF DownInv, Reading, ListInv, PutInv, Running
<1>10. CASE ~Dangling(r)
  <2>1. phase' = "idle"
    BY <1>2, <1>10 DEF touch_entry
  <2>2. /\ Once(m_lru') /\ Sorted(m_lru', mtime') /\ Listed(m_lru') = Listed(m_lru) \cup {r}
        /\ Listed(m_lru)' \subseteq m_entries'
        /\ \A m \in Listed(m_lru)' : tstamp'[m] = mtime'[m]
    BY <1>1, <1>2, <1>10, TouchList
  <2>3. Listed(m_lru)' = disk'
    BY <1>1, <1>2, <2>2 DEF ListInv
  <2>4. ASSUME ~resized
        PROVE  /\ \A n \in Listed(m_lru)' : esize'[n] = fsize'[n]
               /\ m_committed' + m_uncommitted' = Bytes(fsize, Listed(m_lru'))
    <3>1. esize' = [esize EXCEPT ![r] = IF r \in m_entries THEN @ ELSE 0]
      BY <1>2, <1>10 DEF touch_entry
    <3>2. \A n \in Names : esize'[n] = esize[n]
      BY <1>1, <3>1 DEF TypeOK, FilesInv
    <3>3. fsize[r] = 0 /\ esize[r] = 0
      BY <1>1 DEF FilesInv
    <3>4. \A n \in Listed(m_lru)' : esize'[n] = fsize'[n]
      BY <1>1, <1>2, <1>3, <2>2, <2>4, <3>2, <3>3 DEF ListInv
    <3>5. Bytes(fsize, Listed(m_lru')) = Bytes(fsize, Listed(m_lru))
      BY <1>1, <1>3, <1>4, <2>2 DEF ListInv
    <3>6. QED
      BY <1>1, <1>2, <2>4, <3>4, <3>5 DEF ListInv
  <2>5. ListInv'
    BY <1>2, <2>2, <2>3, <2>4 DEF ListInv
  <2>6. QED
    BY <1>5, <1>7, <1>8, <2>1, <2>5 DEF DownInv, Reading, PutInv
<1>11. QED
  BY <1>9, <1>10

\* bs_refresh_block_async.
LEMMA RefreshBlockKeeps ==
    ASSUME Inv, NEW r \in Rids, NEW k \in Keys, bs_refresh_block(r, k)
    PROVE  Inv'
<1> USE DEF Inv
<1>1. /\ k \in Names /\ now \in 0..MaxTime /\ fsize[k] \in 0..MaxBlock
      /\ Up /\ k \in disk /\ phase = "idle" /\ Running
  BY FSBlockStoreAssumption DEF Names, TypeOK, bs_refresh_block, Up, Running
<1>2. /\ touch_entry(k, now, fsize[k]) /\ mtime' = [mtime EXCEPT ![k] = now]
      /\ UNCHANGED <<disk, fsize, now, put, m_mark, m_committed, m_uncommitted, resized>>
  BY DEF bs_refresh_block
<1>3. k \in Listed(m_lru) /\ k \in m_entries /\ ~Dangling(k) /\ Listed(m_lru) = disk
  BY <1>1 DEF ListInv, Dangling
<1>4. phase' = "idle" /\ esize' = esize
  <2>1. esize' = [esize EXCEPT ![k] = IF k \in m_entries THEN @ ELSE fsize[k]] /\ phase' = "idle"
    BY <1>2, <1>3 DEF touch_entry
  <2>2. QED
    BY <1>1, <1>3, <2>1 DEF TypeOK
<1>5. /\ m_lru' \in Seq(Names) /\ Once(m_lru') /\ Sorted(m_lru', mtime')
      /\ Listed(m_lru') = Listed(m_lru) /\ Listed(m_lru)' \subseteq m_entries'
      /\ \A m \in Listed(m_lru)' : tstamp'[m] = mtime'[m]
  BY <1>1, <1>2, <1>3, TouchList
<1>6. TypeOK'
  <2>1. /\ m_entries' \subseteq Names
        /\ esize' \in [Names -> 0..MaxBlock] /\ tstamp' \in [Names -> 0..MaxTime]
    BY <1>1, <1>2, <1>5, TouchTypes
  <2>2. QED
    BY <1>1, <1>2, <1>4, <1>5, <2>1 DEF TypeOK, Phases
<1>7. FilesInv'
  BY <1>1, <1>2, <1>4 DEF FilesInv, TypeOK
<1>8. WithinCapacity'
  BY <1>2 DEF WithinCapacity
<1>9. ListInv'
  BY <1>1, <1>2, <1>3, <1>4, <1>5 DEF ListInv, Up
<1>10. QED
  BY <1>4, <1>6, <1>7, <1>8, <1>9 DEF DownInv, Reading, PutInv

\* The parts that only depend on the files and the memory.
LEMMA SameMemory ==
    ASSUME Inv, UNCHANGED <<files, now, memory, resized>>
    PROVE  /\ FilesInv' /\ WithinCapacity'
           /\ Running /\ Running' /\ (Up' => Up) => ListInv'
BY DEF Inv, FilesInv, WithinCapacity, ListInv, files, memory

\* bs_block_put_async up to the loop.
LEMMA PutStartKeeps ==
    ASSUME Inv, NEW k \in Keys, NEW size \in Sizes[k], PutStart(k, size)
    PROVE  Inv'
<1> USE DEF Inv
<1> DEFINE p == [key |-> k, size |-> size, prevsize |-> PrevSize(k),
                 wascommitted |-> WasCommitted(k)]
<1>1. /\ phase = "idle" /\ phase' = "purging" /\ put' = p
      /\ UNCHANGED <<files, now, memory, resized>>
  BY DEF PutStart
<1>2. k \in Names /\ size \in 0..MaxBlock /\ 0 \in 0..MaxBlock
  BY FSBlockStoreAssumption DEF Names
<1>3. PrevSize(k) \in 0..MaxBlock /\ WasCommitted(k) \in BOOLEAN
  BY <1>2 DEF TypeOK, PrevSize, WasCommitted
<1>4. p \in Puts /\ p.key = k /\ p.prevsize = PrevSize(k)
  BY <1>2, <1>3 DEF Puts
<1> HIDE DEF p
<1>5. TypeOK'
  BY <1>1, <1>4 DEF TypeOK, files, memory, Phases
<1>6. PutInv'
  BY <1>1, <1>4 DEF PutInv, PrevSize, files, memory
<1>7. FilesInv' /\ WithinCapacity' /\ ListInv'
  BY <1>1, SameMemory DEF Running, Up
<1>8. QED
  BY <1>1, <1>5, <1>6, <1>7 DEF DownInv, Reading

\* purge_uncommitted.
LEMMA PurgeKeeps ==
    ASSUME Inv, Purge
    PROVE  Inv'
<1> USE DEF Inv
<1> DEFINE n == Oldest
<1>1. /\ phase = "purging" /\ Running /\ Up /\ phase' = phase /\ Running' /\ Up'
      /\ m_lru # <<>> /\ Listed(m_lru) = disk /\ m_lru \in Seq(Names) /\ Once(m_lru)
  BY DEF Purge, MayPurge, Running, Up, ListInv, TypeOK
<1>2. /\ m_lru' = SubSeq(m_lru, 1, Len(m_lru) - 1) /\ disk' = disk \ {n}
      /\ fsize' = [fsize EXCEPT ![n] = 0] /\ mtime' = [mtime EXCEPT ![n] = 0]
      /\ m_uncommitted' = m_uncommitted - esize[n]
      /\ UNCHANGED <<now, phase, put, m_entries, esize, tstamp, m_mark, m_committed, resized>>
  BY DEF Purge
<1>3. /\ m_lru' \in Seq(Names) /\ Once(m_lru') /\ n \in Listed(m_lru)
      /\ Listed(m_lru') = Listed(m_lru) \ {n} /\ InOrderOf(m_lru', m_lru)
  BY <1>1, <1>2, ChopList DEF Oldest
<1> HIDE DEF n
<1>4. /\ n \in Names /\ Listed(m_lru) \subseteq Names /\ n \in m_entries
      /\ 0 \in 0..MaxBlock /\ 0 \in 0..MaxTime
      /\ fsize \in [Names -> 0..MaxBlock] /\ esize \in [Names -> 0..MaxBlock]
  BY <1>1, <1>3, FSBlockStoreAssumption DEF TypeOK, ListInv
<1>5. /\ fsize' \in [Names -> 0..MaxBlock] /\ fsize'[n] = 0 /\ esize[n] \in Int
      /\ \A m \in Listed(m_lru) \ {n} : fsize'[m] = fsize[m] /\ mtime'[m] = mtime[m]
  BY <1>2, <1>4, FSBlockStoreAssumption DEF TypeOK
<1>6. TypeOK'
  <2>1. mtime' \in [Names -> 0..MaxTime] /\ m_uncommitted' \in Int /\ disk' \subseteq Names
    BY <1>2, <1>4, <1>5 DEF TypeOK
  <2>2. QED
    BY <1>1, <1>2, <1>3, <1>5, <2>1 DEF TypeOK
<1>7. FilesInv'
  BY <1>2, <1>4 DEF FilesInv, TypeOK
<1>8. Bytes(fsize', disk') = Bytes(fsize, disk) - fsize[n] /\ Bytes(fsize, disk) \in Nat
  <2>1. Bytes(fsize', Listed(m_lru) \ {n}) = Bytes(fsize, Listed(m_lru)) - fsize[n]
    <3>1. Listed(m_lru) \in SUBSET Names /\ \A m \in Listed(m_lru) \ {n} : fsize'[m] = fsize[m]
      BY <1>4, <1>5
    <3>2. PICK S \in SUBSET Names, f \in [Names -> 0..MaxBlock] : S = Listed(m_lru) /\ f = fsize'
      BY <1>5, <3>1
    <3>3. \A m \in S \ {n} : f[m] = fsize[m]
      BY <3>1, <3>2
    <3>4. n \in S
      BY <1>3, <3>2
    <3>5. Bytes(f, S \ {n}) = Bytes(fsize, S) - fsize[n]
      BY <1>4, <3>3, <3>4, BytesDrop
    <3>6. QED
      BY <3>2, <3>5
  <2>2. Bytes(fsize, disk) \in Nat
    BY <1>1, <1>4, FSBlockStoreAssumption, FS_Subset, BytesType
  <2>3. QED
    BY <1>1, <1>2, <2>1, <2>2
<1>9. WithinCapacity'
  <2>1. fsize[n] \in Nat /\ Capacity \in Nat
    BY <1>4, FSBlockStoreAssumption
  <2>2. QED
    BY <1>2, <1>8, <2>1 DEF WithinCapacity
<1>10. ListInv'
  <2>1. Sorted(m_lru', mtime')
    <3> SUFFICES ASSUME NEW i \in 1..Len(m_lru'), NEW j \in 1..Len(m_lru'), i < j
                 PROVE  mtime'[m_lru'[i]] >= mtime'[m_lru'[j]]
      BY DEF Sorted
    <3>1. m_lru'[i] \in Listed(m_lru') /\ m_lru'[j] \in Listed(m_lru')
      BY DEF Listed
    <3>2. mtime[m_lru'[i]] >= mtime[m_lru'[j]]
      BY <1>1, <1>3 DEF ListInv, Sorted, InOrderOf
    <3>3. QED
      BY <1>3, <1>5, <3>1, <3>2
  <2>2. \A m \in Listed(m_lru') : tstamp'[m] = mtime'[m]
    BY <1>1, <1>2, <1>3, <1>5 DEF ListInv
  <2>3. ASSUME ~resized
        PROVE  /\ \A m \in Listed(m_lru') : esize'[m] = fsize'[m]
               /\ m_committed' + m_uncommitted' = Bytes(fsize', Listed(m_lru'))
    <3>1. \A m \in Listed(m_lru) : esize[m] = fsize[m]
      BY <1>1, <2>3 DEF ListInv
    <3>2. \A m \in Listed(m_lru') : esize'[m] = fsize'[m]
      BY <1>2, <1>3, <1>5, <3>1
    <3>3. esize[n] = fsize[n] /\ m_committed + m_uncommitted = Bytes(fsize, disk)
      BY <1>1, <1>3, <2>3 DEF ListInv
    <3>4. Listed(m_lru') = disk' /\ m_committed \in Int /\ m_uncommitted \in Int
      BY <1>1, <1>2, <1>3 DEF TypeOK
    <3>5. m_committed' + m_uncommitted' = Bytes(fsize', Listed(m_lru'))
      <4>1. Bytes(fsize', Listed(m_lru')) = Bytes(fsize, disk) - fsize[n]
        BY <1>8, <3>4
      <4>2. m_committed' = m_committed /\ m_uncommitted' = m_uncommitted - fsize[n] /\ fsize[n] \in Int
        BY <1>2, <1>5, <3>3
      <4>3. QED
        BY <3>3, <3>4, <4>1, <4>2
    <3>6. QED
      BY <3>2, <3>5
  <2>4. Listed(m_lru') \subseteq m_entries' /\ Listed(m_lru') = disk'
    BY <1>1, <1>2, <1>3 DEF ListInv
  <2>5. QED
    BY <1>2, <1>3, <2>1, <2>2, <2>3, <2>4 DEF ListInv
<1>11. PutInv'
  <2>1. put' = put /\ put.key \in Names /\ put.prevsize \in Int /\ put.size \in Int
    BY <1>1, <1>2, FSBlockStoreAssumption DEF TypeOK, Puts, Names
  <2>2. CASE put.key # n
    BY <1>1, <1>2, <1>4, <2>1, <2>2 DEF PutInv, TypeOK
  <2>3. CASE put.key = n
    <3>1. put.prevsize = fsize[n]
      BY <1>1, <1>3, <2>3 DEF PutInv
    <3>2. ASSUME put.wascommitted, ~resized, esize[n] = put.size PROVE FALSE
      <4>1. PrevCommitted(put) = put.prevsize
        BY <3>2 DEF PrevCommitted
      <4>2. esize[n] = fsize[n] /\ m_committed + m_uncommitted = Bytes(fsize, disk)
        BY <1>1, <1>3, <3>2 DEF ListInv
      <4>3. m_committed + put.size + m_uncommitted - put.prevsize > Capacity
        BY <4>1 DEF Purge, MustPurge
      <4>4. m_committed + m_uncommitted > Capacity
        BY <2>1, <3>1, <3>2, <4>2, <4>3, FSBlockStoreAssumption DEF TypeOK
      <4>5. QED
        BY <1>8, <3>2, <4>2, <4>4, FSBlockStoreAssumption DEF WithinCapacity
    <3>3. QED
      BY <1>2, <1>4, <2>1, <2>3, <3>2 DEF PutInv
  <2>4. QED
    BY <2>2, <2>3
<1>12. QED
  BY <1>1, <1>6, <1>7, <1>9, <1>10, <1>11 DEF DownInv, Reading

\* A block that is written, on a store that has room for it.
LEMMA WriteBytes ==
    ASSUME Inv, NEW k \in Names, NEW z \in 0..MaxBlock, fsize' = [fsize EXCEPT ![k] = z]
    PROVE  /\ fsize' \in [Names -> 0..MaxBlock] /\ Bytes(fsize, disk) \in Nat
           /\ k \in disk => Bytes(fsize', disk \cup {k}) = Bytes(fsize, disk) - fsize[k] + z
           /\ k \notin disk => Bytes(fsize', disk \cup {k}) = Bytes(fsize, disk) + z
<1>1. disk \subseteq Names /\ fsize \in [Names -> 0..MaxBlock]
  BY DEF Inv, TypeOK
<1>2. fsize' \in [Names -> 0..MaxBlock] /\ fsize'[k] = z /\ \A n \in disk \ {k} : fsize'[n] = fsize[n]
  BY <1>1
<1>3. Bytes(fsize, disk) \in Nat
  BY <1>1, FSBlockStoreAssumption, FS_Subset, BytesType
<1>4. PICK S \in SUBSET Names, f \in [Names -> 0..MaxBlock] : S = disk /\ f = fsize'
  BY <1>1, <1>2
<1>5. \A n \in S \ {k} : f[n] = fsize[n]
  BY <1>2, <1>4
<1>6. /\ k \in S => Bytes(f, S \cup {k}) = Bytes(fsize, S) - fsize[k] + f[k]
      /\ k \notin S => Bytes(f, S \cup {k}) = Bytes(fsize, S) + f[k]
  BY <1>1, <1>5, BytesReplace
<1>7. QED
  BY <1>2, <1>3, <1>4, <1>6

\* The end of bs_block_put_async.
LEMMA PutWriteKeeps ==
    ASSUME Inv, PutWrite
    PROVE  Inv'
<1> USE DEF Inv
<1> DEFINE k == put.key
           z == put.size
<1>1. /\ phase = "purging" /\ Up /\ Running /\ k \in Keys /\ k \in Names /\ z \in 0..MaxBlock
      /\ put.prevsize \in 0..MaxBlock /\ put.wascommitted \in BOOLEAN
      /\ Listed(m_lru) = disk /\ now \in 0..MaxTime
  BY FSBlockStoreAssumption DEF PutWrite, Up, Running, TypeOK, Puts, Names, ListInv
<1>2. /\ disk' = disk \cup {k} /\ fsize' = [fsize EXCEPT ![k] = z]
      /\ mtime' = [mtime EXCEPT ![k] = now] /\ touch_entry(k, now, z) /\ put' = NoPut
      /\ m_committed' = m_committed - PrevCommitted(put) + z
      /\ m_uncommitted' = m_uncommitted - (put.prevsize - PrevCommitted(put))
      /\ resized' = (resized \/ (k \in m_entries /\ esize[k] # z))
      /\ UNCHANGED <<now, m_mark>>
  BY DEF PutWrite, Account
<1>3. ~(m_committed + z + m_uncommitted - PrevCommitted(put) > Capacity)
  BY DEF PutWrite, MustPurge
<1> HIDE DEF k, z
<1>4. /\ PrevCommitted(put) \in Int /\ put.prevsize \in Int /\ z \in Int /\ Capacity \in Int
      /\ m_committed \in Int /\ m_uncommitted \in Int
      /\ PrevCommitted(put) <= put.prevsize /\ PrevCommitted(put) >= 0
      /\ (~put.wascommitted => PrevCommitted(put) = 0)
  BY <1>1, FSBlockStoreAssumption DEF PrevCommitted, TypeOK
<1>5. /\ fsize' \in [Names -> 0..MaxBlock] /\ Bytes(fsize, disk) \in Nat
      /\ k \in disk => Bytes(fsize', disk \cup {k}) = Bytes(fsize, disk) - fsize[k] + z
      /\ k \notin disk => Bytes(fsize', disk \cup {k}) = Bytes(fsize, disk) + z
  BY <1>1, <1>2, WriteBytes
<1>6. ~resized => m_committed + m_uncommitted = Bytes(fsize, disk)
  BY <1>1 DEF ListInv
<1>7. /\ k \in disk => put.prevsize = fsize[k]
      /\ k \notin disk /\ put.prevsize # 0 =>
           k \in m_entries /\ (put.wascommitted /\ ~resized => esize[k] # z)
  BY <1>1 DEF PutInv, k, z
<1>8. WithinCapacity'
  <2> SUFFICES ASSUME ~resized' PROVE Bytes(fsize', disk') <= Capacity
    BY DEF WithinCapacity
  <2>1. ~resized /\ (k \in m_entries => esize[k] = z)
    BY <1>2
  <2>2. m_committed + m_uncommitted = Bytes(fsize, disk)
    BY <1>6, <2>1
  <2>3. Bytes(fsize, disk) - PrevCommitted(put) + z <= Capacity
    BY <1>3, <1>4, <1>5, <2>2
  <2>4. CASE k \in disk
    BY <1>2, <1>4, <1>5, <1>7, <2>3, <2>4
  <2>5. CASE k \notin disk
    <3>1. PrevCommitted(put) = 0
      BY <1>4, <1>7, <2>1, <2>5
    <3>2. QED
      BY <1>2, <1>4, <1>5, <2>3, <2>5, <3>1
  <2>6. QED
    BY <2>4, <2>5
<1>9. m_lru' \in Seq(Names)
  BY <1>1, <1>2, TouchList DEF touch_entry, TypeOK
<1>10. TypeOK'
  <2>1. /\ m_entries' \subseteq Names /\ phase' \in {"idle", "ub"}
        /\ esize' \in [Names -> 0..MaxBlock] /\ tstamp' \in [Names -> 0..MaxTime]
    BY <1>1, <1>2, <1>9, TouchTypes
  <2>2. put' \in Puts
    BY <1>2, FSBlockStoreAssumption DEF NoPut, Puts
  <2>3. m_committed' \in Int /\ m_uncommitted' \in Int
    BY <1>2, <1>4
  <2>4. resized' \in BOOLEAN
    BY <1>2 DEF TypeOK
  <2>5. disk' \subseteq Names /\ mtime' \in [Names -> 0..MaxTime]
    BY <1>1, <1>2 DEF TypeOK
  <2>6. QED
    BY <1>2, <1>5, <1>9, <2>1, <2>2, <2>3, <2>4, <2>5 DEF TypeOK, Phases
<1>11. FilesInv'
  <2>1. \A n \in Names \ Keys : esize'[n] = esize[n] /\ fsize'[n] = fsize[n]
    BY <1>1, <1>2 DEF touch_entry, TypeOK
  <2>2. \A n \in Names : mtime'[n] <= now'
    BY <1>1, <1>2 DEF FilesInv, TypeOK
  <2>3. QED
    BY <2>1, <2>2 DEF FilesInv
<1>12. CASE Dangling(k)
  <2>1. phase' = "ub"
    BY <1>2, <1>12 DEF touch_entry
  <2>2. QED
    BY <1>8, <1>10, <1>11, <2>1 DEF DownInv, Reading, ListInv, PutInv, Running
<1>13. CASE ~Dangling(k)
  <2>1. /\ phase' = "idle"
        /\ esize' = [esize EXCEPT ![k] = IF k \in m_entries THEN @ ELSE z]
    BY <1>2, <1>13 DEF touch_entry
  <2>2. /\ Once(m_lru') /\ Sorted(m_lru', mtime') /\ Listed(m_lru') = Listed(m_lru) \cup {k}
        /\ Listed(m_lru)' \subseteq m_entries'
        /\ \A m \in Listed(m_lru)' : tstamp'[m] = mtime'[m]
    BY <1>1, <1>2, <1>13, TouchList
  <2>3. Listed(m_lru') = disk'
    BY <1>1, <1>2, <2>2
  <2>4. ASSUME ~resized'
        PROVE  /\ \A n \in Listed(m_lru') : esize'[n] = fsize'[n]
               /\ m_committed' + m_uncommitted' = Bytes(fsize', Listed(m_lru'))
    <3>1. ~resized /\ (k \in m_entries => esize[k] = z)
      BY <1>2, <2>4
    <3>2. \A n \in Listed(m_lru) : esize[n] = fsize[n]
      BY <1>1, <3>1 DEF ListInv
    <3>3. esize'[k] = z /\ fsize'[k] = z
      BY <1>1, <1>2, <2>1, <3>1 DEF TypeOK
    <3>4. \A n \in Names \ {k} : esize'[n] = esize[n] /\ fsize'[n] = fsize[n]
      BY <1>1, <1>2, <2>1 DEF TypeOK
    <3>5. \A n \in Listed(m_lru') : esize'[n] = fsize'[n]
      BY <1>1, <2>2, <3>2, <3>3, <3>4 DEF TypeOK
    <3>6. m_committed' + m_uncommitted' = m_committed + m_uncommitted - put.prevsize + z
      BY <1>2, <1>4
    <3>7. m_committed + m_uncommitted = Bytes(fsize, disk)
      BY <1>6, <3>1
    <3>8. k \notin disk => put.prevsize = 0
      BY <1>1, <1>7, <1>13 DEF Dangling
    <3>9. m_committed' + m_uncommitted' = Bytes(fsize', disk \cup {k})
      <4>1. CASE k \in disk
        BY <1>4, <1>5, <1>7, <3>6, <3>7, <4>1
      <4>2. CASE k \notin disk
        BY <1>4, <1>5, <3>6, <3>7, <3>8, <4>2
      <4>3. QED
        BY <4>1, <4>2
    <3>10. QED
      BY <1>2, <2>3, <3>5, <3>9
  <2>5. ListInv'
    BY <2>2, <2>3, <2>4 DEF ListInv
  <2>6. QED
    BY <1>8, <1>10, <1>11, <2>1, <2>5 DEF DownInv, Reading, PutInv
<1>14. QED
  BY <1>12, <1>13

\* The process stops, and what it kept in memory is gone.
LEMMA StopKeeps ==
    ASSUME Inv, Forgotten, phase' = "down", FilesInv', WithinCapacity', disk' \subseteq Names,
           fsize' \in [Names -> 0..MaxBlock], mtime' \in [Names -> 0..MaxTime],
           UNCHANGED <<now, resized>>
    PROVE  Inv'
<1>1. 0 \in 0..MaxBlock /\ 0 \in 0..MaxTime /\ put' \in Puts
  BY FSBlockStoreAssumption DEF Forgotten, NoPut, Puts
<1>2. /\ m_entries' = {} /\ m_lru' = <<>> /\ m_mark' = FALSE
      /\ m_committed' = 0 /\ m_uncommitted' = 0
      /\ esize' = [n \in Names |-> 0] /\ tstamp' = [n \in Names |-> 0]
  BY DEF Forgotten
<1>3. TypeOK'
  <2>1. now' \in 1..MaxTime /\ resized' \in BOOLEAN
    BY DEF Inv, TypeOK
  <2>2. esize' \in [Names -> 0..MaxBlock] /\ tstamp' \in [Names -> 0..MaxTime]
    BY <1>1, <1>2
  <2>3. m_lru' \in Seq(Names) /\ m_mark' \in BOOLEAN
    <3>1. <<>> \in Seq(Names)
      OBVIOUS
    <3>2. m_lru' \in Seq(Names)
      BY <1>2, <3>1
    <3>3. m_mark' \in BOOLEAN
      BY <1>2, Zenon
    <3>4. QED
      BY <3>2, <3>3
  <2>4. QED
    BY <1>1, <1>2, <2>1, <2>2, <2>3 DEF TypeOK, Phases
<1>4. QED
  BY <1>2, <1>3 DEF Inv, DownInv, Reading, ListInv, PutInv, Running

\* A torn write.
LEMMA StopInWriteKeeps ==
    ASSUME Inv, StopInWrite
    PROVE  Inv'
<1> DEFINE k == put.key
<1>1. /\ k \in Keys /\ k \in Names /\ 0 \in 0..MaxBlock /\ now \in 0..MaxTime
  BY FSBlockStoreAssumption DEF Inv, StopInWrite, TypeOK, Names
<1>2. /\ disk' = disk \cup {k} /\ fsize' = [fsize EXCEPT ![k] = 0]
      /\ mtime' = [mtime EXCEPT ![k] = now] /\ phase' = "down" /\ Forgotten
      /\ UNCHANGED <<now, resized>>
  BY DEF StopInWrite
<1> HIDE DEF k
<1>3. PICK z \in 0..MaxBlock : z = 0
  BY <1>1
<1>4. /\ fsize' \in [Names -> 0..MaxBlock] /\ Bytes(fsize, disk) \in Nat
      /\ k \in disk => Bytes(fsize', disk \cup {k}) = Bytes(fsize, disk) - fsize[k] + z
      /\ k \notin disk => Bytes(fsize', disk \cup {k}) = Bytes(fsize, disk) + z
  BY <1>1, <1>2, <1>3, WriteBytes
<1>5. Bytes(fsize', disk') <= Bytes(fsize, disk) /\ Bytes(fsize', disk') \in Int
  <2>1. fsize[k] \in Nat
    BY <1>1, FSBlockStoreAssumption DEF Inv, TypeOK
  <2>2. QED
    BY <1>2, <1>3, <1>4, <2>1
<1>6. WithinCapacity'
  BY <1>2, <1>4, <1>5, FSBlockStoreAssumption DEF Inv, WithinCapacity
<1>7. FilesInv'
  <2>1. \A n \in Names \ Keys : esize'[n] = 0 /\ fsize'[n] = 0
    BY <1>1, <1>2 DEF Inv, FilesInv, Forgotten, TypeOK
  <2>2. \A n \in Names : mtime'[n] <= now'
    BY <1>1, <1>2 DEF Inv, FilesInv, TypeOK
  <2>3. QED
    BY <2>1, <2>2 DEF FilesInv
<1>8. disk' \subseteq Names /\ mtime' \in [Names -> 0..MaxTime]
  BY <1>1, <1>2 DEF Inv, TypeOK
<1>9. QED
  BY <1>2, <1>4, <1>6, <1>7, <1>8, StopKeeps

\* One round of the loop of bs_open.
LEMMA OpenEntryKeeps ==
    ASSUME Inv, OpenEntry
    PROVE  Inv'
<1> USE DEF Inv
<1>1. phase = "opening" /\ Running /\ ~Up /\ UNCHANGED <<disk, fsize, mtime, now, phase, put, resized>>
  BY DEF OpenEntry, files, Running, Up
<1>2. PICK n \in UnreadNewest :
        /\ m_entries' = m_entries \cup {n}
        /\ esize' = [esize EXCEPT ![n] = fsize[n]]
        /\ tstamp' = [tstamp EXCEPT ![n] = mtime[n]]
        /\ m_lru' = Append(m_lru, n)
        /\ m_mark' = (m_mark \/ n = MARK)
        /\ IF m_mark
           THEN m_uncommitted' = m_uncommitted + fsize[n] /\ UNCHANGED m_committed
           ELSE m_committed' = m_committed + (IF n = MARK THEN 0 ELSE fsize[n])
                /\ UNCHANGED m_uncommitted
  BY DEF OpenEntry
<1>3. /\ n \in disk /\ n \notin m_entries /\ \A o \in disk \ m_entries : mtime[n] >= mtime[o]
      /\ n \in Names /\ Listed(m_lru) = m_entries /\ m_entries \subseteq disk
  BY <1>1 DEF UnreadNewest, TypeOK, Reading
<1>4. /\ fsize[n] \in 0..MaxBlock /\ fsize[n] \in Int /\ mtime[n] \in 0..MaxTime
      /\ m_committed \in Int /\ m_uncommitted \in Int
      /\ m_lru \in Seq(Names) /\ Once(m_lru) /\ Sorted(m_lru, mtime)
      /\ fsize \in [Names -> 0..MaxBlock] /\ Listed(m_lru) \subseteq Names
  BY <1>1, <1>3, FSBlockStoreAssumption DEF TypeOK, ListInv
<1>5. /\ m_lru' \in Seq(Names) /\ Once(m_lru') /\ Listed(m_lru') = Listed(m_lru) \cup {n}
      /\ \A i, j \in 1..Len(m_lru') : i < j =>
           /\ i \in 1..Len(m_lru) /\ m_lru'[i] = m_lru[i]
           /\ m_lru'[j] = n \/ (j \in 1..Len(m_lru) /\ m_lru'[j] = m_lru[j])
  <2>1. m_lru' = PushBack(m_lru, n) /\ n \notin Listed(m_lru)
    BY <1>2, <1>3 DEF PushBack
  <2>2. QED
    BY <1>3, <1>4, <2>1, AppendList
<1>6. n \notin Keys => fsize[n] = 0
  BY <1>3 DEF FilesInv
<1>7. /\ m_committed' \in Int /\ m_uncommitted' \in Int
      /\ m_committed' + m_uncommitted' = m_committed + m_uncommitted + fsize[n]
  BY <1>2, <1>4, <1>6, FSBlockStoreAssumption
<1>8. TypeOK'
  <2>1. m_mark' \in BOOLEAN
    BY <1>2
  <2>2. /\ m_entries' \subseteq Names
        /\ esize' \in [Names -> 0..MaxBlock] /\ tstamp' \in [Names -> 0..MaxTime]
    BY <1>2, <1>3, <1>4 DEF TypeOK
  <2>3. QED
    BY <1>1, <1>5, <1>7, <2>1, <2>2 DEF TypeOK
<1>9. FilesInv'
  BY <1>1, <1>2, <1>3, <1>6 DEF FilesInv, TypeOK
<1>10. Reading'
  <2>1. Listed(m_lru') = m_entries' /\ m_entries' \subseteq disk'
    BY <1>1, <1>2, <1>3, <1>5
  <2>2. \A m \in m_entries', o \in disk' \ m_entries' : mtime'[m] >= mtime'[o]
    BY <1>1, <1>2, <1>3 DEF Reading
  <2>3. QED
    BY <2>1, <2>2 DEF Reading
<1>11. Sorted(m_lru', mtime')
  <2> SUFFICES ASSUME NEW i \in 1..Len(m_lru'), NEW j \in 1..Len(m_lru'), i < j
               PROVE  mtime[m_lru'[i]] >= mtime[m_lru'[j]]
    BY <1>1 DEF Sorted
  <2>1. i \in 1..Len(m_lru) /\ m_lru'[i] = m_lru[i] /\ m_lru[i] \in m_entries
    BY <1>3, <1>5 DEF Listed
  <2>2. CASE m_lru'[j] = n
    BY <1>1, <1>3, <2>1, <2>2 DEF Reading
  <2>3. CASE j \in 1..Len(m_lru) /\ m_lru'[j] = m_lru[j]
    BY <1>4, <2>1, <2>3 DEF Sorted
  <2>4. QED
    BY <1>5, <2>2, <2>3
<1>12. ListInv'
  <2>1. \A m \in Listed(m_lru') : tstamp'[m] = mtime'[m]
    BY <1>1, <1>2, <1>3, <1>4, <1>5 DEF ListInv, TypeOK
  <2>2. ASSUME ~resized
        PROVE  /\ \A m \in Listed(m_lru') : esize'[m] = fsize'[m]
               /\ m_committed' + m_uncommitted' = Bytes(fsize', Listed(m_lru'))
    <3>1. \A m \in Listed(m_lru') : esize'[m] = fsize'[m]
      BY <1>1, <1>2, <1>3, <1>4, <1>5, <2>2 DEF ListInv, TypeOK
    <3>2. Bytes(fsize, Listed(m_lru) \cup {n}) = Bytes(fsize, Listed(m_lru)) + fsize[n]
      <4>1. PICK S \in SUBSET Names : S = Listed(m_lru)
        BY <1>4
      <4>2. Bytes(fsize, S \cup {n}) = Bytes(fsize, S) + fsize[n]
        BY <1>3, <1>4, <4>1, BytesReplace
      <4>3. QED
        BY <4>1, <4>2
    <3>3. m_committed + m_uncommitted = Bytes(fsize, Listed(m_lru))
      BY <1>1, <2>2 DEF ListInv
    <3>4. Bytes(fsize', Listed(m_lru')) = Bytes(fsize, Listed(m_lru)) + fsize[n]
      BY <1>1, <1>5, <3>2
    <3>5. QED
      BY <1>7, <3>1, <3>3, <3>4
  <2>3. Listed(m_lru') \subseteq m_entries'
    BY <1>2, <1>3, <1>5
  <2>4. QED
    BY <1>1, <1>5, <1>11, <2>1, <2>2, <2>3 DEF ListInv, Up
<1>13. QED
  BY <1>1, <1>8, <1>9, <1>10, <1>12 DEF DownInv, PutInv, WithinCapacity

\* The RID file becomes the MARK file, its entry the entry of the mark.
LEMMA FinishKeeps ==
    ASSUME Inv, NEW r \in Rids, bs_refresh_finish(r)
    PROVE  Inv'
<1> USE DEF Inv
<1>1. /\ phase = "idle" /\ Running /\ Up /\ r \in disk /\ r \in Names /\ MARK \in Names
      /\ r # MARK /\ r \notin Keys /\ MARK \notin Keys /\ 0 \in 0..MaxTime
      /\ Listed(m_lru) = disk /\ Listed(m_lru) \subseteq m_entries
  BY FSBlockStoreAssumption DEF bs_refresh_finish, Running, Up, Names, ListInv
<1>2. /\ disk' = (disk \ {r}) \cup {MARK} /\ fsize' = fsize
      /\ mtime' = [mtime EXCEPT ![MARK] = mtime[r], ![r] = 0]
      /\ UNCHANGED <<now, put, resized>>
  BY DEF bs_refresh_finish, RenameRid
<1>3. /\ disk \subseteq Names /\ fsize \in [Names -> 0..MaxBlock] /\ mtime \in [Names -> 0..MaxTime]
      /\ esize \in [Names -> 0..MaxBlock]
      /\ fsize[r] = 0 /\ fsize[MARK] = 0 /\ esize[r] = 0 /\ esize[MARK] = 0
  BY <1>1 DEF TypeOK, FilesInv
<1>4. /\ mtime' \in [Names -> 0..MaxTime] /\ mtime'[MARK] = mtime[r]
      /\ \A n \in Names \ {r, MARK} : mtime'[n] = mtime[n]
  BY <1>1, <1>2, <1>3
<1>5. disk' \subseteq Names /\ \A n \in Names : mtime'[n] <= now'
  <2>1. now \in Nat /\ mtime'[r] = 0
    BY <1>1, <1>2, <1>3, FSBlockStoreAssumption DEF TypeOK
  <2>2. QED
    BY <1>1, <1>2, <1>3, <1>4, <2>1 DEF FilesInv
<1>6. Bytes(fsize, disk') = Bytes(fsize, disk)
  <2>1. \A n \in disk' : fsize[n] \in 0..MaxBlock /\ (fsize[n] # 0 => n \in disk)
    BY <1>1, <1>2, <1>3
  <2>2. \A n \in disk : fsize[n] \in 0..MaxBlock /\ (fsize[n] # 0 => n \in disk')
    BY <1>1, <1>2, <1>3
  <2>3. QED
    BY <2>1, <2>2, BytesSame
<1>7. WithinCapacity'
  BY <1>2, <1>6 DEF WithinCapacity
<1>8. CASE Dangling(MARK)
  <2>1. phase' = "ub" /\ UNCHANGED memory
    BY <1>8 DEF bs_refresh_finish
  <2>2. TypeOK'
    BY <1>2, <1>4, <1>5, <2>1 DEF TypeOK, memory, Phases
  <2>3. FilesInv'
    BY <1>2, <1>5, <2>1 DEF FilesInv, memory
  <2>4. QED
    BY <1>7, <2>1, <2>2, <2>3 DEF DownInv, Reading, ListInv, PutInv, Running
<1>9. CASE ~Dangling(MARK)
  <2> DEFINE b == IF MARK \in m_entries THEN Erase(m_lru, MARK) ELSE m_lru
             t == Rename(b, r, MARK)
  <2>1. /\ m_lru' = t /\ m_entries' = (m_entries \ {r}) \cup {MARK}
        /\ tstamp' = [tstamp EXCEPT ![MARK] = tstamp[r], ![r] = 0] /\ m_mark' = TRUE
        /\ m_committed' = Bytes(esize, BeforeMark(t)) /\ m_uncommitted' = Bytes(esize, BehindMark(t))
        /\ phase' = phase /\ esize' = esize
    BY <1>1, <1>9 DEF bs_refresh_finish, ListAfterFinish, Recount
  <2>2. b \in Seq(Names) /\ Once(b) /\ Listed(b) = Listed(m_lru) \ {MARK} /\ Sorted(b, mtime)
    BY <1>1, <1>9, WithoutList
  <2> HIDE DEF b
  <2>3. /\ t \in Seq(Names) /\ Once(t) /\ Len(t) = Len(b)
        /\ Listed(t) = (Listed(b) \ {r}) \cup {MARK}
        /\ \A i \in 1..Len(b) : t[i] = IF b[i] = r THEN MARK ELSE b[i]
    BY <1>1, <2>2, RenameList
  <2> HIDE DEF t
  <2>4. Listed(t) = disk' /\ MARK \in Listed(t) /\ Listed(t) \subseteq Names
    BY <1>1, <1>2, <1>5, <2>2, <2>3
  <2>5. Sorted(t, mtime')
    <3>1. \A i \in 1..Len(b) : b[i] \in Names /\ b[i] # MARK
      <4>1. \A i \in 1..Len(b) : b[i] \in Listed(b)
        BY DEF Listed
      <4>2. QED
        BY <1>1, <1>3, <2>2, <4>1
    <3>2. \A i \in 1..Len(b) : mtime'[t[i]] = mtime[b[i]]
      BY <1>4, <2>3, <3>1
    <3>3. QED
      BY <2>2, <2>3, <3>2 DEF Sorted
  <2>6. /\ IsFiniteSet(BeforeMark(t)) /\ IsFiniteSet(BehindMark(t))
        /\ BeforeMark(t) \cap BehindMark(t) = {}
        /\ BeforeMark(t) \cup BehindMark(t) = Listed(t) \ {MARK}
    <3>1. /\ BeforeMark(t) \cap BehindMark(t) = {}
          /\ BeforeMark(t) \cup BehindMark(t) = Listed(t) \ {MARK}
      BY <2>3, <2>4, MarkSplits
    <3>2. BeforeMark(t) \in SUBSET Names /\ BehindMark(t) \in SUBSET Names
      BY <2>4, <3>1
    <3>3. QED
      BY <3>1, <3>2, FSBlockStoreAssumption, FS_Subset
  <2>7. /\ m_committed' \in Nat /\ m_uncommitted' \in Nat
        /\ m_committed' + m_uncommitted' = Bytes(esize, Listed(t) \ {MARK})
    <3>1. m_committed' \in Nat /\ m_uncommitted' \in Nat
      BY <2>1, <2>6, BytesType
    <3>2. Bytes(esize, BeforeMark(t) \cup BehindMark(t))
            = Bytes(esize, BeforeMark(t)) + Bytes(esize, BehindMark(t))
      BY <2>6, BytesUnion
    <3>3. QED
      BY <2>1, <2>6, <3>1, <3>2
  <2>8. ASSUME ~resized
        PROVE  /\ \A n \in Listed(t) : esize[n] = fsize[n]
               /\ Bytes(esize, Listed(t) \ {MARK}) = Bytes(fsize, Listed(t))
    <3>1. \A n \in Listed(t) : esize[n] = fsize[n]
      BY <1>1, <1>3, <2>2, <2>3, <2>8 DEF ListInv
    <3>2. /\ \A n \in Listed(t) \ {MARK} :
               esize[n] \in 0..MaxBlock /\ (esize[n] # 0 => n \in Listed(t) /\ fsize[n] = esize[n])
          /\ \A n \in Listed(t) :
               fsize[n] \in 0..MaxBlock
                 /\ (fsize[n] # 0 => n \in Listed(t) \ {MARK} /\ fsize[n] = esize[n])
      BY <1>3, <2>4, <3>1
    <3>3. QED
      BY <3>1, <3>2, BytesSame
  <2>9. \A n \in Listed(t) : tstamp'[n] = mtime'[n]
    <3>1. \A n \in disk : tstamp[n] = mtime[n]
      BY <1>1 DEF ListInv
    <3>2. QED
      BY <1>1, <1>2, <1>3, <1>4, <2>1, <2>4, <3>1 DEF TypeOK
  <2>10. Listed(t) \subseteq m_entries'
    BY <1>1, <2>1, <2>2, <2>3
  <2>11. ListInv'
    BY <1>2, <2>1, <2>3, <2>4, <2>5, <2>7, <2>8, <2>9, <2>10 DEF ListInv
  <2>12. TypeOK'
    <3>1. m_entries' \subseteq Names /\ m_mark' \in BOOLEAN
      BY <1>1, <2>1 DEF TypeOK
    <3>2. tstamp' \in [Names -> 0..MaxTime]
      BY <1>1, <2>1 DEF TypeOK
    <3>3. m_lru' \in Seq(Names) /\ m_committed' \in Int /\ m_uncommitted' \in Int
      BY <2>1, <2>3, <2>7
    <3>4. QED
      BY <1>1, <1>2, <1>4, <1>5, <2>1, <3>1, <3>2, <3>3 DEF TypeOK
  <2>13. FilesInv'
    BY <1>2, <1>5, <2>1 DEF FilesInv
  <2>14. QED
    BY <1>1, <1>7, <2>1, <2>11, <2>12, <2>13 DEF DownInv, Reading, PutInv
<1>10. QED
  BY <1>8, <1>9

\* A store that was just created has no files and an empty list.
LEMMA InitInv == Init => Inv
<1> SUFFICES ASSUME Init PROVE Inv
  OBVIOUS
<1> USE DEF Init
<1>1. 0 \in 0..MaxBlock /\ 0 \in 0..MaxTime /\ 1 \in 1..MaxTime /\ Capacity >= 0
  BY FSBlockStoreAssumption
<1>2. put \in Puts
  BY <1>1 DEF NoPut, Puts
<1>3. fsize \in [Names -> 0..MaxBlock] /\ esize \in [Names -> 0..MaxBlock]
      /\ mtime \in [Names -> 0..MaxTime] /\ tstamp \in [Names -> 0..MaxTime]
  BY <1>1
<1>4. m_lru \in Seq(Names) /\ m_mark \in BOOLEAN /\ resized \in BOOLEAN
  <2>1. <<>> \in Seq(Names)
    OBVIOUS
  <2>2. m_mark \in BOOLEAN /\ resized \in BOOLEAN
    BY Zenon
  <2>3. QED
    BY <2>1, <2>2
<1>5. TypeOK
  BY <1>1, <1>2, <1>3, <1>4 DEF TypeOK, Phases
<1>6. FilesInv /\ DownInv /\ Reading /\ ListInv /\ PutInv
  BY DEF FilesInv, DownInv, Reading, ListInv, PutInv, Running
<1>7. Bytes(fsize, disk) = 0
  <2>1. {b \in disk \X (1..MaxBlock) : b[2] <= fsize[b[1]]} = {}
    OBVIOUS
  <2>2. QED
    BY <2>1, FS_EmptySet DEF Bytes
<1>8. WithinCapacity
  BY <1>1, <1>7 DEF WithinCapacity
<1>9. QED
  BY <1>5, <1>6, <1>8 DEF Inv

\* Nothing is on an empty list.
LEMMA EmptyList ==
    ASSUME NEW size
    PROVE  /\ Listed(<<>>) = {} /\ Once(<<>>) /\ Sorted(<<>>, size) /\ Bytes(size, {}) = 0
<1>1. Listed(<<>>) = {} /\ Once(<<>>) /\ Sorted(<<>>, size)
  BY DEF Listed, Once, Sorted
<1>2. {b \in {} \X (1..MaxBlock) : b[2] <= size[b[1]]} = {}
  OBVIOUS
<1>3. Bytes(size, {}) = 0
  BY <1>2, FS_EmptySet DEF Bytes
<1>4. QED
  BY <1>1, <1>3

\* bs_open and bs_create begin with nothing in memory.
LEMMA BeginKeeps ==
    ASSUME Inv, bs_open \/ bs_create
    PROVE  Inv'
<1>1. /\ UNCHANGED <<files, now, put, memory, resized>> /\ phase' \in {"opening", "idle"}
      /\ m_lru = <<>> /\ m_entries = {} /\ m_committed = 0 /\ m_uncommitted = 0
      /\ phase' = "idle" => disk = {}
  BY DEF bs_open, bs_create, Inv, DownInv
<1>2. UNCHANGED <<disk, fsize, mtime, now, put, m_entries, esize, tstamp, m_lru,
                  m_mark, m_committed, m_uncommitted, resized>>
  BY <1>1 DEF files, memory
<1>3. TypeOK'
  BY <1>1, <1>2 DEF Inv, TypeOK, Phases
<1>4. FilesInv' /\ WithinCapacity'
  BY <1>2 DEF Inv, FilesInv, WithinCapacity
<1>5. Listed(m_lru') = {} /\ Once(m_lru') /\ Sorted(m_lru', mtime') /\ Bytes(fsize', {}) = 0
  BY <1>1, <1>2, EmptyList
<1>6. ListInv'
  <2>1. Bytes(fsize', Listed(m_lru')) = 0
    BY <1>5
  <2>2. m_committed' + m_uncommitted' = 0
    BY <1>1, <1>2
  <2>3. Up' => Listed(m_lru') = disk'
    BY <1>1, <1>2, <1>5 DEF Up
  <2>4. QED
    BY <1>5, <2>1, <2>2, <2>3 DEF ListInv
<1>7. Reading'
  BY <1>1, <1>2, <1>5 DEF Reading
<1>8. QED
  BY <1>1, <1>3, <1>4, <1>6, <1>7 DEF Inv, DownInv, PutInv

\* A step that changes no file and nothing in memory, from a list of all files to one.
LEMMA SameKeeps ==
    ASSUME Inv, UNCHANGED <<files, memory, resized>>, now' \in 1..MaxTime, now <= now',
           \/ phase' = phase /\ put' = put
           \/ Running /\ phase' = "idle" /\ put' \in Puts /\ Listed(m_lru) = disk
    PROVE  Inv'
<1>1. UNCHANGED <<disk, fsize, mtime, m_entries, esize, tstamp, m_lru,
                  m_mark, m_committed, m_uncommitted, resized>>
  BY DEF files, memory
<1>2. TypeOK'
  BY <1>1 DEF Inv, TypeOK, Phases
<1>3. WithinCapacity'
  BY <1>1 DEF Inv, WithinCapacity
<1>4. FilesInv'
  <2>1. \A n \in Names : mtime[n] \in Int /\ now \in Int /\ now' \in Int
    BY FSBlockStoreAssumption DEF Inv, TypeOK
  <2>2. \A n \in Names : mtime'[n] <= now'
    BY <1>1, <2>1 DEF Inv, FilesInv
  <2>3. QED
    BY <1>1, <2>2 DEF Inv, FilesInv
<1>5. ListInv'
  BY <1>1 DEF Inv, ListInv, Running, Up
<1>6. QED
  BY <1>1, <1>2, <1>3, <1>4, <1>5 DEF Inv, DownInv, Reading, PutInv

\* destroy.
LEMMA DestroyKeeps ==
    ASSUME Inv, destroy
    PROVE  Inv'
<1>1. /\ phase = "down" /\ phase' = "gone" /\ disk' = {} /\ resized' = FALSE
      /\ fsize' = [n \in Names |-> 0] /\ mtime' = [n \in Names |-> 0]
      /\ UNCHANGED <<now, put, m_entries, esize, tstamp, m_lru, m_mark, m_committed, m_uncommitted>>
  BY DEF destroy, memory
<1>2. /\ 0 \in 0..MaxBlock /\ 0 \in 0..MaxTime /\ now >= 0 /\ Capacity >= 0
  BY FSBlockStoreAssumption DEF Inv, TypeOK
<1>3. fsize' \in [Names -> 0..MaxBlock] /\ mtime' \in [Names -> 0..MaxTime] /\ resized' \in BOOLEAN
  BY <1>1, <1>2
<1>4. TypeOK'
  BY <1>1, <1>3 DEF Inv, TypeOK, Phases
<1>5. FilesInv'
  BY <1>1, <1>2 DEF Inv, FilesInv
<1>6. WithinCapacity'
  BY <1>1, <1>2, EmptyList DEF WithinCapacity
<1>7. QED
  BY <1>1, <1>4, <1>5, <1>6 DEF Inv, DownInv, Reading, ListInv, PutInv, Running

\* Every step keeps the invariant.
LEMMA StepInv == Inv /\ [Next]_vars => Inv'
<1> SUFFICES ASSUME Inv, [Next]_vars PROVE Inv'
  OBVIOUS
<1>1. now \in 1..MaxTime /\ now <= now /\ NoPut \in Puts
  BY FSBlockStoreAssumption DEF Inv, TypeOK, NoPut, Puts
<1>2. ASSUME NEW k \in Keys, NEW size \in Sizes[k], PutStart(k, size) PROVE Inv'
  BY <1>2, PutStartKeeps
<1>3. CASE Purge \/ PutWrite
  BY <1>3, PurgeKeeps, PutWriteKeeps
<1>4. CASE PurgeFails
  <2>1. Running /\ Listed(m_lru) = disk
    BY <1>4 DEF PurgeFails, Inv, ListInv, Running, Up
  <2>2. QED
    BY <1>1, <1>4, <2>1, SameKeeps DEF PurgeFails
<1>5. ASSUME NEW r \in Rids, bs_refresh_start(r) \/ bs_refresh_finish(r) PROVE Inv'
  BY <1>5, RefreshStartKeeps, FinishKeeps
<1>6. ASSUME NEW r \in Rids, NEW k \in Keys, bs_refresh_block(r, k) PROVE Inv'
  BY <1>6, RefreshBlockKeeps
<1>7. CASE Stop
  <2>1. UNCHANGED <<disk, fsize, mtime, now, resized>> /\ Forgotten /\ phase' = "down"
    BY <1>7 DEF Stop, files
  <2>2. FilesInv'
    BY <2>1 DEF Inv, FilesInv, Forgotten
  <2>3. WithinCapacity'
    BY <2>1 DEF Inv, WithinCapacity
  <2>4. QED
    BY <2>1, <2>2, <2>3, StopKeeps DEF Inv, TypeOK
<1>8. CASE StopInWrite
  BY <1>8, StopInWriteKeeps
<1>9. CASE bs_open \/ bs_create
  BY <1>9, BeginKeeps
<1>10. CASE OpenEntry
  BY <1>10, OpenEntryKeeps
<1>11. CASE OpenDone
  <2>1. Running /\ Listed(m_lru) = disk
    BY <1>11 DEF OpenDone, Inv, Reading, Running
  <2>2. QED
    BY <1>1, <1>11, <2>1, SameKeeps DEF OpenDone, Inv, TypeOK
<1>12. CASE destroy
  BY <1>12, DestroyKeeps
<1>13. CASE Tick
  <2>1. now' \in 1..MaxTime /\ now <= now'
    BY <1>1, <1>13, FSBlockStoreAssumption DEF Tick
  <2>2. QED
    BY <1>13, <2>1, SameKeeps DEF Tick
<1>14. CASE UNCHANGED vars
  BY <1>1, <1>14, SameKeeps DEF vars, files, memory
<1>15. QED
  BY <1>2, <1>3, <1>4, <1>5, <1>6, <1>7, <1>8, <1>9, <1>10, <1>11, <1>12, <1>13, <1>14
  DEF Next, PutStep

\* The types, and all that the proofs below use.
LEMMA Invariance == Spec => []Inv
BY InitInv, StepInv, PTL DEF Spec

-----------------------------------------------------------------------------
(* The theorems *)

\* The files never take more than the capacity, through puts, purges, refresh cycles,
\* crashes and torn writes (bs_block_put_async and purge_uncommitted).
THEOREM WithinCapacityHolds == Spec => []WithinCapacity
<1>1. Inv => WithinCapacity
  BY DEF Inv
<1>2. QED
  BY Invariance, <1>1, PTL

\* The list holds the files, each once, and the counts add up to their bytes.
THEOREM AccountsBalanceHolds == Spec => []AccountsBalance
<1>1. Inv => AccountsBalance
  <2> SUFFICES ASSUME Inv, Up PROVE AccountsBalance
    BY DEF AccountsBalance
  <2>1. /\ Once(m_lru) /\ Listed(m_lru) = disk /\ m_lru \in Seq(Names)
        /\ ~resized => m_committed + m_uncommitted = Bytes(fsize, Listed(m_lru))
    BY DEF Inv, ListInv, Running, Up, TypeOK
  <2>2. Cardinality(Listed(m_lru)) = Len(m_lru)
    BY <2>1, ListLength
  <2>3. QED
    BY <2>1, <2>2 DEF AccountsBalance
<1>2. QED
  BY Invariance, <1>1, PTL

\* The list is ordered by the times of the files, through touches, renames and restarts
\* (touch_entry, bs_refresh_finish_async, bs_open).
THEOREM ListInOrderHolds == Spec => []ListInOrder
<1>1. Inv => ListInOrder
  BY DEF Inv, ListInv, Running, Up, ListInOrder, Sorted
<1>2. QED
  BY Invariance, <1>1, PTL

\* No step but destroy takes a block that is newer than the mark (purge_uncommitted).
THEOREM NewerThanMarkKeptHolds == Spec => NewerThanMarkKept
<1> DEFINE Kept == \A k \in Keys : k \in disk /\ k \notin disk' /\ phase' # "gone" =>
                      m_mark /\ mtime[k] <= tstamp[MARK]
<1>1. Inv /\ [Next]_vars => [Kept]_vars
  <2> SUFFICES ASSUME Inv, Next PROVE Kept
    OBVIOUS
  <2>1. CASE Purge
    <3> SUFFICES ASSUME NEW k \in Keys, k \in disk, k \notin disk'
                 PROVE  m_mark /\ mtime[k] <= tstamp[MARK]
      OBVIOUS
    <3>1. k = Oldest /\ m_mark /\ tstamp[Oldest] <= tstamp[MARK] /\ phase = "purging"
      BY <2>1 DEF Purge, MayPurge
    <3>2. k \in Listed(m_lru) /\ tstamp[k] = mtime[k]
      BY <3>1 DEF Inv, ListInv, Running, Up
    <3>3. QED
      BY <3>1, <3>2
  <2>2. CASE destroy
    BY <2>2 DEF destroy
  <2>3. ASSUME NEW r \in Rids, bs_refresh_finish(r) PROVE Kept
    BY <2>3, FSBlockStoreAssumption DEF bs_refresh_finish, RenameRid
  <2>4. CASE ~Purge /\ ~destroy /\ ~\E r \in Rids : bs_refresh_finish(r)
    <3>1. disk \subseteq disk'
      BY <2>4 DEF Next, PutStep, PutStart, PurgeFails, PutWrite, bs_refresh_start, bs_refresh_block,
         Stop, StopInWrite, bs_open, OpenEntry, OpenDone, bs_create, Tick, files
    <3>2. QED
      BY <3>1
  <2>5. QED
    BY <2>1, <2>2, <2>3, <2>4
<1>2. QED
  BY Invariance, <1>1, PTL DEF Spec, NewerThanMarkKept
=============================================================================
