------------------------- MODULE BDBBlockStoreProofs -------------------------
(***************************************************************************)
(* Theorems about the blocking calls over BDBBlockStore, for any callers,  *)
(* keys and refresh ids and any number of calls.                           *)
(*                                                                         *)
(* NoLateTouch is not inductive.  It needs that m_count is the number of   *)
(* the keys not yet handed over and of the jobs that have not yet counted  *)
(* down, so that the job that calls done() is the last; and that an        *)
(* exception, which unwinds the call, only comes in the caller's own       *)
(* thread, when no other job has its completion.                           *)
(***************************************************************************)
EXTENDS BDBBlockStore, FiniteSetTheorems, TLAPS

Ops == {"get", "put", "insert", "follow", "furthest", "start", "finish", "block"}
AllKeys == Keys \cup Rids \cup {Tag}
Places == {"start", "del", "put", "good", "bad", "done"}
JobType == [by : Callers, op : Ops, key : AllKeys, pc : Places]
CallType == [op : Ops \cup {"none"}, rid : Rids \cup {0}, pc : {"idle", "issue", "wait", "asleep"},
             todo : SUBSET AllKeys, m_count : Int, m_complete : BOOLEAN, m_except : BOOLEAN]

TypeOK ==
    /\ direct \in BOOLEAN
    /\ call \in [Callers -> CallType]
    /\ jobs \subseteq JobType
    /\ main \subseteq AllKeys /\ ids \subseteq AllKeys /\ kept \subseteq AllKeys

\* The jobs of c that have not counted down.
Pending(c) == {j \in JobsOf(c) : j.pc # "done"}

AtMostOneJob(c) == \A i, j \in JobsOf(c) : i = j

\* A call and its jobs name different keys, each once.
KeysApart(c) ==
    /\ \A i, j \in JobsOf(c) : i.key = j.key => i = j
    /\ \A j \in JobsOf(c) : j.key \notin call[c].todo

Shape(c) ==
    /\ IsFiniteSet(call[c].todo) /\ IsFiniteSet(JobsOf(c))
    /\ call[c].pc = "issue" <=> call[c].todo # {}
    /\ call[c].pc = "idle" <=> call[c].op = "none"
    /\ call[c].m_complete => JobsOf(c) = {} /\ call[c].todo = {}

\* Calls with one key have it in todo or in one job.
OneKey(c) ==
    call[c].op # "block" =>
        /\ AtMostOneJob(c)
        /\ call[c].todo # {} => JobsOf(c) = {} /\ \E k : call[c].todo = {k}

\* bs_refresh_blocks: m_count is exact, and only the last to count down is at done().
Counted(c) ==
    call[c].op = "block" =>
        /\ call[c].m_count = Cardinality(call[c].todo) + Cardinality(Pending(c))
        /\ \A j \in JobsOf(c) : j.pc \in {"start", "good", "done"}
        /\ \A j \in JobsOf(c) : j.pc = "done" => call[c].m_count = 0
        /\ \A i, j \in JobsOf(c) : i.pc = "done" /\ j.pc = "done" => i = j

\* Who may be thrown at.
Thrown(c) ==
    /\ direct => AtMostOneJob(c)
    /\ ~direct /\ call[c].pc # "idle" =>
         phase = "open" /\ (call[c].op = "block" => call[c].rid \in ids)

CallInv(c) == KeysApart(c) /\ Shape(c) /\ OneKey(c) /\ Counted(c) /\ Thrown(c)

Inv == TypeOK /\ NoLateTouch /\ \A c \in Callers : CallInv(c)

-----------------------------------------------------------------------------
\* Before the first call there are no jobs and nothing is counted.
LEMMA InitInv == Init => Inv
<1> SUFFICES ASSUME Init PROVE Inv
  OBVIOUS
<1>1. TypeOK
  BY DEF Init, BlockingInit, TypeOK, CallType, Idle
<1>2. NoLateTouch
  BY DEF Init, BlockingInit, NoLateTouch
<1>3. ASSUME NEW c \in Callers PROVE CallInv(c)
  <2>1. JobsOf(c) = {} /\ call[c] = Idle
    BY DEF Init, BlockingInit, JobsOf
  <2>2. QED
    BY <2>1, FS_EmptySet DEF CallInv, KeysApart, Shape, OneKey, Counted, Thrown, AtMostOneJob, Idle
<1>4. QED
  BY <1>1, <1>2, <1>3 DEF Inv

\* What a step leaves to another caller.
LEMMA Frame ==
    ASSUME NEW c \in Callers, CallInv(c), direct' = direct, call'[c] = call[c],
           JobsOf(c)' = JobsOf(c),
           ~direct /\ call[c].pc # "idle" => phase' = phase /\ ids \subseteq ids'
    PROVE  CallInv(c)'
BY DEF CallInv, KeysApart, Shape, OneKey, Counted, Thrown, AtMostOneJob, Pending

\* A job goes on to a place before done().
LEMMA GotoKeeps ==
    ASSUME Inv, NEW j \in jobs, NEW pc \in Places \ {"done"}, Goto(j, pc), j.pc # "done",
           j.op = "block" => pc = "good",
           call' = call, direct' = direct, phase' = phase, ids \subseteq ids'
    PROVE  jobs' \subseteq JobType /\ NoLateTouch' /\ \A c \in Callers : CallInv(c)'
<1> DEFINE n == [j EXCEPT !.pc = pc]
           c == j.by
<1>1. j \in JobType /\ c \in Callers /\ jobs \subseteq JobType /\ call[c].op = j.op
  BY DEF Inv, TypeOK, NoLateTouch, JobType
<1>2. n \in JobType /\ n.by = c /\ n.op = j.op /\ n.key = j.key /\ n.pc = pc
  BY <1>1 DEF JobType
<1>3. jobs' = (jobs \ {j}) \cup {n}
  BY DEF Goto
<1>4. jobs' \subseteq JobType /\ NoLateTouch'
  BY <1>1, <1>2, <1>3 DEF Inv, NoLateTouch
<1>5. ASSUME NEW d \in Callers, d # c PROVE CallInv(d)'
  <2>1. JobsOf(d)' = JobsOf(d)
    BY <1>2, <1>3, <1>5 DEF JobsOf
  <2>2. QED
    BY <2>1, Frame DEF Inv
<1>6. CallInv(c)'
  <2>1. JobsOf(c)' = (JobsOf(c) \ {j}) \cup {n} /\ j \in JobsOf(c)
    BY <1>2, <1>3 DEF JobsOf
  <2>2. CallInv(c) /\ call'[c] = call[c]
    BY <1>1 DEF Inv
  <2>3. KeysApart(c)'
    BY <1>2, <2>1, <2>2 DEF CallInv, KeysApart
  <2>4. IsFiniteSet(JobsOf(c)) /\ IsFiniteSet(JobsOf(c) \ {j}) /\ IsFiniteSet(JobsOf(c)')
    <3>1. IsFiniteSet(JobsOf(c))
      BY <2>2 DEF CallInv, Shape
    <3>2. IsFiniteSet(JobsOf(c) \ {j})
      BY <3>1, FS_RemoveElement
    <3>3. IsFiniteSet((JobsOf(c) \ {j}) \cup {n})
      BY <3>2, FS_AddElement
    <3>4. QED
      BY <2>1, <3>1, <3>2, <3>3
  <2>5. Shape(c)'
    BY <2>1, <2>2, <2>4 DEF CallInv, Shape
  <2>6. OneKey(c)' /\ Thrown(c)'
    BY <2>1, <2>2 DEF CallInv, OneKey, Thrown, AtMostOneJob
  <2>7. Counted(c)'
    <3> SUFFICES ASSUME j.op = "block" PROVE Counted(c)'
      BY <1>1, <2>2 DEF Counted
    <3>1. pc = "good" /\ j \in Pending(c)
      BY <2>1 DEF Pending
    <3>2. Pending(c)' = (Pending(c) \ {j}) \cup {n}
      BY <1>2, <2>1, <3>1 DEF Pending
    <3>3. n \notin Pending(c) \ {j}
      BY <1>2, <2>1, <2>2 DEF CallInv, KeysApart, Pending
    <3>4. IsFiniteSet(Pending(c))
      BY <2>4, FS_Subset DEF Pending
    <3>5. Cardinality(Pending(c)') = Cardinality(Pending(c))
      <4>1. /\ IsFiniteSet(Pending(c) \ {j})
            /\ Cardinality(Pending(c) \ {j}) = Cardinality(Pending(c)) - 1
        BY <3>1, <3>4, FS_RemoveElement
      <4>2. Cardinality(Pending(c)') = Cardinality(Pending(c)) - 1 + 1
        BY <3>2, <3>3, <4>1, FS_AddElement
      <4>3. Cardinality(Pending(c)) \in Nat
        BY <3>4, FS_CardinalityType
      <4>4. QED
        BY <4>2, <4>3
    <3>6. QED
      BY <1>1, <1>2, <2>1, <2>2, <3>1, <3>5 DEF CallInv, Counted
  <2>8. QED
    BY <2>3, <2>5, <2>6, <2>7 DEF CallInv
<1>7. QED
  BY <1>4, <1>5, <1>6

\* A call that has no job left and nothing to hand over.
LEMMA Quit ==
    ASSUME NEW c \in Callers, JobsOf(c)' = {}, call'[c] = Idle
    PROVE  CallInv(c)'
BY FS_EmptySet DEF CallInv, KeysApart, Shape, OneKey, Counted, Thrown, AtMostOneJob, Idle

\* An exception meets a call whose only job is the one that throws.
LEMMA ThrowKeeps ==
    ASSUME Inv, NEW j \in jobs, Throw(j), direct, UNCHANGED store
    PROVE  jobs' \subseteq JobType /\ NoLateTouch' /\ \A c \in Callers : CallInv(c)'
<1> DEFINE c == j.by
<1>1. c \in Callers /\ jobs \subseteq JobType /\ call \in [Callers -> CallType] /\ CallInv(c)
  BY DEF Inv, TypeOK, JobType
<1>2. jobs' = jobs \ {j} /\ call' = [call EXCEPT ![c] = Idle] /\ direct' = direct
  BY DEF Throw
<1>3. JobsOf(c) = {j} /\ JobsOf(c)' = {}
  BY <1>1, <1>2 DEF CallInv, Thrown, AtMostOneJob, JobsOf
<1>4. CallInv(c)'
  BY <1>1, <1>2, <1>3, Quit
<1>5. ASSUME NEW d \in Callers, d # c PROVE CallInv(d)'
  BY <1>1, <1>2, <1>5, Frame DEF Inv, JobsOf, store
<1>6. NoLateTouch'
  BY <1>1, <1>2, <1>3 DEF Inv, NoLateTouch, JobsOf, JobType
<1>7. QED
  BY <1>1, <1>2, <1>4, <1>5, <1>6

\* done() wakes the caller: the job that calls it is the last that has the completion.
LEMMA DoneKeeps ==
    ASSUME Inv, NEW j \in jobs, done(j), UNCHANGED store
    PROVE  TypeOK' /\ NoLateTouch' /\ \A c \in Callers : CallInv(c)'
<1> DEFINE c == j.by
<1>1. /\ c \in Callers /\ jobs \subseteq JobType /\ call \in [Callers -> CallType]
      /\ CallInv(c) /\ j \in JobsOf(c) /\ call[c].op = j.op /\ j.op \in Ops
  BY DEF Inv, TypeOK, JobType, NoLateTouch, JobsOf
<1>2. /\ jobs' = jobs \ {j} /\ direct' = direct
      /\ call' = [call EXCEPT ![c].m_complete = TRUE,
                              ![c].pc = IF @ = "asleep" THEN "wait" ELSE @]
  BY DEF done
<1>3. JobsOf(c) = {j} /\ call[c].todo = {}
  <2>1. CASE j.op = "block"
    <3>1. j.pc = "done" /\ call[c].m_count = 0
      BY <1>1, <2>1 DEF done, CallInv, Counted
    <3>2. /\ IsFiniteSet(Pending(c)) /\ IsFiniteSet(call[c].todo)
      BY <1>1, FS_Subset DEF CallInv, Shape, Pending
    <3>3. /\ Cardinality(Pending(c)) \in Nat /\ Cardinality(call[c].todo) \in Nat
          /\ Cardinality(Pending(c)) = 0 /\ Cardinality(call[c].todo) = 0
      <4>1. Cardinality(Pending(c)) \in Nat /\ Cardinality(call[c].todo) \in Nat
        BY <3>2, FS_CardinalityType
      <4>2. Cardinality(Pending(c)) + Cardinality(call[c].todo) = 0
        BY <1>1, <2>1, <3>1, <4>1 DEF CallInv, Counted
      <4>3. QED
        BY <4>1, <4>2
    <3>4. Pending(c) = {} /\ call[c].todo = {}
      BY <3>2, <3>3, FS_EmptySet
    <3>5. QED
      BY <1>1, <2>1, <3>1, <3>4 DEF CallInv, Counted, Pending
  <2>2. CASE j.op # "block"
    BY <1>1, <2>2 DEF CallInv, OneKey, AtMostOneJob
  <2>3. QED
    BY <2>1, <2>2
<1>4. JobsOf(c)' = {}
  BY <1>2, <1>3 DEF JobsOf
<1>5. /\ call'[c] \in CallType /\ call' \in [Callers -> CallType]
      /\ call'[c].todo = {} /\ call'[c].op = call[c].op
      /\ call'[c].pc # "issue" /\ call'[c].pc # "idle"
  <2>1. call[c] \in CallType
    BY <1>1
  <2>2. call'[c] = [call[c] EXCEPT !.m_complete = TRUE,
                                   !.pc = IF @ = "asleep" THEN "wait" ELSE @]
    BY <1>1, <1>2
  <2>3. /\ call'[c] \in CallType /\ call'[c].todo = call[c].todo /\ call'[c].op = call[c].op
        /\ call'[c].pc = IF call[c].pc = "asleep" THEN "wait" ELSE call[c].pc
    BY <2>1, <2>2 DEF CallType
  <2>4. call[c].pc # "issue" /\ call[c].pc # "idle"
    BY <1>1, <1>3 DEF CallInv, Shape, Ops
  <2>5. call' \in [Callers -> CallType]
    BY <1>1, <1>2, <2>2, <2>3
  <2>6. QED
    BY <1>3, <2>3, <2>4, <2>5
<1>6. CallInv(c)'
  <2>0. call'[c].rid = call[c].rid /\ call'[c].m_count = call[c].m_count
    BY <1>1, <1>2 DEF CallType
  <2>1. KeysApart(c)' /\ Shape(c)' /\ OneKey(c)'
    BY <1>1, <1>4, <1>5, FS_EmptySet DEF KeysApart, Shape, OneKey, AtMostOneJob, CallInv, Ops
  <2>2. Counted(c)'
    <3> SUFFICES ASSUME call[c].op = "block" PROVE Counted(c)'
      BY <1>5 DEF Counted
    <3>1. Pending(c)' = {}
      BY <1>4 DEF Pending
    <3>2. call[c].m_count = 0
      BY <1>1 DEF done, CallInv, Counted
    <3>3. QED
      BY <1>4, <1>5, <2>0, <3>1, <3>2, FS_EmptySet DEF Counted
  <2>3. Thrown(c)'
    BY <1>1, <1>2, <1>4, <1>5, <2>0 DEF Thrown, CallInv, AtMostOneJob, store, Shape, Ops
  <2>4. QED
    BY <2>1, <2>2, <2>3 DEF CallInv
<1>7. ASSUME NEW d \in Callers, d # c PROVE CallInv(d)'
  BY <1>1, <1>2, <1>7, Frame DEF Inv, JobsOf, store
<1>8. NoLateTouch'
  BY <1>1, <1>2, <1>4 DEF Inv, NoLateTouch, JobsOf, JobType
<1>9. TypeOK'
  BY <1>1, <1>2, <1>5 DEF Inv, TypeOK, store
<1>10. QED
  BY <1>6, <1>7, <1>8, <1>9

\* An error, remembered in the completion, ends the job's own key and nothing else.
LEMMA ErrorKeeps ==
    ASSUME Inv, NEW j \in jobs, error(j), UNCHANGED store
    PROVE  TypeOK' /\ NoLateTouch' /\ \A c \in Callers : CallInv(c)'
<1> DEFINE n == [j EXCEPT !.pc = "done"]
           c == j.by
<1>1. /\ j \in JobType /\ c \in Callers /\ jobs \subseteq JobType
      /\ call \in [Callers -> CallType] /\ call[c] \in CallType
      /\ CallInv(c) /\ j \in JobsOf(c) /\ call[c].op = j.op
  BY DEF Inv, TypeOK, JobType, NoLateTouch, JobsOf
<1>2. /\ jobs' = (jobs \ {j}) \cup {n} /\ direct' = direct
      /\ call' = [call EXCEPT ![c].m_except = TRUE]
  BY DEF error, Goto
<1>3. n \in JobType /\ n.by = c /\ n.op = j.op /\ n.key = j.key
  BY <1>1 DEF JobType, Places
<1>4. call'[c] = [call[c] EXCEPT !.m_except = TRUE]
  BY <1>1, <1>2
<1>5. /\ call'[c] \in CallType /\ call'[c].op = call[c].op /\ call'[c].pc = call[c].pc
      /\ call'[c].todo = call[c].todo /\ call'[c].rid = call[c].rid
      /\ call'[c].m_complete = call[c].m_complete
  BY <1>1, <1>4 DEF CallType
<1>6. j.op # "block"
  BY <1>1 DEF error, CallInv, Counted
<1>7. JobsOf(c) = {j} /\ JobsOf(c)' = {n}
  <2>1. JobsOf(c) = {j}
    BY <1>1, <1>6 DEF CallInv, OneKey, AtMostOneJob
  <2>2. QED
    BY <1>2, <1>3, <2>1 DEF JobsOf
<1>8. CallInv(c)'
  <2>1. KeysApart(c)'
    BY <1>1, <1>3, <1>5, <1>7 DEF CallInv, KeysApart
  <2>2. IsFiniteSet(JobsOf(c)')
    <3>1. IsFiniteSet({n})
      BY FS_Singleton
    <3>2. QED
      BY <1>7, <3>1
  <2>3. Shape(c)'
    BY <1>1, <1>5, <1>7, <2>2 DEF CallInv, Shape
  <2>4. OneKey(c)' /\ Counted(c)'
    BY <1>1, <1>5, <1>6, <1>7 DEF CallInv, OneKey, Counted, AtMostOneJob
  <2>5. Thrown(c)'
    BY <1>1, <1>2, <1>5, <1>7 DEF CallInv, Thrown, AtMostOneJob, store
  <2>6. QED
    BY <2>1, <2>3, <2>4, <2>5 DEF CallInv
<1>9. ASSUME NEW d \in Callers, d # c PROVE CallInv(d)'
  <2>1. JobsOf(d)' = JobsOf(d)
    BY <1>2, <1>3, <1>9 DEF JobsOf
  <2>2. QED
    BY <1>1, <1>2, <1>9, <2>1, Frame DEF Inv, store
<1>10. TypeOK'
  BY <1>1, <1>2, <1>3, <1>5 DEF Inv, TypeOK, store
<1>11. NoLateTouch'
  BY <1>1, <1>2, <1>3, <1>5 DEF Inv, NoLateTouch, JobType
<1>12. QED
  BY <1>8, <1>9, <1>10, <1>11

\* rb_complete counts the key down, and the last one goes on to done().
LEMMA CountDownKeeps ==
    ASSUME Inv, NEW j \in jobs, rb_complete(j), UNCHANGED store
    PROVE  TypeOK' /\ NoLateTouch' /\ \A c \in Callers : CallInv(c)'
<1> DEFINE n == [j EXCEPT !.pc = "done"]
           c == j.by
           new == IF call[c].m_count = 1 THEN {n} ELSE {}
<1>1. /\ j \in JobType /\ c \in Callers /\ jobs \subseteq JobType
      /\ call \in [Callers -> CallType] /\ call[c] \in CallType
      /\ CallInv(c) /\ j \in JobsOf(c) /\ call[c].op = "block" /\ j.op = "block" /\ j.pc = "good"
  BY DEF Inv, TypeOK, JobType, NoLateTouch, JobsOf, rb_complete
<1>2. /\ jobs' = (jobs \ {j}) \cup new /\ direct' = direct
      /\ call' = [call EXCEPT ![c].m_count = @ - 1]
  BY DEF rb_complete, Goto
<1>3. n \in JobType /\ n.by = c /\ n.op = j.op /\ n.key = j.key /\ n.pc = "done"
  BY <1>1 DEF JobType, Places
<1>4. call'[c] = [call[c] EXCEPT !.m_count = @ - 1]
  BY <1>1, <1>2
<1>5. /\ call'[c] \in CallType /\ call'[c].op = call[c].op /\ call'[c].pc = call[c].pc
      /\ call'[c].todo = call[c].todo /\ call'[c].rid = call[c].rid
      /\ call'[c].m_complete = call[c].m_complete /\ call'[c].m_count = call[c].m_count - 1
  BY <1>1, <1>4 DEF CallType
<1>6. JobsOf(c)' = (JobsOf(c) \ {j}) \cup new
  BY <1>2, <1>3 DEF JobsOf
<1>7. Pending(c)' = Pending(c) \ {j} /\ j \in Pending(c)
  BY <1>1, <1>3, <1>6 DEF Pending
<1>8. /\ IsFiniteSet(Pending(c)) /\ Cardinality(Pending(c)) \in Nat
      /\ Cardinality(Pending(c)') = Cardinality(Pending(c)) - 1
  <2>1. IsFiniteSet(Pending(c))
    BY <1>1, FS_Subset DEF CallInv, Shape, Pending
  <2>2. QED
    BY <1>7, <2>1, FS_CardinalityType, FS_RemoveElement
<1>9. Cardinality(call[c].todo) \in Nat
  BY <1>1, FS_CardinalityType DEF CallInv, Shape
<1>10. /\ call[c].m_count = Cardinality(call[c].todo) + Cardinality(Pending(c))
       /\ call[c].m_count \in Int
  BY <1>1 DEF CallInv, Counted, CallType
<1>11. \A i \in JobsOf(c) : i.pc # "done"
  <2>1. Cardinality(Pending(c)) # 0
    BY <1>7, <1>8, FS_EmptySet
  <2>2. call[c].m_count # 0
    BY <1>8, <1>9, <1>10, <2>1
  <2>3. QED
    BY <1>1, <2>2 DEF CallInv, Counted
<1>12. CallInv(c)'
  <2>1. KeysApart(c)'
    <3>1. \A i \in JobsOf(c)' : i \in JobsOf(c) \ {j} \/ i = n
      BY <1>6
    <3>2. KeysApart(c)
      BY <1>1 DEF CallInv
    <3>3. ASSUME NEW i \in JobsOf(c)' PROVE i.key \notin call'[c].todo
      BY <1>1, <1>3, <1>5, <3>1, <3>2 DEF KeysApart
    <3>4. ASSUME NEW i \in JobsOf(c)', NEW l \in JobsOf(c)', i.key = l.key PROVE i = l
      BY <1>1, <1>3, <3>1, <3>2, <3>4 DEF KeysApart
    <3>5. QED
      BY <3>3, <3>4 DEF KeysApart
  <2>2. IsFiniteSet(JobsOf(c)')
    <3>1. IsFiniteSet(JobsOf(c) \ {j})
      BY <1>1, FS_RemoveElement DEF CallInv, Shape
    <3>2. IsFiniteSet((JobsOf(c) \ {j}) \cup {n})
      BY <3>1, FS_AddElement
    <3>3. JobsOf(c)' = JobsOf(c) \ {j} \/ JobsOf(c)' = (JobsOf(c) \ {j}) \cup {n}
      BY <1>6
    <3>4. QED
      BY <3>1, <3>2, <3>3
  <2>3. Shape(c)'
    BY <1>1, <1>5, <1>6, <2>2 DEF CallInv, Shape
  <2>4. OneKey(c)'
    BY <1>1, <1>5 DEF OneKey
  <2>5. Counted(c)'
    <3>1. call'[c].m_count = Cardinality(call'[c].todo) + Cardinality(Pending(c)')
      BY <1>5, <1>8, <1>9, <1>10
    <3>2. \A i \in JobsOf(c)' : i.pc \in {"start", "good", "done"}
      BY <1>1, <1>3, <1>6 DEF CallInv, Counted
    <3>3. \A i \in JobsOf(c)' : i.pc = "done" => i = n /\ call[c].m_count = 1
      BY <1>6, <1>11
    <3>4. QED
      BY <1>5, <1>10, <3>1, <3>2, <3>3 DEF Counted
  <2>6. Thrown(c)'
    BY <1>1, <1>2, <1>5, <1>6 DEF CallInv, Thrown, AtMostOneJob, store
  <2>7. QED
    BY <2>1, <2>3, <2>4, <2>5, <2>6 DEF CallInv
<1>13. ASSUME NEW d \in Callers, d # c PROVE CallInv(d)'
  <2>1. JobsOf(d)' = JobsOf(d)
    BY <1>2, <1>3, <1>13 DEF JobsOf
  <2>2. QED
    BY <1>1, <1>2, <1>13, <2>1, Frame DEF Inv, store
<1>14. TypeOK'
  BY <1>1, <1>2, <1>3, <1>5 DEF Inv, TypeOK, store
<1>15. NoLateTouch'
  BY <1>1, <1>2, <1>3, <1>5 DEF Inv, NoLateTouch, JobType
<1>16. QED
  BY <1>12, <1>13, <1>14, <1>15

\* A key that is handed over moves from the keys to come to the jobs.
LEMMA IssueKeeps ==
    ASSUME Inv, NEW c \in Callers, Issue(c), UNCHANGED store
    PROVE  TypeOK' /\ NoLateTouch' /\ \A d \in Callers : CallInv(d)'
<1>1. PICK k \in call[c].todo :
        /\ jobs' = jobs \cup {[by |-> c, op |-> call[c].op, key |-> k, pc |-> "start"]}
        /\ call' = [call EXCEPT ![c].todo = @ \ {k},
                                ![c].pc = IF call[c].todo = {k} THEN "wait" ELSE "issue"]
  BY DEF Issue
<1> DEFINE n == [by |-> c, op |-> call[c].op, key |-> k, pc |-> "start"]
<1>2. /\ call \in [Callers -> CallType] /\ call[c] \in CallType /\ CallInv(c)
      /\ call[c].pc = "issue" /\ direct' = direct /\ (direct => JobsOf(c) = {})
      /\ jobs \subseteq JobType
  BY DEF Inv, TypeOK, Issue, Free
<1>3. call[c].op \in Ops /\ n \in JobType /\ n.by = c /\ n.op = call[c].op /\ n.key = k /\ n.pc = "start"
  BY <1>2 DEF CallInv, Shape, JobType, CallType, Places
<1>4. call'[c] = [call[c] EXCEPT !.todo = @ \ {k},
                                 !.pc = IF call[c].todo = {k} THEN "wait" ELSE "issue"]
  BY <1>1, <1>2
<1>5. /\ call'[c] \in CallType /\ call'[c].op = call[c].op
      /\ call'[c].pc = IF call[c].todo = {k} THEN "wait" ELSE "issue"
      /\ call'[c].todo = call[c].todo \ {k} /\ call'[c].rid = call[c].rid
      /\ call'[c].m_complete = call[c].m_complete /\ call'[c].m_count = call[c].m_count
  <2> DEFINE p == IF call[c].todo = {k} THEN "wait" ELSE "issue"
  <2>1. p \in {"idle", "issue", "wait", "asleep"} /\ call[c].todo \ {k} \in SUBSET AllKeys
    BY <1>2 DEF CallType
  <2>2. call'[c] = [call[c] EXCEPT !.todo = @ \ {k}, !.pc = p]
    BY <1>4
  <2> HIDE DEF p
  <2>3. /\ call'[c] \in CallType /\ call'[c].op = call[c].op /\ call'[c].pc = p
        /\ call'[c].todo = call[c].todo \ {k} /\ call'[c].rid = call[c].rid
        /\ call'[c].m_complete = call[c].m_complete /\ call'[c].m_count = call[c].m_count
    BY <1>2, <2>1, <2>2 DEF CallType
  <2>4. QED
    BY <2>3 DEF p
<1>6. JobsOf(c)' = JobsOf(c) \cup {n}
  BY <1>1, <1>3 DEF JobsOf
<1>7. n \notin JobsOf(c)
  BY <1>1, <1>2, <1>3 DEF CallInv, KeysApart
<1>8. CallInv(c)'
  <2>1. KeysApart(c)'
    BY <1>1, <1>2, <1>3, <1>5, <1>6 DEF CallInv, KeysApart
  <2>2. IsFiniteSet(JobsOf(c)') /\ IsFiniteSet(call'[c].todo)
    <3>1. IsFiniteSet(JobsOf(c) \cup {n}) /\ IsFiniteSet(call[c].todo \ {k})
      BY <1>2, FS_AddElement, FS_RemoveElement DEF CallInv, Shape
    <3>2. QED
      BY <1>5, <1>6, <3>1
  <2>3. Shape(c)'
    <3>1. ~call[c].m_complete
      BY <1>1, <1>2 DEF CallInv, Shape
    <3>2. call'[c].todo = {} <=> call[c].todo = {k}
      BY <1>1, <1>5
    <3>3. QED
      BY <1>2, <1>3, <1>5, <2>2, <3>1, <3>2 DEF Shape, Ops
  <2>4. OneKey(c)'
    BY <1>1, <1>2, <1>5, <1>6 DEF CallInv, OneKey, AtMostOneJob
  <2>5. Counted(c)'
    <3> SUFFICES ASSUME call[c].op = "block" PROVE Counted(c)'
      BY <1>5 DEF Counted
    <3>1. Pending(c)' = Pending(c) \cup {n} /\ n \notin Pending(c)
      BY <1>3, <1>6, <1>7 DEF Pending
    <3>2. IsFiniteSet(Pending(c)) /\ IsFiniteSet(call[c].todo)
      BY <1>2, FS_Subset DEF CallInv, Shape, Pending
    <3>3. /\ Cardinality(Pending(c)) \in Nat /\ Cardinality(call[c].todo) \in Nat
          /\ Cardinality(Pending(c)') = Cardinality(Pending(c)) + 1
      BY <3>1, <3>2, FS_CardinalityType, FS_AddElement
    <3>4. Cardinality(call'[c].todo) = Cardinality(call[c].todo) - 1
      BY <1>1, <1>5, <3>2, FS_RemoveElement
    <3>5. Cardinality(call[c].todo) # 0
      BY <1>1, <3>2, FS_EmptySet
    <3>6. /\ call[c].m_count = Cardinality(call[c].todo) + Cardinality(Pending(c))
          /\ call[c].m_count # 0
      BY <1>2, <3>3, <3>5 DEF CallInv, Counted
    <3>7. call'[c].m_count = Cardinality(call'[c].todo) + Cardinality(Pending(c)')
      BY <1>5, <3>3, <3>4, <3>6
    <3>8. \A j \in JobsOf(c)' : j.pc \in {"start", "good"}
      BY <1>2, <1>3, <1>6, <3>6 DEF CallInv, Counted
    <3>9. QED
      BY <3>7, <3>8 DEF Counted
  <2>6. Thrown(c)'
    BY <1>2, <1>5, <1>6 DEF CallInv, Thrown, AtMostOneJob, store
  <2>7. QED
    BY <2>1, <2>3, <2>4, <2>5, <2>6 DEF CallInv
<1>9. ASSUME NEW d \in Callers, d # c PROVE CallInv(d)'
  <2>1. JobsOf(d)' = JobsOf(d)
    BY <1>1, <1>3, <1>9 DEF JobsOf
  <2>2. QED
    BY <1>1, <1>2, <1>9, <2>1, Frame DEF Inv, store
<1>10. TypeOK'
  BY <1>1, <1>2, <1>3, <1>5 DEF Inv, TypeOK, store
<1>11. NoLateTouch'
  BY <1>1, <1>2, <1>3, <1>5 DEF Inv, NoLateTouch, JobType
<1>12. QED
  BY <1>8, <1>9, <1>10, <1>11

\* wait: a call returns when it is complete, and then has no job.
LEMMA WaitKeeps ==
    ASSUME Inv, NEW c \in Callers, wait(c), UNCHANGED store
    PROVE  TypeOK' /\ NoLateTouch' /\ \A d \in Callers : CallInv(d)'
<1>1. /\ call \in [Callers -> CallType] /\ call[c] \in CallType /\ CallInv(c)
      /\ jobs' = jobs /\ direct' = direct /\ call[c].pc = "wait"
      /\ call' = [call EXCEPT ![c] = IF @.m_complete THEN Idle ELSE [@ EXCEPT !.pc = "asleep"]]
  BY DEF Inv, TypeOK, wait
<1>2. JobsOf(c)' = JobsOf(c)
  BY <1>1 DEF JobsOf
<1>3. ASSUME NEW d \in Callers, d # c PROVE CallInv(d)'
  <2>1. JobsOf(d)' = JobsOf(d)
    BY <1>1 DEF JobsOf
  <2>2. QED
    BY <1>1, <1>3, <2>1, Frame DEF Inv, store
<1>4. CASE call[c].m_complete
  <2>1. JobsOf(c)' = {} /\ call'[c] = Idle
    BY <1>1, <1>2, <1>4 DEF CallInv, Shape
  <2>2. CallInv(c)'
    BY <2>1, Quit
  <2>3. TypeOK'
    BY <1>1, <2>1 DEF Inv, TypeOK, store, CallType, Idle
  <2>4. NoLateTouch'
    BY <1>1, <1>2, <2>1 DEF Inv, NoLateTouch, JobsOf, TypeOK, JobType
  <2>5. QED
    BY <1>3, <2>2, <2>3, <2>4
<1>5. CASE ~call[c].m_complete
  <2>1. call'[c] = [call[c] EXCEPT !.pc = "asleep"]
    BY <1>1, <1>5
  <2>2. /\ call'[c] \in CallType /\ call'[c].op = call[c].op /\ call'[c].pc = "asleep"
        /\ call'[c].todo = call[c].todo /\ call'[c].rid = call[c].rid
        /\ call'[c].m_complete = call[c].m_complete /\ call'[c].m_count = call[c].m_count
    BY <1>1, <2>1 DEF CallType
  <2>3. Pending(c)' = Pending(c)
    BY <1>2 DEF Pending
  <2>4. CallInv(c)'
    <3>1. KeysApart(c)' /\ OneKey(c)' /\ Counted(c)'
      BY <1>1, <1>2, <2>2, <2>3 DEF CallInv, KeysApart, OneKey, Counted, AtMostOneJob
    <3>2. Shape(c)'
      BY <1>1, <1>2, <2>2 DEF CallInv, Shape
    <3>3. Thrown(c)'
      BY <1>1, <1>2, <2>2 DEF CallInv, Thrown, AtMostOneJob, store
    <3>4. QED
      BY <3>1, <3>2, <3>3 DEF CallInv
  <2>5. TypeOK'
    BY <1>1, <2>2 DEF Inv, TypeOK, store
  <2>6. NoLateTouch'
    BY <1>1, <2>2 DEF Inv, NoLateTouch, TypeOK, JobType
  <2>7. QED
    BY <1>3, <2>4, <2>5, <2>6
<1>6. QED
  BY <1>4, <1>5

\* A new call.
LEMMA BeginKeeps ==
    ASSUME Inv, NEW c \in Callers, NEW op \in Ops, NEW rid \in Rids \cup {0},
           NEW keys \in SUBSET AllKeys, IsFiniteSet(keys), Begin(c, op, rid, keys),
           op # "block" => \E k : keys = {k},
           direct \/ (phase = "open" /\ (op = "block" => rid \in ids)), UNCHANGED store
    PROVE  TypeOK' /\ NoLateTouch' /\ \A d \in Callers : CallInv(d)'
<1> DEFINE new == [Idle EXCEPT !.op = op, !.rid = rid,
                               !.pc = IF keys = {} THEN "wait" ELSE "issue",
                               !.todo = keys, !.m_count = Cardinality(keys)]
<1>1. /\ call \in [Callers -> CallType] /\ CallInv(c) /\ call[c].pc = "idle"
      /\ jobs' = jobs /\ direct' = direct /\ call' = [call EXCEPT ![c] = new]
      /\ Cardinality(keys) \in Nat
  BY FS_CardinalityType DEF Inv, TypeOK, Begin
<1>2. JobsOf(c) = {}
  BY <1>1 DEF Inv, CallInv, Shape, NoLateTouch, JobsOf, TypeOK, JobType, Ops
<1>3. JobsOf(c)' = {} /\ Pending(c)' = {}
  BY <1>1, <1>2 DEF JobsOf, Pending
<1>4. /\ new \in CallType /\ new.op = op /\ new.rid = rid
      /\ new.pc = IF keys = {} THEN "wait" ELSE "issue"
      /\ new.todo = keys /\ new.m_count = Cardinality(keys) /\ ~new.m_complete
  <2>1. Idle \in CallType /\ ~Idle.m_complete
    BY DEF Idle, CallType
  <2>2. op \in Ops \cup {"none"} /\ Cardinality(keys) \in Int
    BY <1>1
  <2>3. QED
    BY <2>1, <2>2 DEF CallType
<1>5. call'[c] = new
  BY <1>1
<1> HIDE DEF new
<1>6. CallInv(c)'
  <2>1. KeysApart(c)' /\ OneKey(c)'
    BY <1>3, <1>4, <1>5 DEF KeysApart, OneKey, AtMostOneJob
  <2>2. Shape(c)'
    BY <1>3, <1>4, <1>5, FS_EmptySet DEF Shape, Ops
  <2>3. Counted(c)'
    BY <1>1, <1>3, <1>4, <1>5, FS_EmptySet DEF Counted
  <2>4. Thrown(c)'
    BY <1>1, <1>3, <1>4, <1>5 DEF Thrown, AtMostOneJob, store
  <2>5. QED
    BY <2>1, <2>2, <2>3, <2>4 DEF CallInv
<1>7. ASSUME NEW d \in Callers, d # c PROVE CallInv(d)'
  <2>1. JobsOf(d)' = JobsOf(d)
    BY <1>1 DEF JobsOf
  <2>2. QED
    BY <1>1, <1>7, <2>1, Frame DEF Inv, store
<1>8. TypeOK'
  BY <1>1, <1>4, <1>5 DEF Inv, TypeOK, store
<1>9. NoLateTouch'
  BY <1>1, <1>2 DEF Inv, NoLateTouch, JobsOf, TypeOK, JobType
<1>10. QED
  BY <1>6, <1>7, <1>8, <1>9

\* A new call has counted its keys and no job of its own yet.
LEMMA CallKeeps ==
    ASSUME Inv, NEW c \in Callers, Call(c)
    PROVE  Inv'
<1>1. UNCHANGED store /\ (direct \/ phase = "open")
  BY DEF Call
<1>2. ASSUME NEW op \in Ops \ {"block"}, NEW rid \in Rids \cup {0}, NEW k \in AllKeys,
             Begin(c, op, rid, {k})
      PROVE  Inv'
  <2>1. IsFiniteSet({k}) /\ {k} # {} /\ {k} \in SUBSET AllKeys
    BY FS_Singleton
  <2>2. QED
    BY <1>1, <1>2, <2>1, BeginKeeps DEF Inv
<1>3. ASSUME NEW rid \in Rids, NEW ks \in SUBSET Keys, direct \/ rid \in ids,
             Begin(c, "block", rid, ks)
      PROVE  Inv'
  <2>1. IsFiniteSet(ks) /\ ks \in SUBSET AllKeys
    BY BDBAssumption, FS_Subset DEF AllKeys
  <2>2. QED
    BY <1>1, <1>3, <2>1, BeginKeeps DEF Inv, Ops
<1>4. CASE \E k \in Keys, op \in {"get", "put"} : Begin(c, op, 0, {k})
  BY <1>2, <1>4 DEF Ops, AllKeys
<1>5. CASE \E op \in {"insert", "follow", "furthest"} : Begin(c, op, 0, {Tag})
  BY <1>2, <1>5 DEF Ops, AllKeys
<1>6. CASE \E r \in Rids, op \in {"start", "finish"} : Begin(c, op, r, {r})
  BY <1>2, <1>6 DEF Ops, AllKeys
<1>7. CASE \E r \in Rids, ks \in SUBSET Keys :
             (direct \/ r \in ids) /\ Begin(c, "block", r, ks)
  <2>1. PICK r \in Rids, ks \in SUBSET Keys :
             (direct \/ r \in ids) /\ Begin(c, "block", r, ks)
    BY <1>7
  <2>2. QED
    BY <1>3, <2>1
<1>8. QED
  BY <1>4, <1>5, <1>6, <1>7 DEF Call

\* The steps of a job up to its answer.
LEMMA JobKeeps ==
    ASSUME Inv, NEW j \in jobs, Job(j)
    PROVE  Inv'
<1>1. j \in JobType /\ j.by \in Callers /\ call[j.by].op = j.op /\ CallInv(j.by)
  BY DEF Inv, TypeOK, JobType, NoLateTouch
<1> DEFINE Calm == jobs' \subseteq JobType /\ NoLateTouch' /\ \A c \in Callers : CallInv(c)'
<1>2. ASSUME NEW pc \in Places \ {"done"}, Goto(j, pc), j.pc # "done",
             j.op = "block" => pc = "good", UNCHANGED <<direct, call, calls, phase>>,
             ids \subseteq ids', ids' \subseteq AllKeys, main' \subseteq AllKeys, kept' \subseteq AllKeys
      PROVE  Inv'
  <2>1. Calm
    BY <1>2, GotoKeeps
  <2>2. QED
    BY <1>2, <2>1 DEF Inv, TypeOK
<1>3. ASSUME Throw(j), direct, UNCHANGED store
      PROVE  Inv'
  <2>1. Calm
    BY <1>3, ThrowKeeps
  <2>2. call' \in [Callers -> CallType]
    BY <1>1, <1>3 DEF Inv, TypeOK, Throw, Idle, CallType
  <2>3. QED
    BY <1>3, <2>1, <2>2 DEF Inv, TypeOK, store, Throw
<1>4. TypeOK
  BY DEF Inv
<1>5. j.op = "block" => j.pc \notin {"del", "put", "bad"}
  BY <1>1 DEF CallInv, Counted, JobsOf
<1>6. ~direct => phase = "open" /\ (j.op = "block" => call[j.by].rid \in ids)
  BY <1>1 DEF CallInv, Thrown, Shape, Ops, JobType
<1>7. CASE NotOpened(j)
  <2>1. CASE j.op \in {"start", "block"}
    BY <1>3, <1>6, <1>7, <2>1 DEF NotOpened
  <2>2. CASE j.op \notin {"start", "block"}
    BY <1>2, <1>4, <1>7, <2>2 DEF NotOpened, Answer, store, TypeOK, Places
  <2>3. QED
    BY <2>1, <2>2
<1>8. CASE get(j)
  BY <1>2, <1>4, <1>8 DEF get, Open, Answer, store, TypeOK, Places, Reads
<1>9. CASE exists(j)
  BY <1>2, <1>4, <1>9 DEF exists, Open, store, TypeOK, Places, Writes
<1>10. CASE del(j)
  BY <1>2, <1>4, <1>5, <1>10 DEF del, TypeOK, Places
<1>11. CASE put(j)
  BY <1>1, <1>2, <1>4, <1>11 DEF put, Answer, TypeOK, Places, Writes, JobType
<1>12. CASE find_rid(j)
  BY <1>2, <1>4, <1>12 DEF find_rid, Open, store, TypeOK, Places
<1>13. CASE put_rid(j)
  BY <1>1, <1>2, <1>4, <1>13 DEF put_rid, Answer, TypeOK, Places, JobType
<1>14. CASE refresh_block(j)
  <2>1. CASE call[j.by].rid \in ids
    BY <1>2, <1>4, <1>14, <2>1 DEF refresh_block, Open, Answer, store, TypeOK, Places
  <2>2. CASE call[j.by].rid \notin ids
    BY <1>3, <1>6, <1>14, <2>2 DEF refresh_block
  <2>3. QED
    BY <2>1, <2>2
<1>15. CASE refresh_finish(j)
  BY <1>2, <1>4, <1>15 DEF refresh_finish, Open, Answer, store, TypeOK, Places
<1>16. CASE (error(j) \/ rb_complete(j) \/ done(j)) /\ UNCHANGED store
  BY <1>16, ErrorKeeps, CountDownKeeps, DoneKeeps DEF Inv
<1>17. QED
  BY <1>7, <1>8, <1>9, <1>10, <1>11, <1>12, <1>13, <1>14, <1>15, <1>16 DEF Job

\* Opening, and closing or destroying while no call is in progress.
LEMMA LifecycleKeeps ==
    ASSUME Inv, bs_create \/ bs_open \/ bs_close \/ destroy
    PROVE  Inv'
<1>1. blocking' = blocking
  BY DEF bs_create, bs_open, bs_close, destroy
<1>2. direct' = direct /\ call' = call /\ jobs' = jobs
  BY <1>1 DEF blocking
<1>3. TypeOK' /\ NoLateTouch'
  BY <1>2 DEF Inv, TypeOK, NoLateTouch, bs_create, bs_open, bs_close, destroy
<1>4. ASSUME NEW c \in Callers PROVE CallInv(c)'
  <2>1. JobsOf(c)' = JobsOf(c) /\ CallInv(c)
    BY <1>2 DEF Inv, JobsOf
  <2>2. ~direct /\ call[c].pc # "idle" => phase' = phase /\ ids \subseteq ids'
    BY <2>1 DEF CallInv, Thrown, bs_create, bs_open, bs_close, destroy, Quiet
  <2>3. QED
    BY <1>2, <2>1, <2>2, Frame
<1>5. QED
  BY <1>3, <1>4 DEF Inv

\* Every step keeps the invariant.
LEMMA StepInv == Inv /\ [Next]_vars => Inv'
<1> SUFFICES ASSUME Inv, [Next]_vars PROVE Inv'
  OBVIOUS
<1>1. CASE bs_create \/ bs_open \/ bs_close \/ destroy
  BY <1>1, LifecycleKeeps
<1>2. ASSUME NEW c \in Callers, Call(c) \/ Caller(c) PROVE Inv'
  BY <1>2, CallKeeps, IssueKeeps, WaitKeeps DEF Caller, Inv
<1>3. ASSUME NEW j \in jobs, Job(j) PROVE Inv'
  BY <1>3, JobKeeps
<1>4. CASE UNCHANGED vars
  <2>1. direct' = direct /\ call' = call /\ jobs' = jobs /\ UNCHANGED store
    BY <1>4 DEF vars, blocking, store
  <2>2. \A c \in Callers : CallInv(c)'
    BY <2>1, Frame DEF Inv, JobsOf, store
  <2>3. QED
    BY <2>1, <2>2 DEF Inv, TypeOK, NoLateTouch, store
<1>5. QED
  BY <1>1, <1>2, <1>3, <1>4 DEF Next

\* No job uses the completion of a call that has returned, whatever the number of keys a
\* refresh was called with (BSRefreshBlocksCompletion and BlockingCompletion::done).
THEOREM NoLateTouchHolds == Spec => []NoLateTouch
<1>1. Inv => NoLateTouch
  BY DEF Inv
<1>2. QED
  BY InitInv, StepInv, <1>1, PTL DEF Spec

-----------------------------------------------------------------------------
(* NotLost needs only that who deletes is about to put. *)

Deleters == \A j \in jobs : j.pc = "del" => j.op \in Writes

\* A step that takes away no key and no job that is about to put one.
LEMMA KeepersStay ==
    ASSUME NotLost, main \subseteq main', kept' \subseteq kept,
           \A j \in jobs : j.pc = "put" /\ j.op \in Writes => j \in jobs'
    PROVE  NotLost'
BY DEF NotLost

\* Every step keeps what the calls stored, or has the job that is to store it.
LEMMA LostStep == Inv /\ NotLost /\ Deleters /\ [Next]_vars => NotLost' /\ Deleters'
<1> SUFFICES ASSUME Inv, NotLost, Deleters, [Next]_vars PROVE NotLost' /\ Deleters'
  OBVIOUS
<1>1. CASE bs_create \/ bs_open \/ bs_close \/ destroy
  BY <1>1 DEF bs_create, bs_open, bs_close, destroy, blocking, NotLost, Deleters
<1>2. ASSUME NEW c \in Callers, Call(c) \/ Caller(c) PROVE NotLost' /\ Deleters'
  <2>1. UNCHANGED store
    BY <1>2 DEF Call, Caller
  <2>2. jobs' = jobs \/ \E k \in call[c].todo : 
          jobs' = jobs \cup {[by |-> c, op |-> call[c].op, key |-> k, pc |-> "start"]}
    BY <1>2 DEF Call, Caller, Begin, Issue, wait
  <2>3. QED
    BY <2>1, <2>2, KeepersStay DEF store, Deleters
<1>3. ASSUME NEW j \in jobs, Job(j) PROVE NotLost' /\ Deleters'
  <2>1. j \in JobType
    BY DEF Inv, TypeOK
  <2>2. ASSUME NEW pc, Goto(j, pc)
        PROVE  LET n == [j EXCEPT !.pc = pc]
               IN  /\ jobs' = (jobs \ {j}) \cup {n} /\ n \in jobs'
                   /\ n.pc = pc /\ n.op = j.op /\ n.key = j.key
    BY <2>1, <2>2 DEF Goto, JobType
  <2>3. ASSUME NEW pc, Goto(j, pc), pc # "del", UNCHANGED store, j.pc # "put" \/ j.op \notin Writes
        PROVE  NotLost' /\ Deleters'
    <3>1. PICK n \in jobs' : n.pc # "del" /\ jobs' = (jobs \ {j}) \cup {n}
      BY <2>2, <2>3
    <3>2. NotLost'
      BY <2>3, <3>1, KeepersStay DEF store
    <3>3. QED
      BY <3>1, <3>2 DEF Deleters
  <2>4. ASSUME jobs' = jobs \ {j}, UNCHANGED store, j.pc # "put" \/ j.op \notin Writes
        PROVE  NotLost' /\ Deleters'
    BY <2>4, KeepersStay DEF store, Deleters
  <2>5. CASE NotOpened(j)
    BY <2>3, <2>4, <2>5 DEF NotOpened, Throw, Answer
  <2>6. CASE get(j) \/ refresh_finish(j)
    BY <2>3, <2>6 DEF get, refresh_finish, Open, Answer
  <2>7. CASE exists(j)
    <3>1. PICK pc \in {"del", "put"} : Goto(j, pc)
      BY <2>7 DEF exists
    <3>2. QED
      <4>1. j.op \in Writes /\ j.pc = "start" /\ UNCHANGED store
        BY <2>7 DEF exists, Open
      <4>2. PICK n \in jobs' : n.op = j.op /\ jobs' = (jobs \ {j}) \cup {n}
        BY <2>2, <3>1
      <4>3. NotLost'
        BY <4>1, <4>2, KeepersStay DEF store
      <4>4. QED
        BY <4>1, <4>2, <4>3 DEF Deleters
  <2>8. CASE del(j)
    <3>1. Goto(j, "put") /\ main' = main \ {j.key} /\ kept' = kept /\ j.pc = "del" /\ j.op \in Writes
      BY <2>8 DEF del, Deleters
    <3>2. PICK n \in jobs' : n.pc = "put" /\ n.op = j.op /\ n.key = j.key /\ jobs' = (jobs \ {j}) \cup {n}
      BY <2>2, <3>1
    <3>3. ASSUME NEW k \in kept
          PROVE  k \in main' \/ \E i \in jobs' : i.key = k /\ i.op \in Writes /\ i.pc = "put"
      <4>1. CASE k = j.key
        BY <3>1, <3>2, <4>1
      <4>2. CASE k # j.key
        BY <3>1, <3>2, <4>2 DEF NotLost
      <4>3. QED
        BY <4>1, <4>2
    <3>4. QED
      BY <3>1, <3>2, <3>3 DEF NotLost, Deleters
  <2>9. CASE put(j)
    <3>1. PICK pc \in {"good", "bad"} : Goto(j, pc)
      BY <2>9 DEF put, Answer
    <3>2. main' = main \cup {j.key} /\ kept' \subseteq kept \cup {j.key}
      BY <2>9 DEF put
    <3>3. PICK n \in jobs' : n.pc # "del" /\ jobs' = (jobs \ {j}) \cup {n}
      BY <2>2, <3>1
    <3>4. ASSUME NEW k \in kept'
          PROVE  k \in main' \/ \E i \in jobs' : i.key = k /\ i.op \in Writes /\ i.pc = "put"
      <4>1. CASE k = j.key
        BY <3>2, <4>1
      <4>2. CASE k # j.key
        BY <3>2, <3>3, <4>2 DEF NotLost
      <4>3. QED
        BY <4>1, <4>2
    <3>5. QED
      BY <3>3, <3>4 DEF NotLost, Deleters
  <2>10. CASE find_rid(j)
    BY <2>3, <2>10 DEF find_rid, Open
  <2>11. CASE put_rid(j)
    <3>1. PICK pc \in {"good", "bad"} : Goto(j, pc)
      BY <2>11 DEF put_rid, Answer
    <3>2. QED
      <4>1. j.op \notin Writes /\ main' = main /\ kept' = kept
        BY <2>11 DEF put_rid, Writes
      <4>2. PICK n \in jobs' : n.pc # "del" /\ jobs' = (jobs \ {j}) \cup {n}
        BY <2>2, <3>1
      <4>3. NotLost'
        BY <4>1, <4>2, KeepersStay
      <4>4. QED
        BY <4>2, <4>3 DEF Deleters
  <2>12. CASE refresh_block(j)
    BY <2>3, <2>4, <2>12 DEF refresh_block, Open, Throw, Answer
  <2>13. CASE (error(j) \/ rb_complete(j) \/ done(j)) /\ UNCHANGED store
    BY <2>3, <2>4, <2>13 DEF error, rb_complete, done
  <2>14. QED
    BY <1>3, <2>5, <2>6, <2>7, <2>8, <2>9, <2>10, <2>11, <2>12, <2>13 DEF Job
<1>4. CASE UNCHANGED vars
  BY <1>4 DEF vars, blocking, NotLost, Deleters
<1>5. QED
  BY <1>1, <1>2, <1>3, <1>4 DEF Next

\* What was put with success stays, however the deletes and puts of callers interleave
\* (bs_block_put_async, which deletes before it puts).
THEOREM NotLostHolds == Spec => []NotLost
<1>1. Init => NotLost /\ Deleters
  BY DEF Init, BlockingInit, NotLost, Deleters
<1>2. QED
  BY <1>1, InitInv, StepInv, LostStep, PTL DEF Spec
=============================================================================
