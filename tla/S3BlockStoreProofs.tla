-------------------------- MODULE S3BlockStoreProofs --------------------------
(***************************************************************************)
(* bs_sync of the S3 block store is never left asleep, for any number of   *)
(* callers, blocks, refresh cycles, faults and crashes.                    *)
(*                                                                         *)
(* The waiter is woken by one place only, the handler that finds itself    *)
(* the last one in m_rsphandlers.  So it must be that no other step takes  *)
(* a handler away: every section of a put or get that runs between the     *)
(* enqueueing and remove_handler leaves the request in the list.           *)
(***************************************************************************)
EXTENDS S3BlockStore, TLAPS

\* Where a request is while it is in m_rsphandlers.
Listed == {"sent", "ok", "stamp", "retry", "fail", "stat"}

\* Every caller has a call with a place in the code.
CallsOK == DOMAIN call = Callers /\ \A c \in Callers : "pc" \in DOMAIN call[c]

Inv == CallsOK /\ SleeperWoken

-----------------------------------------------------------------------------
\* A caller that goes on, and does not leave m_rsphandlers, wakes and strands nobody.
LEMMA CallKeeps ==
    ASSUME Inv, NEW c \in Callers, NEW r, "pc" \in DOMAIN r,
           call' = [call EXCEPT ![c] = r],
           call[c].pc \in Listed => r.pc \in Listed,
           sync' = sync
    PROVE  Inv'
<1>1. CallsOK'
  BY DEF Inv, CallsOK
<1>2. Handlers \subseteq Handlers'
  BY DEF Inv, CallsOK, Handlers, Listed
<1> QED
  BY <1>1, <1>2 DEF Inv, SleeperWoken

\* The same when only the place changes.
LEMMA PlaceKeeps ==
    ASSUME Inv, NEW c \in Callers, NEW pc,
           call' = [call EXCEPT ![c].pc = pc],
           call[c].pc \in Listed => pc \in Listed,
           sync' = sync
    PROVE  Inv'
<1>1. "pc" \in DOMAIN call[c]
  BY DEF Inv, CallsOK
<1> DEFINE r == [call[c] EXCEPT !.pc = pc]
<1>2. "pc" \in DOMAIN r /\ r.pc = pc
  BY <1>1
<1>3. call' = [call EXCEPT ![c] = r]
  OBVIOUS
<1> HIDE DEF r
<1> QED
  BY <1>2, <1>3, CallKeeps

\* A step that is no caller's and does not touch bs_sync's state.
LEMMA OthersKeep == Inv /\ UNCHANGED <<call, sync>> => Inv'
BY DEF Inv, CallsOK, SleeperWoken, Handlers

\* The process forgets everything, the sleeper too.
LEMMA ForgottenKeeps == Inv /\ Forgotten => Inv'
BY DEF Inv, CallsOK, SleeperWoken, Forgotten, Idle

\* A store that was just created has no requests and no waiter.
LEMMA InitInv == Init => Inv
BY DEF Init, Inv, CallsOK, SleeperWoken, Idle

\* A call that has returned is not in m_rsphandlers, one that was answered from its
\* handler still is.
LEMMA Returned ==
    /\ "pc" \in DOMAIN Idle /\ Idle.pc = "idle"
    /\ "pc" \in DOMAIN [Idle EXCEPT !.pc = "stat"] /\ [Idle EXCEPT !.pc = "stat"].pc = "stat"
BY DEF Idle

-----------------------------------------------------------------------------
\* The sections of a put that make room for its block.
LEMMA PurgeKeeps ==
    ASSUME Inv, NEW c \in Callers, NEW u, PurgeLoop(c, u), call[c].pc \notin Listed
    PROVE  Inv'
<1>1. "pc" \in DOMAIN call[c] /\ sync' = sync
  BY DEF Inv, CallsOK, PurgeLoop
<1>2. PICK r : "pc" \in DOMAIN r /\ call' = [call EXCEPT ![c] = r]
  <2>1. CASE call' = [call EXCEPT ![c] = [@ EXCEPT !.pc = "push", !.vic = 0, !.size = 0]]
    <3> DEFINE r == [call[c] EXCEPT !.pc = "push", !.vic = 0, !.size = 0]
    <3>1. "pc" \in DOMAIN r /\ call' = [call EXCEPT ![c] = r]
      BY <2>1, <1>1
    <3> QED
      BY <3>1
  <2>2. CASE Answered(c)
    BY <2>2, Returned DEF Answered
  <2>3. CASE call' = [call EXCEPT ![c] = [@ EXCEPT !.pc = "delete", !.vic = Last(m_lru),
                                                   !.size = m_entries[Last(m_lru)].s]]
    <3> DEFINE r == [call[c] EXCEPT !.pc = "delete", !.vic = Last(m_lru),
                                    !.size = m_entries[Last(m_lru)].s]
    <3>1. "pc" \in DOMAIN r /\ call' = [call EXCEPT ![c] = r]
      BY <2>3, <1>1
    <3> QED
      BY <3>1
  <2> QED
    BY <2>1, <2>2, <2>3 DEF PurgeLoop
<1> QED
  BY <1>1, <1>2, CallKeeps

\* A request that is sent, or sent again.
LEMMA SentKeeps ==
    ASSUME Inv, NEW c \in Callers, NEW n, initiate_put_internal(c, n), sync' = sync
    PROVE  Inv'
<1>1. "pc" \in DOMAIN call[c]
  BY DEF Inv, CallsOK
<1> DEFINE r == [call[c] EXCEPT !.pc = "sent", !.left = n]
<1>2. "pc" \in DOMAIN r /\ r.pc = "sent"
  BY <1>1
<1>3. call' = [call EXCEPT ![c] = r]
  BY DEF initiate_put_internal
<1> HIDE DEF r
<1> QED
  BY <1>2, <1>3, CallKeeps DEF Listed

\* An answer from a handler leaves the handler in the list.
LEMMA CompletedKeeps ==
    ASSUME Inv, NEW c \in Callers, Completed(c), sync' = sync
    PROVE  Inv'
<1> DEFINE r == [Idle EXCEPT !.pc = "stat"]
<1>1. "pc" \in DOMAIN r /\ r.pc = "stat" /\ call' = [call EXCEPT ![c] = r]
  BY Returned DEF Completed
<1> HIDE DEF r
<1> QED
  BY <1>1, CallKeeps DEF Listed

\* An answer to a caller whose request was never enqueued.
LEMMA AnsweredKeeps ==
    ASSUME Inv, NEW c \in Callers, Answered(c), call[c].pc \notin Listed, sync' = sync
    PROVE  Inv'
<1>1. PICK r : r = Idle
  OBVIOUS
<1> QED
  BY <1>1, CallKeeps, Returned DEF Answered

\* One step of a caller's call or of its handler.
LEMMA StepKeeps == ASSUME Inv, NEW c \in Callers, Step(c) PROVE Inv'
<1>1. CASE PutAvail(c)
  <2>1. sync' = sync /\ call[c].pc \notin Listed
    BY <1>1 DEF PutAvail, Listed
  <2>2. CASE To(c, "room")
    BY <2>1, <2>2, PlaceKeeps DEF To
  <2>3. CASE Answered(c)
    BY <2>1, <2>3, AnsweredKeeps
  <2> QED
    BY <1>1, <2>2, <2>3 DEF PutAvail
<1>2. CASE PutRoom(c)
  BY <1>2, PurgeKeeps DEF PutRoom, Listed
<1>3. CASE S3Delete(c)
  BY <1>3, PlaceKeeps DEF S3Delete, To, Listed
<1>4. CASE PutDeleted(c)
  BY <1>4, PurgeKeeps DEF PutDeleted, Listed
<1>5. CASE PutPush(c)
  BY <1>5, SentKeeps DEF PutPush
<1>6. CASE S3Answer(c)
  <2>1. sync' = sync /\ \E pc \in {"ok", "fail"} : To(c, pc)
    BY <1>6 DEF S3Answer
  <2> QED
    BY <2>1, PlaceKeeps DEF To, Listed
<1>7. CASE HandlePut(c)
  BY <1>7, CompletedKeeps DEF HandlePut
<1>8. CASE HandleGet(c)
  BY <1>8, CompletedKeeps DEF HandleGet
<1>9. CASE HandleRetry(c)
  BY <1>9, SentKeeps, CompletedKeeps DEF HandleRetry
<1>10. CASE HandleFail(c)
  BY <1>10, CompletedKeeps DEF HandleFail
<1>11. CASE remove_handler(c)
  <2>1. CallsOK'
    BY <1>11, Returned DEF remove_handler, Answered, Inv, CallsOK
  <2>2. Handlers' = Handlers \ {c}
    BY <1>11, Returned DEF remove_handler, Answered, Inv, CallsOK, Handlers
  <2>3. SleeperWoken'
    BY <1>11, <2>2 DEF remove_handler, Inv, SleeperWoken
  <2> QED
    BY <2>1, <2>3 DEF Inv
<1>12. CASE HandleStamp(c)
  <2>1. "pc" \in DOMAIN call[c]
    BY DEF Inv, CallsOK
  <2> DEFINE r == [call[c] EXCEPT !.pc = "stamp", !.t = now]
  <2>2. "pc" \in DOMAIN r /\ r.pc = "stamp" /\ call' = [call EXCEPT ![c] = r] /\ sync' = sync
    BY <1>12, <2>1 DEF HandleStamp
  <2> HIDE DEF r
  <2> QED
    BY <2>2, CallKeeps DEF Listed
<1>13. CASE bs_refresh_block(c)
  BY <1>13, AnsweredKeeps DEF bs_refresh_block, Listed
<1> QED
  BY <1>1, <1>2, <1>3, <1>4, <1>5, <1>6, <1>7, <1>8, <1>9, <1>10, <1>11, <1>12, <1>13 DEF Step

\* Any step of the store, of S3, or of the process.
LEMMA NextKeeps == ASSUME Inv, [Next]_vars PROVE Inv'
<1>1. ASSUME NEW c \in Callers, Step(c) PROVE Inv'
  BY <1>1, StepKeeps
<1>2. ASSUME NEW c \in Callers, S3DeleteFails(c) PROVE Inv'
  BY <1>2, AnsweredKeeps DEF S3DeleteFails, Listed
<1>3. ASSUME NEW c \in Callers, S3Fails(c) PROVE Inv'
  <2>1. sync' = sync /\ \E pc \in {"retry", "fail"} : To(c, pc)
    BY <1>3 DEF S3Fails
  <2> QED
    BY <2>1, PlaceKeeps DEF To, Listed
<1>4. ASSUME NEW c \in Callers, NEW k \in Keys, PutStart(c, k) PROVE Inv'
  <2> DEFINE r == [Idle EXCEPT !.op = "put", !.pc = "avail", !.key = k]
  <2>1. "pc" \in DOMAIN r /\ call' = [call EXCEPT ![c] = r] /\ sync' = sync
    BY <1>4 DEF PutStart, Idle
  <2>2. call[c].pc \notin Listed
    BY <1>4, Returned DEF PutStart, Listed
  <2> HIDE DEF r
  <2> QED
    BY <2>1, <2>2, CallKeeps
<1>5. ASSUME NEW c \in Callers, NEW k \in Keys, GetStart(c, k) PROVE Inv'
  <2> DEFINE r == [Idle EXCEPT !.op = "get", !.pc = "sent", !.key = k, !.left = MaxRetries]
  <2>1. "pc" \in DOMAIN r /\ call' = [call EXCEPT ![c] = r] /\ sync' = sync
    BY <1>5 DEF GetStart, initiate_get_internal, Idle
  <2>2. call[c].pc \notin Listed
    BY <1>5, Returned DEF GetStart, Listed
  <2> HIDE DEF r
  <2> QED
    BY <2>1, <2>2, CallKeeps
<1>6. CASE SyncWait
  BY <1>6 DEF SyncWait, Inv, CallsOK, SleeperWoken, Handlers
<1>7. ASSUME NEW r \in Rids, bs_refresh_start(r) \/ FinishMark(r) PROVE Inv'
  BY <1>7, OthersKeep DEF bs_refresh_start, FinishMark
<1>8. ASSUME NEW c \in Callers, NEW k \in Keys, NEW rid \in Rids, RefreshFind(c, rid, k) PROVE Inv'
  <2> DEFINE r == [Idle EXCEPT !.op = "refresh", !.pc = "touch", !.key = k]
  <2>1. "pc" \in DOMAIN r /\ call' = [call EXCEPT ![c] = r] /\ sync' = sync
    BY <1>8 DEF RefreshFind, Idle
  <2>2. call[c].pc \notin Listed
    BY <1>8, Returned DEF RefreshFind, Listed
  <2> HIDE DEF r
  <2> QED
    BY <2>1, <2>2, CallKeeps
<1>9. CASE FinishIndex \/ FinishPut \/ FinishPutFails
  BY <1>9, OthersKeep DEF FinishIndex, FinishPut, FinishPutFails
<1>10. CASE bs_close \/ Crash
  BY <1>10, ForgottenKeeps DEF bs_close, Crash
<1>11. CASE LoseLocal \/ bs_open \/ bs_create \/ bs_create_fails
  BY <1>11, OthersKeep DEF LoseLocal, bs_open, bs_create, bs_create_fails
<1>12. CASE Destroy \/ delete_bucket
  BY <1>12, OthersKeep DEF Destroy, delete_bucket
<1>13. ASSUME NEW o \in Keys \cup {SIZE}, service_queue(o) \/ Destroyed(o) \/ DestroyFails(o)
       PROVE  Inv'
  BY <1>13, OthersKeep DEF service_queue, Destroyed, DestroyFails
<1>14. CASE Tick
  BY <1>14, OthersKeep DEF Tick
<1>15. CASE UNCHANGED vars
  BY <1>15, OthersKeep DEF vars
<1> QED
  BY <1>1, <1>2, <1>3, <1>4, <1>5, <1>6, <1>7, <1>8, <1>9, <1>10, <1>11, <1>12, <1>13,
     <1>14, <1>15 DEF Next

-----------------------------------------------------------------------------
\* Whatever clients, handlers, S3 and crashes do, bs_sync is asleep only while a
\* handler is left in m_rsphandlers that will wake it: no wakeup is lost.
THEOREM SleeperWokenHolds == Spec => []SleeperWoken
<1>1. Spec => []Inv
  BY InitInv, NextKeeps, PTL DEF Spec
<1>2. Inv => SleeperWoken
  BY DEF Inv
<1> QED
  BY <1>1, <1>2, PTL
=============================================================================
