------------------------- MODULE FileTransferProofs -------------------------
(* Proofs about downloads, for any transfers and settings and any limit on *)
(* the number of handles.                                                  *)
EXTENDS FileTransfer, TLAPS

(* The life of an item: it is called back when it leaves the queue and the *)
(* active items for good, and as long as it is there it has an attempt     *)
(* left.  curl and the item agree on how much has been delivered.          *)
LifeOK ==
    \A t \in Transfers :
        /\ pc[t] = "enqueue" => place[t] = "new"
        /\ pc[t] = "threw" /\ place[t] # "new" => quit[t]
        /\ place[t] \in {"new", "incoming", "active"} => ~done[t] /\ attempt[t] < set.tries
        /\ place[t] \in {"finished", "gone"} => done[t]
        /\ calls[t] = IF done[t] THEN 1 ELSE 0
        /\ result[t] = "none" <=> ~done[t]
        /\ pos[t] = writtenToSink[t]

(* s continues the file after its first k chunks.                          *)
InOrder(s, k) == \A i \in 1..Len(s) : s[i] = k + i

(* What has been delivered is in the sink, in the hands of the caller and  *)
(* in the buffer, in this order.  After quit nothing is added.             *)
Delivered(t) ==
    LET got == Len(sunk[t]) + Len(chunk[t]) + Len(data[t]) IN
    /\ InOrder(sunk[t], 0)
    /\ InOrder(chunk[t], Len(sunk[t]))
    /\ InOrder(data[t], Len(sunk[t]) + Len(chunk[t]))
    /\ pc[t] \notin {"sink", "threw"} => chunk[t] = <<>>
    /\ result[t] # "none" => quit[t]
    /\ quit[t] => result[t] # "none" \/ pc[t] = "threw"
    /\ pc[t] # "threw" /\ ~quit[t] => got = writtenToSink[t]
    /\ pc[t] # "threw" /\ result[t] = "success" => got = set.size
    /\ t \in set.callers /\ pc[t] = "returned" => result[t] = "success" /\ data[t] = <<>>

DeliveredOK == \A t \in Transfers : Delivered(t)

(* An encoded file that has been started is not resumed.                   *)
EncodedOK ==
    set.encoded => \A t \in Transfers :
        /\ offset[t] = 0
        /\ status[t] = "ok" => hasContentEncoding[t]
        /\ writtenToSink[t] # 0 => /\ place[t] \in {"active", "finished", "gone"}
                                   /\ status[t] = "ok"

(* The chunks by which a buffer exceeds its limit, or the one that made    *)
(* the transfer pause.                                                     *)
Excess(t) ==
    IF Len(data[t]) > set.buffer THEN Len(data[t]) - set.buffer
    ELSE IF statePaused[t] THEN 1 ELSE 0

(* The occasions to exceed the limit once more: the transfer is or will be *)
(* started unpaused, and each request to unpause it that is on its way.    *)
Chances(t) ==
    (IF ~curlPaused[t] \/ place[t] = "incoming" THEN 1 ELSE 0)
    + (IF t \in unpauseList THEN 1 ELSE 0)
    + (IF t \in unpausing THEN 1 ELSE 0)

(* Only an attempt gives a new occasion.                                   *)
Bounded(t) ==
    /\ Excess(t) + Chances(t) <= attempt[t] + 1
    /\ pc[t] = "unpausing" => data[t] = <<>> /\ statePaused[t]
    /\ place[t] = "new" => ~curlPaused[t]
    /\ Len(data[t]) <= set.buffer + set.tries

ExcessOK == \A t \in Transfers : Bounded(t)

(* A paused item that is still wanted will be asked for, or has been, in   *)
(* whatever queue it is; and the item knows that curl is paused, unless    *)
(* data came when it was resumed.  No request is dropped by a new round.   *)
PausedOK ==
    /\ wpc = "perform" => unpausing = {}
    /\ lock # "none" => quitting
    /\ \A t \in Transfers :
        /\ paused[t] /\ ~quit[t] /\ ~quitting =>
              statePaused[t] \/ t \in unpauseList \/ t \in unpausing
        /\ curlPaused[t] => paused[t] \/ set.flushes

-----------------------------------------------------------------------------
(* What curl hands over has the type of the file.                          *)
LEMMA FinalSinkKeepsTypes ==
    ASSUME TypeOK, NEW t \in Transfers, FinalSink(t), set' = set
    PROVE  /\ pos' \in [Transfers -> 0..set.size] /\ writtenToSink' \in [Transfers -> Nat]
           /\ writtenToSink[t] = pos[t] => writtenToSink' \in [Transfers -> 0..set.size]
           /\ data' \in [Transfers -> Seq(0..set.size)]
           /\ statePaused' \in [Transfers -> BOOLEAN]
           /\ pc' \in [Transfers -> {"enqueue", "loop", "unpausing", "wait", "woken", "sink",
                                      "returned", "threw"}]
<1> USE SettingsAssumption DEF TypeOK, StateTypeOK, ItemTypeOK, CallerTypeOK
<1>1. set.size \in Nat /\ pos[t] \in 0..set.size /\ pos[t] < set.size
  BY DEF FinalSink
<1>2. /\ pos' \in [Transfers -> 0..set.size] /\ writtenToSink' \in [Transfers -> Nat]
      /\ writtenToSink[t] = pos[t] => writtenToSink' \in [Transfers -> 0..set.size]
  BY SMTT(30), <1>1 DEF FinalSink
<1>3. data' \in [Transfers -> Seq(0..set.size)]
  <2>1. NextChunk(t) \in 0..set.size
    BY <1>1 DEF NextChunk
  <2>2. data[t] \in Seq(0..set.size) /\ Buffered(t) \in Seq(0..set.size)
    BY <2>1 DEF Buffered
  <2> QED BY <2>2 DEF FinalSink, DataCallback
<1>4. statePaused' \in [Transfers -> BOOLEAN]
  <2>1. PICK full \in BOOLEAN : statePaused' = [statePaused EXCEPT ![t] = @ \/ full]
    BY DEF FinalSink, DataCallback, NeedsPause, TooFull
  <2> QED BY <2>1
<1>5. pc' = pc \/ Notify(t)
  BY DEF FinalSink, DataCallback
<1> QED BY <1>2, <1>3, <1>4, <1>5 DEF Notify

(* The destructor of an item, with or without its callback.                *)
LEMMA DestroyKeepsTypes ==
    ASSUME TypeOK, NEW t \in Transfers, Destroy(t)
    PROVE  ItemTypeOK' /\ CallerTypeOK'
<1>1. UNCHANGED <<set, attempt, writtenToSink, acceptRanges, hasContentEncoding, paused,
                  curl, chunk, data, statePaused, sunk>>
  BY DEF Destroy
<1>2. CASE done[t]
  BY SMTT(30), <1>1, <1>2 DEF Destroy, TypeOK, ItemTypeOK, CallerTypeOK, curl
<1>3. CASE CallBack(t, "failure")
  <2>1. ItemTypeOK'
    BY <1>1, <1>3 DEF CallBack, TypeOK, ItemTypeOK, curl
  <2>2. CallerTypeOK'
    BY <1>1, <1>3 DEF CallBack, Notify, TypeOK, CallerTypeOK, curl
  <2> QED BY <2>1, <2>2
<1> QED BY <1>2, <1>3 DEF Destroy

(* A step keeps the types and the life of the items.                       *)
LEMMA StepKeepsLife ==
    ASSUME TypeOK, LifeOK, [Next]_vars
    PROVE  TypeOK' /\ LifeOK'
<1> USE SettingsAssumption DEF TypeOK, StateTypeOK, ItemTypeOK, CallerTypeOK, LifeOK, state, item, curl, caller, worker, process
<1>1. ASSUME NEW t \in Transfers, Caller(t) \/ Curl(t) \/ EmbargoPasses(t) \/ Unpause(t) \/ Stop(t)
      PROVE  TypeOK' /\ LifeOK'
  <2>1. CASE EnqueueFileTransfer(t)
    <3>a. /\ \/ incoming' = incoming \cup {t} /\ place' = [place EXCEPT ![t] = "incoming"]
             \/ UNCHANGED <<incoming, place>>
          /\ \E label \in {"loop", "threw"} : pc' = [pc EXCEPT ![t] = label]
      BY <2>1 DEF EnqueueFileTransfer
    <3>b. UNCHANGED <<set, unpauseList, unpausing, quitting, lock, embargo, wpc, interrupted, signal>>
      BY <2>1 DEF EnqueueFileTransfer
    <3>c. UNCHANGED <<quit, statePaused, chunk, data, sunk, result>>
      BY <2>1 DEF EnqueueFileTransfer
    <3>1. StateTypeOK'
      <4>1. incoming' = {u \in Transfers : place'[u] = "incoming"} /\ incoming \subseteq incoming'
        BY SMTT(30), <3>a
      <4>2. place' \in [Transfers -> {"new", "incoming", "active", "finished", "gone"}]
        <5>1. place \in [Transfers -> {"new", "incoming", "active", "finished", "gone"}]
          OBVIOUS
        <5> HIDE DEF TypeOK, StateTypeOK, ItemTypeOK, CallerTypeOK, LifeOK
        <5> QED BY <3>a, <5>1
      <4> QED BY <3>b, <4>1, <4>2
    <3>2. ItemTypeOK'
      BY <2>1 DEF EnqueueFileTransfer
    <3>3. CallerTypeOK'
      BY <3>a, <3>b, <3>c
    <3>4. LifeOK'
      BY SMTT(30), <2>1 DEF EnqueueFileTransfer
    <3> QED BY <3>1, <3>2, <3>3, <3>4
  <2>2. CASE Throws(t)
    <3>1. StateTypeOK'
      BY <2>2 DEF Throws
    <3>2. ItemTypeOK'
      BY <2>2 DEF Throws
    <3>3. CallerTypeOK'
      BY <2>2 DEF Throws
    <3>4. LifeOK'
      BY <2>2 DEF Throws
    <3> QED BY <3>1, <3>2, <3>3, <3>4
  <2>3. CASE BufferEmpty(t)
    <3>1. StateTypeOK'
      BY <2>3 DEF BufferEmpty
    <3>2. ItemTypeOK'
      BY <2>3 DEF BufferEmpty
    <3>3. CallerTypeOK'
      BY <2>3 DEF BufferEmpty
    <3>4. LifeOK'
      BY <2>3 DEF BufferEmpty
    <3> QED BY <3>1, <3>2, <3>3, <3>4
  <2>4. CASE UnpauseTransfer(t)
    <3>1. StateTypeOK'
      BY <2>4 DEF UnpauseTransfer, AskToUnpause
    <3>2. ItemTypeOK'
      BY <2>4 DEF UnpauseTransfer, AskToUnpause
    <3>3. CallerTypeOK'
      BY <2>4 DEF UnpauseTransfer, AskToUnpause
    <3>4. LifeOK'
      BY <2>4 DEF UnpauseTransfer, AskToUnpause
    <3> QED BY <3>1, <3>2, <3>3, <3>4
  <2>5. CASE GrabData(t)
    <3>1. StateTypeOK'
      BY <2>5 DEF GrabData
    <3>2. ItemTypeOK'
      BY <2>5 DEF GrabData
    <3>3. CallerTypeOK'
      BY <2>5 DEF GrabData
    <3>4. LifeOK'
      BY <2>5 DEF GrabData
    <3> QED BY <3>1, <3>2, <3>3, <3>4
  <2>6. CASE Flush(t)
    <3>1. StateTypeOK'
      BY <2>6 DEF Flush
    <3>2. ItemTypeOK'
      BY <2>6 DEF Flush
    <3>3. CallerTypeOK'
      BY <2>6 DEF Flush
    <3>4. LifeOK'
      BY <2>6 DEF Flush
    <3> QED BY <3>1, <3>2, <3>3, <3>4
  <2>7. CASE HeaderCallback(t)
    <3>1. StateTypeOK'
      BY <2>7 DEF HeaderCallback, Performing
    <3>2. ItemTypeOK'
      BY <2>7 DEF HeaderCallback, Performing
    <3>3. CallerTypeOK'
      BY <2>7 DEF HeaderCallback, Performing
    <3>4. LifeOK'
      BY <2>7 DEF HeaderCallback, Performing
    <3> QED BY <3>1, <3>2, <3>3, <3>4
  <2>8. CASE WriteCallback(t)
    <3>0. FinalSink(t) /\ UNCHANGED <<set, chunk, quit, result, sunk>>
      BY <2>8 DEF WriteCallback
    <3>a. /\ pos' \in [Transfers -> 0..set.size]
          /\ writtenToSink' \in [Transfers -> 0..set.size]
          /\ data' \in [Transfers -> Seq(0..set.size)]
          /\ statePaused' \in [Transfers -> BOOLEAN]
          /\ pc' \in [Transfers -> {"enqueue", "loop", "unpausing", "wait", "woken", "sink",
                                      "returned", "threw"}]
      BY <3>0, FinalSinkKeepsTypes
    <3>1. StateTypeOK'
      BY <2>8 DEF WriteCallback
    <3>2. ItemTypeOK'
      <4>1. PICK full \in BOOLEAN : paused' = [paused EXCEPT ![t] = @ \/ full]
        BY <2>8 DEF WriteCallback, NeedsPause, TooFull
      <4>2. paused' \in [Transfers -> BOOLEAN]
        BY <4>1
      <4>3. curlPaused' \in [Transfers -> BOOLEAN]
        <5>1. curlPaused' = [curlPaused EXCEPT ![t] = paused'[t]]
          BY <2>8 DEF WriteCallback
        <5> QED BY <4>2, <5>1
      <4>4. UNCHANGED <<set, done, attempt, acceptRanges, hasContentEncoding, calls, status, offset>>
        BY <2>8 DEF WriteCallback
      <4> QED BY SMTT(30), <3>a, <4>2, <4>3, <4>4
    <3>3. CallerTypeOK'
      BY <3>0, <3>a
    <3>4. LifeOK'
      BY SMTT(30), <2>8 DEF WriteCallback, FinalSink, DataCallback, Notify
    <3> QED BY <3>1, <3>2, <3>3, <3>4
  <2>9. CASE FinishOk(t)
    <3>1. StateTypeOK'
      BY <2>9 DEF FinishOk, Performing, CallBack, Notify
    <3>2. ItemTypeOK'
      BY <2>9 DEF FinishOk, Performing, CallBack, Notify
    <3>3. CallerTypeOK'
      BY <2>9 DEF FinishOk, Performing, CallBack, Notify
    <3>4. LifeOK'
      BY SMTT(30), <2>9 DEF FinishOk, Performing, CallBack, Notify
    <3> QED BY <3>1, <3>2, <3>3, <3>4
  <2>10. CASE FinishFailed(t)
    <3>1. StateTypeOK'
      BY <2>10 DEF FinishFailed, Performing, CallBack, Notify
    <3>2. ItemTypeOK'
      <4>1. attempt' \in [Transfers -> 0..set.tries]
        BY <2>10 DEF FinishFailed, Performing
      <4>2. /\ done' = [done EXCEPT ![t] = TRUE] /\ calls' = [calls EXCEPT ![t] = @ + 1]
            /\ UNCHANGED <<set, writtenToSink, acceptRanges, hasContentEncoding, paused, curl>>
        BY <2>10 DEF FinishFailed, CallBack
      <4>3. done' \in [Transfers -> BOOLEAN] /\ calls' \in [Transfers -> Nat]
        BY <4>2
      <4> QED BY <4>1, <4>2, <4>3
    <3>3. CallerTypeOK'
      BY <2>10 DEF FinishFailed, Performing, CallBack, Notify
    <3>4. LifeOK'
      BY SMTT(30), <2>10 DEF FinishFailed, Performing, CallBack, Notify
    <3> QED BY <3>1, <3>2, <3>3, <3>4
  <2>11. CASE Retry(t)
    <3>1. StateTypeOK'
      BY SMTT(30), <2>11 DEF Retry, Performing
    <3>2. ItemTypeOK'
      BY <2>11 DEF Retry, Performing, CanRetry
    <3>3. CallerTypeOK'
      BY <2>11 DEF Retry, Performing, CanRetry
    <3>4. LifeOK'
      BY SMTT(30), <2>11 DEF Retry, Performing, CanRetry
    <3> QED BY <3>1, <3>2, <3>3, <3>4
  <2>12. CASE EmbargoPasses(t)
    BY <2>12 DEF EmbargoPasses
  <2>13. CASE Unpause(t)
    <3>0. UNCHANGED <<set, state, place, embargo, done, attempt, acceptRanges,
                         hasContentEncoding, calls, status, offset, chunk, quit, result, sunk,
                         process>>
      BY <2>13 DEF Unpause
    <3>a. paused' \in [Transfers -> BOOLEAN]
      <4>0. paused \in [Transfers -> BOOLEAN]
        OBVIOUS
      <4>1. paused' = paused \/ paused' = [paused EXCEPT ![t] = FALSE]
        BY <2>13 DEF Unpause, Resume
      <4> HIDE DEF TypeOK, StateTypeOK, ItemTypeOK, CallerTypeOK, LifeOK
      <4>2. [paused EXCEPT ![t] = FALSE] \in [Transfers -> BOOLEAN]
        BY <4>0
      <4> QED BY <4>0, <4>1, <4>2
    <3>b. curlPaused' \in [Transfers -> BOOLEAN]
      <4>0. curlPaused \in [Transfers -> BOOLEAN]
        OBVIOUS
      <4>1. curlPaused' = curlPaused \/ curlPaused' = [curlPaused EXCEPT ![t] = FALSE]
        BY <2>13 DEF Unpause, Resume
      <4> HIDE DEF TypeOK, StateTypeOK, ItemTypeOK, CallerTypeOK, LifeOK
      <4>2. [curlPaused EXCEPT ![t] = FALSE] \in [Transfers -> BOOLEAN]
        BY <4>0
      <4> QED BY <4>0, <4>1, <4>2
    <3>1. StateTypeOK'
      BY <2>13 DEF Unpause, LoopHead
    <3>2. CASE UNCHANGED <<writtenToSink, pos, data, statePaused, pc>>
      <4>2. ItemTypeOK'
        <5>1. UNCHANGED <<set, writtenToSink, pos>>
          BY <3>0, <3>2
        <5> QED BY <3>0, <3>a, <3>b, <5>1
      <4>3. CallerTypeOK' /\ LifeOK'
        BY <3>0, <3>2
      <4> QED BY <3>1, <4>2, <4>3
    <3>3. CASE FinalSink(t) /\ UNCHANGED curlPaused
      <4>a. /\ pos' \in [Transfers -> 0..set.size]
            /\ writtenToSink' \in [Transfers -> 0..set.size]
            /\ data' \in [Transfers -> Seq(0..set.size)]
            /\ statePaused' \in [Transfers -> BOOLEAN]
            /\ pc' \in [Transfers -> {"enqueue", "loop", "unpausing", "wait", "woken", "sink",
                                        "returned", "threw"}]
        BY <3>0, <3>3, FinalSinkKeepsTypes
      <4>2. ItemTypeOK'
        BY SMTT(30), <3>0, <3>a, <3>b, <4>a
      <4>3. CallerTypeOK'
        BY <3>0, <4>a
      <4>4. LifeOK'
        BY SMTT(30), <3>0, <3>3 DEF FinalSink, DataCallback, Notify
      <4> QED BY <3>1, <4>2, <4>3, <4>4
    <3> QED BY <2>13, <3>2, <3>3 DEF Unpause, Resume
  <2>14. CASE Erase(t)
    <3>1. StateTypeOK'
      BY <2>14 DEF Erase, Destroy, CallBack, Notify
    <3>2. ItemTypeOK'
      BY <2>14, DestroyKeepsTypes DEF Erase
    <3>3. CallerTypeOK'
      BY <2>14, DestroyKeepsTypes DEF Erase
    <3>4. LifeOK'
      BY <2>14 DEF Erase, Destroy, CallBack, Notify
    <3> QED BY <3>1, <3>2, <3>3, <3>4
  <2>15. CASE DestroyActive(t)
    <3>1. StateTypeOK'
      BY <2>15 DEF DestroyActive, Destroy, CallBack, Notify
    <3>2. ItemTypeOK'
      BY <2>15, DestroyKeepsTypes DEF DestroyActive
    <3>3. CallerTypeOK'
      BY <2>15, DestroyKeepsTypes DEF DestroyActive
    <3>4. LifeOK'
      BY SMTT(30), <2>15 DEF DestroyActive, Destroy, CallBack, Notify
    <3> QED BY <3>1, <3>2, <3>3, <3>4
  <2>16. CASE PopIncoming(t)
    <3>1. StateTypeOK'
      BY <2>16 DEF PopIncoming, Destroy, CallBack, Notify
    <3>2. ItemTypeOK'
      BY <2>16, DestroyKeepsTypes DEF PopIncoming
    <3>3. CallerTypeOK'
      BY <2>16, DestroyKeepsTypes DEF PopIncoming
    <3>4. LifeOK'
      BY SMTT(30), <2>16 DEF PopIncoming, Destroy, CallBack, Notify
    <3> QED BY <3>1, <3>2, <3>3, <3>4
  <2> QED BY <1>1, <2>1, <2>2, <2>3, <2>4, <2>5, <2>6, <2>7, <2>8, <2>9, <2>10, <2>11, <2>12, <2>13, <2>14, <2>15, <2>16 DEF Caller, Curl, Stop
<1>2. CASE Round
  <2>1. StateTypeOK'
    BY <1>2 DEF Round, StartAll, Ready, LoopHead
  <2>2. ItemTypeOK'
    BY <1>2 DEF Round, StartAll, Ready, LoopHead
  <2>3. CallerTypeOK'
    BY <1>2 DEF Round, StartAll, Ready, LoopHead
  <2>4. LifeOK'
    BY <1>2 DEF Round, StartAll, Ready, LoopHead
  <2> QED BY <2>1, <2>2, <2>3, <2>4
<1>3. CASE WorkerEnds
  <2>a. UNCHANGED <<set, place, incoming, embargo, interrupted>> /\ unpauseList' \in {unpauseList, {}}
    BY <1>3 DEF WorkerEnds, BeginQuit, EndQuit
  <2>b. /\ quitting' \in {quitting, TRUE} /\ lock' \in {lock, "none", "worker"}
        /\ wpc' \in {wpc, "exited", "quit"} /\ UNCHANGED <<unpausing, signal>>
    BY <1>3 DEF WorkerEnds, BeginQuit, EndQuit
  <2>1. StateTypeOK'
    BY <2>a, <2>b
  <2>2. ItemTypeOK'
    BY <1>3 DEF WorkerEnds, BeginQuit, EndQuit
  <2>3. CallerTypeOK'
    BY <1>3 DEF WorkerEnds, BeginQuit, EndQuit
  <2>4. LifeOK'
    BY <1>3 DEF WorkerEnds, BeginQuit, EndQuit
  <2> QED BY <2>1, <2>2, <2>3, <2>4
<1>4. CASE Interrupt
  <2>a. UNCHANGED <<set, place, incoming, embargo, unpausing, wpc>> /\ unpauseList' \in {unpauseList, {}}
    BY <1>4 DEF Interrupt, BeginQuit, EndQuit
  <2>b. /\ quitting' \in {quitting, TRUE} /\ lock' \in {lock, "none", "signal"}
        /\ signal' \in {signal, "pending", "done"} /\ interrupted' \in {interrupted, TRUE}
    BY <1>4 DEF Interrupt, BeginQuit, EndQuit
  <2>1. StateTypeOK'
    BY ZenonT(30), <2>a, <2>b
  <2>2. ItemTypeOK'
    BY <1>4 DEF Interrupt, BeginQuit, EndQuit
  <2>3. CallerTypeOK'
    BY <1>4 DEF Interrupt, BeginQuit, EndQuit
  <2>4. LifeOK'
    BY <1>4 DEF Interrupt, BeginQuit, EndQuit
  <2> QED BY <2>1, <2>2, <2>3, <2>4
<1>5. CASE UNCHANGED vars
  BY <1>5 DEF vars
<1> QED BY <1>1, <1>2, <1>3, <1>4, <1>5 DEF Next, Over

-----------------------------------------------------------------------------
(* A step does not resume an encoded file.                                 *)
LEMMA StepKeepsEncoded ==
    ASSUME TypeOK, LifeOK, EncodedOK, [Next]_vars
    PROVE  EncodedOK'
<1> USE SettingsAssumption DEF TypeOK, StateTypeOK, ItemTypeOK, EncodedOK, item, curl
<1>1. ASSUME NEW t \in Transfers, Caller(t) PROVE EncodedOK'
  <2>1. CASE EnqueueFileTransfer(t)
    BY <2>1 DEF EnqueueFileTransfer, LifeOK
  <2>2. CASE Throws(t) \/ BufferEmpty(t) \/ UnpauseTransfer(t) \/ GrabData(t) \/ Flush(t)
    BY ZenonT(30), <2>2 DEF Throws, BufferEmpty, UnpauseTransfer, GrabData, Flush
  <2> QED BY <1>1, <2>1, <2>2 DEF Caller
<1>2. ASSUME NEW t \in Transfers, Curl(t) PROVE EncodedOK'
  <2>1. CASE HeaderCallback(t)
    BY <2>1 DEF HeaderCallback
  <2>2. CASE WriteCallback(t)
    BY <2>2 DEF WriteCallback, FinalSink, Performing
  <2>3. CASE FinishOk(t)
    BY <2>3 DEF FinishOk
  <2>4. CASE FinishFailed(t)
    BY <2>4 DEF FinishFailed
  <2>5. CASE Retry(t)
    BY <2>5 DEF Retry, CanRetry, Performing
  <2> QED BY <1>2, <2>1, <2>2, <2>3, <2>4, <2>5 DEF Curl
<1>3. ASSUME NEW t \in Transfers, EmbargoPasses(t) \/ Unpause(t) \/ Stop(t) PROVE EncodedOK'
  <2>1. CASE EmbargoPasses(t) \/ Stop(t)
    BY <2>1 DEF EmbargoPasses, Stop, Erase, DestroyActive, PopIncoming, Destroy
  <2>2. CASE Unpause(t)
    <3>1. UNCHANGED <<set, place, offset, status, hasContentEncoding>>
      BY <2>2 DEF Unpause
    <3>2. \/ writtenToSink' = writtenToSink
          \/ /\ place[t] = "active" /\ status[t] = "ok"
             /\ writtenToSink' = [writtenToSink EXCEPT ![t] = @ + 1]
      BY <2>2 DEF Unpause, Resume, FinalSink
    <3> QED BY <3>1, <3>2
  <2> QED BY <1>3, <2>1, <2>2
<1>4. CASE Round
  BY <1>4 DEF Round, StartAll, Ready
<1>5. CASE WorkerEnds \/ Interrupt \/ UNCHANGED vars
  BY <1>5 DEF WorkerEnds, Interrupt, BeginQuit, EndQuit, vars
<1> QED BY <1>1, <1>2, <1>3, <1>4, <1>5 DEF Next, Over

-----------------------------------------------------------------------------
(* Two parts of the file that follow one another.                          *)
LEMMA InOrderConcat ==
    ASSUME NEW m \in Nat, NEW s \in Seq(0..m), NEW r \in Seq(0..m), NEW k \in Nat,
           InOrder(s, k), InOrder(r, k + Len(s))
    PROVE  s \o r \in Seq(0..m) /\ Len(s \o r) = Len(s) + Len(r) /\ InOrder(s \o r, k)
<1>1. s \o r \in Seq(0..m) /\ Len(s \o r) = Len(s) + Len(r)
  OBVIOUS
<1>2. ASSUME NEW i \in 1..Len(s \o r) PROVE (s \o r)[i] = k + i
  <2>1. CASE i <= Len(s)
    <3>1. i \in 1..Len(s) /\ (s \o r)[i] = s[i]
      BY <1>1, <2>1
    <3> QED BY <3>1 DEF InOrder
  <2>2. CASE i > Len(s)
    <3>1. i - Len(s) \in 1..Len(r) /\ (s \o r)[i] = r[i - Len(s)]
      BY <1>1, <2>2
    <3>2. r[i - Len(s)] = (k + Len(s)) + (i - Len(s))
      BY <3>1 DEF InOrder
    <3> QED BY <1>1, <3>1, <3>2
  <2> QED BY <1>1, <2>1, <2>2
<1> QED BY <1>1, <1>2 DEF InOrder

(* The next chunk of the file.                                             *)
LEMMA InOrderAppend ==
    ASSUME NEW m \in Nat, NEW s \in Seq(0..m), NEW k \in Nat, InOrder(s, k),
           NEW next \in 0..m, next = k + Len(s) + 1
    PROVE  Len(Append(s, next)) = Len(s) + 1 /\ InOrder(Append(s, next), k)
  BY DEF InOrder

(* What Delivered(u) is about.                                             *)
LEMMA SameDelivered ==
    ASSUME NEW u, Delivered(u), set' = set,
           sunk'[u] = sunk[u], chunk'[u] = chunk[u], data'[u] = data[u], pc'[u] = pc[u],
           quit'[u] = quit[u], result'[u] = result[u], writtenToSink'[u] = writtenToSink[u]
    PROVE  Delivered(u)'
  BY DEF Delivered

(* The callback changes the state of its download only, and a download     *)
(* that was successful has all chunks.                                     *)
LEMMA CallBackKeepsDelivered ==
    ASSUME TypeOK, LifeOK, DeliveredOK, NEW t \in Transfers, NEW r \in {"success", "failure"},
           CallBack(t, r), ~done[t], r = "success" => pos[t] = set.size,
           UNCHANGED <<set, sunk, chunk, data, writtenToSink>>
    PROVE  DeliveredOK'
<1>1. ASSUME NEW u \in Transfers, u # t PROVE Delivered(u)'
  BY <1>1, SameDelivered DEF CallBack, Notify, TypeOK, CallerTypeOK, DeliveredOK
<1>2. /\ quit'[t] = TRUE /\ result'[t] = r /\ result[t] = "none"
      /\ pc'[t] = IF pc[t] = "wait" THEN "woken" ELSE pc[t]
  BY DEF CallBack, Notify, TypeOK, CallerTypeOK, LifeOK
<1>3. Delivered(t)'
  BY <1>2 DEF DeliveredOK, Delivered, LifeOK
<1> QED BY <1>1, <1>3 DEF DeliveredOK

(* The next chunk goes to the end of what was delivered.                   *)
LEMMA FinalSinkKeepsDelivered ==
    ASSUME TypeOK, LifeOK, EncodedOK, DeliveredOK, NEW t \in Transfers, FinalSink(t),
           place[t] = "active", UNCHANGED <<set, sunk, chunk, quit, result>>
    PROVE  DeliveredOK'
<1> USE SettingsAssumption DEF TypeOK, CallerTypeOK
<1> DEFINE next == NextChunk(t)
<1>1. /\ pc[t] # "unpausing" /\ pos[t] < set.size
      /\ data' = [data EXCEPT ![t] = IF quit[t] THEN @ ELSE Append(@, next)]
      /\ writtenToSink' = [writtenToSink EXCEPT ![t] = @ + 1]
      /\ pc' = pc \/ pc' = [pc EXCEPT ![t] = IF @ = "wait" THEN "woken" ELSE @]
  BY DEF FinalSink, DataCallback, Buffered, Notify, Unlocked
<1>2. ASSUME NEW u \in Transfers, u # t PROVE Delivered(u)'
  BY <1>1, <1>2, SameDelivered DEF DeliveredOK, ItemTypeOK
<1>3. /\ next = pos[t] + 1 /\ next \in 0..set.size /\ pos[t] = writtenToSink[t]
      /\ writtenToSink[t] \in Nat /\ writtenToSink'[t] = writtenToSink[t] + 1
  BY <1>1 DEF NextChunk, EncodedOK, LifeOK, ItemTypeOK, StateTypeOK
<1> HIDE DEF next
<1>4. CASE quit[t]
  <2>1. data'[t] = data[t]
    BY <1>1, <1>4
  <2>2. pc'[t] = IF pc[t] = "wait" /\ pc'[t] = "woken" THEN "woken" ELSE pc[t]
    BY <1>1
  <2>3. Delivered(t)'
    BY <1>4, <2>1, <2>2 DEF DeliveredOK, Delivered
  <2> QED BY <1>2, <2>3 DEF DeliveredOK
<1>5. CASE ~quit[t] /\ pc[t] # "threw"
  <2>0. set.size \in Nat /\ data[t] \in Seq(0..set.size)
    BY DEF StateTypeOK
  <2>1. data'[t] = Append(data[t], next)
    BY <1>1, <1>5
  <2>2. /\ Len(sunk[t]) + Len(chunk[t]) \in Nat /\ Len(sunk[t]) \in Nat /\ Len(chunk[t]) \in Nat
        /\ Len(data[t]) \in Nat
    OBVIOUS
  <2>3. next = (Len(sunk[t]) + Len(chunk[t])) + Len(data[t]) + 1
    BY <1>3, <1>5 DEF DeliveredOK, Delivered
  <2>4. Len(data'[t]) = Len(data[t]) + 1 /\ InOrder(data'[t], Len(sunk[t]) + Len(chunk[t]))
    <3>1. InOrder(data[t], Len(sunk[t]) + Len(chunk[t]))
      BY DEF DeliveredOK, Delivered
    <3>2. /\ Len(Append(data[t], next)) = Len(data[t]) + 1
          /\ InOrder(Append(data[t], next), Len(sunk[t]) + Len(chunk[t]))
      BY <1>3, <2>0, <2>2, <2>3, <3>1, InOrderAppend
    <3> QED BY <2>1, <3>2
  <2>5. Delivered(t)'
    BY SMTT(30), <1>1, <1>3, <1>5, <2>2, <2>4 DEF DeliveredOK, Delivered
  <2> QED BY <1>2, <2>5 DEF DeliveredOK
<1>6. CASE ~quit[t] /\ pc[t] = "threw"
  \* enqueueItem threw, and there is no item
  BY <1>6 DEF LifeOK
<1> QED BY <1>4, <1>5, <1>6

(* A step keeps the order of what was delivered.                           *)
LEMMA StepKeepsDelivered ==
    ASSUME TypeOK, LifeOK, EncodedOK, DeliveredOK, [Next]_vars
    PROVE  DeliveredOK'
<1> USE SettingsAssumption DEF TypeOK, CallerTypeOK
<1>1. ASSUME NEW t \in Transfers, Caller(t) PROVE DeliveredOK'
  <2>1. CASE EnqueueFileTransfer(t)
    <3>1. PICK label \in {"loop", "threw"} : pc[t] = "enqueue" /\ pc' = [pc EXCEPT ![t] = label]
      BY <2>1 DEF EnqueueFileTransfer
    <3>2. UNCHANGED <<set, sunk, chunk, data, quit, result, writtenToSink>>
      BY <2>1 DEF EnqueueFileTransfer
    <3>3. ASSUME NEW u \in Transfers, u # t PROVE Delivered(u)'
      BY <3>1, <3>2, <3>3, SameDelivered DEF DeliveredOK
    <3>4. Delivered(t)'
      BY <3>1, <3>2 DEF DeliveredOK, Delivered
    <3> QED BY <3>3, <3>4 DEF DeliveredOK
  <2>2. CASE Throws(t)
    <3>1. pc' = [pc EXCEPT ![t] = "threw"] /\ quit' = [quit EXCEPT ![t] = TRUE]
      BY <2>2 DEF Throws
    <3>2. UNCHANGED <<set, sunk, chunk, data, result, writtenToSink>>
      BY <2>2 DEF Throws, item
    <3>3. ASSUME NEW u \in Transfers, u # t PROVE Delivered(u)'
      BY <3>1, <3>2, <3>3, SameDelivered DEF DeliveredOK
    <3>4. Delivered(t)'
      BY <3>1, <3>2 DEF DeliveredOK, Delivered
    <3> QED BY <3>3, <3>4 DEF DeliveredOK
  <2>3. CASE BufferEmpty(t)
    <3>1. PICK label \in {"threw", "returned", "unpausing", "wait"} :
             /\ pc[t] = "loop" /\ data[t] = <<>>
             /\ pc' = [pc EXCEPT ![t] = label]
             /\ label = "returned" => quit[t] /\ result[t] # "failure"
      BY <2>3 DEF BufferEmpty
    <3>2. UNCHANGED <<set, sunk, chunk, data, quit, result, writtenToSink>>
      BY <2>3 DEF BufferEmpty, item
    <3>3. ASSUME NEW u \in Transfers, u # t PROVE Delivered(u)'
      BY <3>1, <3>2, <3>3, SameDelivered DEF DeliveredOK
    <3>4. Delivered(t)'
      BY <3>1, <3>2 DEF DeliveredOK, Delivered
    <3> QED BY <3>3, <3>4 DEF DeliveredOK
  <2>4. CASE UnpauseTransfer(t)
    <3>1. pc[t] = "unpausing" /\ pc' = [pc EXCEPT ![t] = "wait"]
      BY <2>4 DEF UnpauseTransfer
    <3>2. UNCHANGED <<set, sunk, chunk, data, quit, result, writtenToSink>>
      BY <2>4 DEF UnpauseTransfer, item
    <3>3. ASSUME NEW u \in Transfers, u # t PROVE Delivered(u)'
      BY <3>1, <3>2, <3>3, SameDelivered DEF DeliveredOK
    <3>4. Delivered(t)'
      BY <3>1, <3>2 DEF DeliveredOK, Delivered
    <3> QED BY <3>3, <3>4 DEF DeliveredOK
  <2>5. CASE GrabData(t)
    <3>1. /\ pc[t] \in {"woken", "loop"} /\ chunk[t] = <<>>
          /\ pc' = [pc EXCEPT ![t] = IF data[t] = <<>> THEN "loop" ELSE "sink"]
          /\ chunk' = [chunk EXCEPT ![t] = data[t]] /\ data' = [data EXCEPT ![t] = <<>>]
      BY <2>5 DEF GrabData, DeliveredOK, Delivered
    <3>2. UNCHANGED <<set, sunk, quit, result, writtenToSink>>
      BY <2>5 DEF GrabData, item
    <3>3. ASSUME NEW u \in Transfers, u # t PROVE Delivered(u)'
      BY <3>1, <3>2, <3>3, SameDelivered DEF DeliveredOK
    <3>4. Delivered(t)'
      <4>1. chunk'[t] = data[t] /\ data'[t] = <<>>
        BY <3>1
      <4>2. Len(chunk'[t]) = Len(data[t]) /\ Len(data'[t]) = 0 /\ Len(chunk[t]) = 0
        BY <3>1, <4>1
      <4>3. Len(sunk[t]) \in Nat /\ Len(data[t]) \in Nat
        OBVIOUS
      <4>4. Len(sunk[t]) + Len(chunk[t]) = Len(sunk[t])
        BY <4>2, <4>3
      <4>5. InOrder(chunk'[t], Len(sunk[t]))
        BY <4>1, <4>4 DEF DeliveredOK, Delivered
      <4>6. InOrder(data'[t], Len(sunk[t]) + Len(chunk'[t]))
        BY <4>2 DEF InOrder
      <4>7. Len(sunk[t]) + Len(chunk'[t]) + Len(data'[t]) = Len(sunk[t]) + Len(chunk[t]) + Len(data[t])
        BY <4>2, <4>3
      <4>8. pc'[t] \in {"loop", "sink"} /\ (pc'[t] = "loop" => chunk'[t] = <<>>)
        BY <3>1, <4>1
      <4> QED BY <3>1, <3>2, <4>1, <4>5, <4>6, <4>7, <4>8 DEF DeliveredOK, Delivered
    <3> QED BY <3>3, <3>4 DEF DeliveredOK
  <2>6. CASE Flush(t)
    <3>1. /\ pc[t] = "sink" /\ pc' = [pc EXCEPT ![t] = "loop"]
          /\ sunk' = [sunk EXCEPT ![t] = @ \o chunk[t]] /\ chunk' = [chunk EXCEPT ![t] = <<>>]
      BY <2>6 DEF Flush
    <3>2. UNCHANGED <<set, data, quit, result, writtenToSink>>
      BY <2>6 DEF Flush, item
    <3>3. ASSUME NEW u \in Transfers, u # t PROVE Delivered(u)'
      BY <3>1, <3>2, <3>3, SameDelivered DEF DeliveredOK
    <3>4. Delivered(t)'
      <4>0. set.size \in Nat /\ sunk[t] \in Seq(0..set.size) /\ chunk[t] \in Seq(0..set.size)
        BY DEF StateTypeOK
      <4>1. sunk'[t] = sunk[t] \o chunk[t] /\ chunk'[t] = <<>>
        BY <3>1
      <4>2. Len(sunk'[t]) = Len(sunk[t]) + Len(chunk[t]) /\ InOrder(sunk'[t], 0)
        <5>1. InOrder(sunk[t], 0) /\ InOrder(chunk[t], 0 + Len(sunk[t]))
          BY <4>0 DEF DeliveredOK, Delivered
        <5>2. /\ Len(sunk[t] \o chunk[t]) = Len(sunk[t]) + Len(chunk[t])
              /\ InOrder(sunk[t] \o chunk[t], 0)
          BY ZenonT(30), <4>0, <5>1, InOrderConcat
        <5> QED BY <4>1, <5>2
      <4>3. InOrder(chunk'[t], Len(sunk'[t])) /\ Len(chunk'[t]) = 0
        BY <4>1 DEF InOrder
      <4>4. Len(sunk[t]) \in Nat /\ Len(chunk[t]) \in Nat /\ Len(data[t]) \in Nat
        OBVIOUS
      <4>5. /\ Len(sunk'[t]) + Len(chunk'[t]) = Len(sunk[t]) + Len(chunk[t])
            /\ Len(sunk'[t]) + Len(chunk'[t]) + Len(data'[t]) = Len(sunk[t]) + Len(chunk[t]) + Len(data[t])
        BY <3>2, <4>2, <4>3, <4>4
      <4>6. InOrder(data'[t], Len(sunk'[t]) + Len(chunk'[t]))
        BY <3>2, <4>5 DEF DeliveredOK, Delivered
      <4>7. pc'[t] = "loop"
        BY <3>1
      <4> QED BY <3>1, <3>2, <4>1, <4>2, <4>3, <4>5, <4>6, <4>7 DEF DeliveredOK, Delivered
    <3> QED BY <3>3, <3>4 DEF DeliveredOK
  <2> QED BY <1>1, <2>1, <2>2, <2>3, <2>4, <2>5, <2>6 DEF Caller
<1>2. ASSUME NEW t \in Transfers, WriteCallback(t) PROVE DeliveredOK'
  BY <1>2, FinalSinkKeepsDelivered DEF WriteCallback, Performing
<1>3. ASSUME NEW t \in Transfers, FinishOk(t) \/ FinishFailed(t) PROVE DeliveredOK'
  BY <1>3, CallBackKeepsDelivered DEF FinishOk, FinishFailed, Performing, LifeOK
<1>4. ASSUME NEW t \in Transfers, Stop(t) PROVE DeliveredOK'
  <2>1. Destroy(t)
    BY <1>4 DEF Stop, Erase, DestroyActive, PopIncoming
  <2>2. CASE done[t]
    BY <2>1, <2>2, SameDelivered DEF Destroy, DeliveredOK
  <2>3. CASE ~done[t]
    BY <2>1, <2>3, CallBackKeepsDelivered DEF Destroy
  <2> QED BY <2>2, <2>3
<1>5. ASSUME UNCHANGED <<set, sunk, chunk, data, pc, quit, result, writtenToSink>>
      PROVE  DeliveredOK'
  BY <1>5, SameDelivered DEF DeliveredOK
<1>6. ASSUME NEW t \in Transfers,
             HeaderCallback(t) \/ Retry(t) \/ EmbargoPasses(t) \/ Unpause(t)
      PROVE  DeliveredOK'
  <2>1. CASE HeaderCallback(t) \/ Retry(t) \/ EmbargoPasses(t)
    BY <1>5, <2>1 DEF HeaderCallback, Retry, EmbargoPasses, caller
  <2>2. CASE Unpause(t)
    <3>1. UNCHANGED <<set, sunk, chunk, quit, result>>
      BY <2>2 DEF Unpause
    <3>2. \/ UNCHANGED <<data, pc, writtenToSink>>
          \/ FinalSink(t) /\ place[t] = "active"
      BY <2>2 DEF Unpause, Resume
    <3> QED BY <1>5, <3>1, <3>2, FinalSinkKeepsDelivered
  <2> QED BY <1>6, <2>1, <2>2
<1>7. CASE Round \/ WorkerEnds \/ Interrupt \/ UNCHANGED vars
  BY <1>5, <1>7 DEF Round, WorkerEnds, Interrupt, BeginQuit, EndQuit, caller, item, vars
<1> QED BY <1>1, <1>2, <1>3, <1>4, <1>6, <1>7 DEF Next, Curl, Over

-----------------------------------------------------------------------------
(* As long as the buffer is left alone, an attempt may give one occasion   *)
(* to exceed it.                                                           *)
LEMMA SameBounded ==
    ASSUME TypeOK, TypeOK', NEW u \in Transfers, Bounded(u), set' = set,
           data'[u] = data[u], statePaused'[u] = statePaused[u],
           attempt'[u] >= attempt[u],
           Chances(u)' + attempt[u] <= Chances(u) + attempt'[u],
           pc'[u] = "unpausing" => pc[u] = "unpausing",
           place'[u] = "new" => place[u] = "new" /\ curlPaused'[u] = curlPaused[u]
    PROVE  Bounded(u)'
<1>1. Excess(u)' = Excess(u)
  BY DEF Excess
<1>2. Excess(u) \in Nat
  BY SettingsAssumption DEF Excess, TypeOK, StateTypeOK, CallerTypeOK
<1>3. Chances(u) \in Nat /\ Chances(u)' \in Nat
  BY DEF Chances
<1>4. attempt[u] \in Nat /\ attempt'[u] \in Nat
  BY SettingsAssumption DEF TypeOK, ItemTypeOK, StateTypeOK
<1>5. Excess(u)' + Chances(u)' <= attempt'[u] + 1
  BY <1>1, <1>2, <1>3, <1>4 DEF Bounded
<1> QED BY <1>5 DEF Bounded

(* A step that leaves alone what the bound is about.                       *)
LEMMA UntouchedBounded ==
    ASSUME TypeOK, TypeOK', NEW u \in Transfers, Bounded(u), set' = set,
           data'[u] = data[u], statePaused'[u] = statePaused[u], attempt'[u] = attempt[u],
           curlPaused'[u] = curlPaused[u], place'[u] = place[u],
           u \in unpauseList' => u \in unpauseList, u \in unpausing' => u \in unpausing,
           pc'[u] = "unpausing" => pc[u] = "unpausing"
    PROVE  Bounded(u)'
<1>1. Chances(u)' <= Chances(u) /\ Chances(u) \in Nat /\ Chances(u)' \in Nat
  BY DEF Chances
<1>2. attempt[u] \in Nat
  BY SettingsAssumption DEF TypeOK, ItemTypeOK, StateTypeOK
<1> QED BY <1>1, <1>2, SameBounded

(* The next chunk exceeds the limit by at most one more, and if it does    *)
(* the transfer is to be paused.                                           *)
LEMMA FinalSinkExcess ==
    ASSUME TypeOK, TypeOK', NEW t \in Transfers, FinalSink(t), set' = set
    PROVE  /\ \A u \in Transfers : u # t => /\ data'[u] = data[u] /\ pc'[u] = pc[u]
                                            /\ statePaused'[u] = statePaused[u]
           /\ pc'[t] # "unpausing"
           /\ Excess(t) \in Nat /\ Excess(t)' \in Nat
           /\ Excess(t)' <= Excess(t) \/ (Excess(t)' <= Excess(t) + 1 /\ NeedsPause(t))
           /\ Len(data'[t]) <= set.buffer + Excess(t)'
<1> USE SettingsAssumption DEF TypeOK, CallerTypeOK
<1>0. /\ data' = [data EXCEPT ![t] = IF quit[t] THEN @ ELSE Buffered(t)]
      /\ statePaused' = [statePaused EXCEPT ![t] = @ \/ NeedsPause(t)]
      /\ Unlocked(t) /\ (pc' = pc \/ Notify(t))
  BY DEF FinalSink, DataCallback
<1>1. \A u \in Transfers : u # t => data'[u] = data[u] /\ statePaused'[u] = statePaused[u]
  BY <1>0
<1>3. pc'[t] # "unpausing" /\ \A u \in Transfers : u # t => pc'[u] = pc[u]
  BY <1>0 DEF Notify, Unlocked
<1>4. /\ Len(data[t]) \in Nat /\ Len(data'[t]) \in Nat /\ set.buffer \in Nat
  BY DEF StateTypeOK
<1>5. \/ data'[t] = data[t] /\ statePaused'[t] = statePaused[t]
      \/ /\ Len(data'[t]) = Len(data[t]) + 1
         /\ Len(data'[t]) <= set.buffer
         /\ statePaused'[t] = statePaused[t]
      \/ /\ Len(data'[t]) = Len(data[t]) + 1
         /\ Len(data'[t]) > set.buffer
         /\ NeedsPause(t)
  <2>1. Len(Buffered(t)) = Len(data[t]) + 1
    BY DEF Buffered
  <2>2. NeedsPause(t) <=> ~quit[t] /\ Len(Buffered(t)) > set.buffer
    BY DEF NeedsPause, TooFull
  <2>3. CASE quit[t]
    BY <1>0, <2>2, <2>3
  <2>4. CASE ~quit[t]
    BY <1>0, <1>4, <2>1, <2>2, <2>4
  <2> QED BY <2>3, <2>4
<1>6. /\ Excess(t) \in Nat /\ Excess(t)' \in Nat
      /\ Excess(t)' <= Excess(t) \/ (Excess(t)' <= Excess(t) + 1 /\ NeedsPause(t))
  <2>1. CASE data'[t] = data[t] /\ statePaused'[t] = statePaused[t]
    BY <1>4, <2>1 DEF Excess
  <2>2. CASE /\ Len(data'[t]) = Len(data[t]) + 1
             /\ Len(data'[t]) <= set.buffer
             /\ statePaused'[t] = statePaused[t]
    BY <1>4, <2>2 DEF Excess
  <2>3. CASE /\ Len(data'[t]) = Len(data[t]) + 1
             /\ Len(data'[t]) > set.buffer
             /\ NeedsPause(t)
    BY <1>4, <2>3 DEF Excess
  <2> QED BY <1>5, <2>1, <2>2, <2>3
<1>7. Len(data'[t]) <= set.buffer + Excess(t)'
  BY <1>4 DEF Excess
<1> QED BY <1>1, <1>3, <1>6, <1>7

(* A step keeps the bound on the excess.                                   *)
LEMMA StepKeepsExcess ==
    ASSUME TypeOK, TypeOK', LifeOK, ExcessOK, [Next]_vars
    PROVE  ExcessOK'
<1> USE SettingsAssumption DEF TypeOK
<1>0. \A u \in Transfers : attempt[u] \in Nat /\ attempt'[u] \in Nat
  BY DEF StateTypeOK, ItemTypeOK
<1>1. ASSUME NEW t \in Transfers, Caller(t) PROVE ExcessOK'
  <2>1. CASE EnqueueFileTransfer(t)
    <3>1. UNCHANGED <<set, data, statePaused, attempt, curlPaused, unpauseList, unpausing>>
      BY <2>1 DEF EnqueueFileTransfer, curl, worker
    <3>2. /\ place[t] = "new" /\ pc'[t] # "unpausing"
          /\ \A u \in Transfers : u # t => place'[u] = place[u] /\ pc'[u] = pc[u]
      BY <2>1 DEF EnqueueFileTransfer, LifeOK, StateTypeOK, CallerTypeOK
    <3>3. Chances(t)' <= Chances(t) /\ Chances(t) \in Nat /\ Chances(t)' \in Nat
      BY <3>1, <3>2 DEF Chances, ExcessOK, Bounded
    <3>4. Bounded(t)'
      BY <1>0, <3>1, <3>2, <3>3, SameBounded DEF ExcessOK
    <3>5. ASSUME NEW u \in Transfers, u # t PROVE Bounded(u)'
      BY <3>1, <3>2, <3>5, UntouchedBounded DEF ExcessOK
    <3> QED BY <3>4, <3>5 DEF ExcessOK
  <2>2. CASE Throws(t) \/ Flush(t)
    <3>1. /\ UNCHANGED <<set, data, statePaused, attempt, curlPaused, unpauseList, unpausing, place>>
          /\ \A u \in Transfers : pc'[u] = "unpausing" => pc[u] = "unpausing"
      BY <2>2 DEF Throws, Flush, state, item, curl, worker, CallerTypeOK
    <3> QED BY <3>1, UntouchedBounded DEF ExcessOK
  <2>3. CASE BufferEmpty(t)
    <3>1. UNCHANGED <<set, data, statePaused, attempt, curlPaused, unpauseList, unpausing, place>>
      BY <2>3 DEF BufferEmpty, state, item, curl, worker
    <3>2. /\ pc'[t] = "unpausing" => data[t] = <<>> /\ statePaused[t]
          /\ \A u \in Transfers : u # t => pc'[u] = pc[u]
      BY <2>3 DEF BufferEmpty, CallerTypeOK
    <3>3. Bounded(t)'
      BY <3>1, <3>2 DEF ExcessOK, Bounded, Excess, Chances
    <3>4. ASSUME NEW u \in Transfers, u # t PROVE Bounded(u)'
      BY <3>1, <3>2, <3>4, UntouchedBounded DEF ExcessOK
    <3> QED BY <3>3, <3>4 DEF ExcessOK
  <2>4. CASE UnpauseTransfer(t)
    <3>1. UNCHANGED <<set, data, attempt, curlPaused, unpausing, place>>
      BY <2>4 DEF UnpauseTransfer, item, curl, worker
    <3>2. /\ pc[t] = "unpausing" /\ pc'[t] = "wait" /\ ~statePaused'[t]
          /\ unpauseList' = unpauseList \cup {t}
          /\ \A u \in Transfers : u # t => pc'[u] = pc[u] /\ statePaused'[u] = statePaused[u]
      BY <2>4 DEF UnpauseTransfer, AskToUnpause, CallerTypeOK
    <3>3. Bounded(t)'
      <4>1. Len(data[t]) = 0 /\ statePaused[t]
        BY <3>2 DEF ExcessOK, Bounded
      <4>2. Excess(t) = 1 /\ Excess(t)' = 0
        BY <3>1, <3>2, <4>1 DEF Excess, StateTypeOK
      <4>3. Chances(t)' <= Chances(t) + 1 /\ Chances(t) \in Nat /\ Chances(t)' \in Nat
        BY <3>1, <3>2 DEF Chances
      <4>4. Excess(t)' + Chances(t)' <= attempt'[t] + 1
        BY <1>0, <3>1, <4>2, <4>3 DEF ExcessOK, Bounded
      <4> QED BY <3>1, <3>2, <4>4 DEF ExcessOK, Bounded
    <3>4. ASSUME NEW u \in Transfers, u # t PROVE Bounded(u)'
      BY <3>1, <3>2, <3>4, UntouchedBounded DEF ExcessOK
    <3> QED BY <3>3, <3>4 DEF ExcessOK
  <2>5. CASE GrabData(t)
    <3>1. UNCHANGED <<set, statePaused, attempt, curlPaused, unpauseList, unpausing, place>>
      BY <2>5 DEF GrabData, state, item, curl, worker
    <3>2. /\ data'[t] = <<>> /\ pc'[t] # "unpausing"
          /\ \A u \in Transfers : u # t => pc'[u] = pc[u] /\ data'[u] = data[u]
      BY <2>5 DEF GrabData, CallerTypeOK
    <3>3. Bounded(t)'
      <4>1. Len(data'[t]) = 0 /\ Len(data[t]) \in Nat /\ set.buffer \in Nat /\ set.tries \in Nat
        BY <3>2 DEF CallerTypeOK, StateTypeOK
      <4>2. Excess(t)' <= Excess(t) /\ Excess(t) \in Nat /\ Excess(t)' \in Nat
        BY <3>1, <4>1 DEF Excess
      <4>3. Chances(t)' = Chances(t) /\ Chances(t) \in Nat
        BY <3>1 DEF Chances
      <4>4. Excess(t)' + Chances(t)' <= attempt'[t] + 1
        BY <1>0, <3>1, <4>2, <4>3 DEF ExcessOK, Bounded
      <4> QED BY <3>1, <3>2, <4>1, <4>4 DEF ExcessOK, Bounded
    <3>4. ASSUME NEW u \in Transfers, u # t PROVE Bounded(u)'
      BY <3>1, <3>2, <3>4, UntouchedBounded DEF ExcessOK
    <3> QED BY <3>3, <3>4 DEF ExcessOK
  <2> QED BY <1>1, <2>1, <2>2, <2>3, <2>4, <2>5 DEF Caller
<1>2. ASSUME NEW t \in Transfers, WriteCallback(t) PROVE ExcessOK'
  <2>1. UNCHANGED <<set, attempt, unpauseList, unpausing, place>>
    BY <1>2 DEF WriteCallback, state, worker
  <2>2. FinalSink(t) /\ set' = set
    BY <1>2 DEF WriteCallback
  <2>3. /\ \A u \in Transfers : u # t => curlPaused'[u] = curlPaused[u]
        /\ place[t] = "active" /\ ~curlPaused[t] /\ (NeedsPause(t) => curlPaused'[t])
    BY <1>2 DEF WriteCallback, Performing, ItemTypeOK
  <2>4. attempt[t] + 1 <= set.tries
    BY <1>0, <2>3 DEF LifeOK, StateTypeOK
  <2>5. Chances(t) \in Nat /\ Chances(t)' \in Nat /\ Chances(t)' <= Chances(t)
    BY <2>1, <2>3 DEF Chances
  <2>6. curlPaused'[t] => Chances(t)' + 1 = Chances(t)
    BY <2>1, <2>3 DEF Chances
  <2>7. /\ Excess(t) \in Nat /\ Excess(t)' \in Nat
        /\ Excess(t)' <= Excess(t) \/ (Excess(t)' <= Excess(t) + 1 /\ curlPaused'[t])
    BY <2>2, <2>3, FinalSinkExcess
  <2>8. Excess(t)' + Chances(t)' <= Excess(t) + Chances(t)
    BY <2>5, <2>6, <2>7
  <2>9. Excess(t)' + Chances(t)' <= attempt'[t] + 1
    BY <1>0, <2>1, <2>5, <2>7, <2>8 DEF ExcessOK, Bounded
  <2>10. Len(data'[t]) <= set.buffer + set.tries
    <3>1. Len(data'[t]) <= set.buffer + Excess(t)'
      BY <2>2, FinalSinkExcess
    <3>2. Len(data'[t]) \in Nat /\ set.buffer \in Nat /\ set.tries \in Nat
      BY DEF StateTypeOK, CallerTypeOK
    <3> QED BY SMTT(30), <1>0, <2>1, <2>4, <2>5, <2>7, <2>9, <3>1, <3>2
  <2>11. Bounded(t)'
    BY <2>1, <2>2, <2>3, <2>9, <2>10, FinalSinkExcess DEF Bounded
  <2>12. ASSUME NEW u \in Transfers, u # t PROVE Bounded(u)'
    BY <2>1, <2>2, <2>3, <2>12, FinalSinkExcess, UntouchedBounded DEF ExcessOK
  <2> QED BY <2>11, <2>12 DEF ExcessOK
<1>3. ASSUME NEW t \in Transfers, HeaderCallback(t) \/ EmbargoPasses(t) PROVE ExcessOK'
  BY <1>3, UntouchedBounded DEF HeaderCallback, EmbargoPasses, state, caller, curl, worker, ExcessOK
<1>4. ASSUME NEW t \in Transfers, FinishOk(t) \/ FinishFailed(t) \/ Retry(t) \/ Stop(t)
      PROVE  ExcessOK'
  <2>1. UNCHANGED <<set, data, statePaused, curlPaused, unpauseList, unpausing>>
    BY <1>4 DEF FinishOk, FinishFailed, Retry, Stop, Erase, DestroyActive, PopIncoming, Destroy, state, caller, curl, worker
  <2>2. \A u \in Transfers :
           /\ u # t => place'[u] = place[u] /\ attempt'[u] = attempt[u]
           /\ pc'[u] = "unpausing" => pc[u] = "unpausing"
    <3>1. CASE Retry(t)
      BY <3>1 DEF Retry, StateTypeOK, ItemTypeOK, caller
    <3>2. CASE FinishOk(t) \/ FinishFailed(t)
      <4>1. \A u \in Transfers : u # t => place'[u] = place[u] /\ attempt'[u] = attempt[u]
        BY <3>2 DEF FinishOk, FinishFailed, StateTypeOK, ItemTypeOK
      <4>2. Notify(t)
        BY <3>2 DEF FinishOk, FinishFailed, CallBack
      <4> QED BY <4>1, <4>2 DEF Notify, CallerTypeOK
    <3>3. CASE Stop(t)
      <4>0. Destroy(t)
        BY <3>3 DEF Stop, Erase, DestroyActive, PopIncoming
      <4>1. \A u \in Transfers : u # t => place'[u] = place[u] /\ attempt'[u] = attempt[u]
        BY <4>0 DEF Destroy, StateTypeOK
      <4>2. pc' = pc \/ Notify(t)
        BY <4>0 DEF Destroy, CallBack
      <4> QED BY <4>1, <4>2 DEF Notify, CallerTypeOK
    <3> QED BY <1>4, <3>1, <3>2, <3>3
  <2>3. \/ place'[t] \in {"finished", "gone"} /\ attempt'[t] \in {attempt[t], attempt[t] + 1}
        \/ place'[t] = "incoming" /\ attempt'[t] = attempt[t] + 1
    BY <1>4 DEF FinishOk, FinishFailed, Retry, Stop, Erase, DestroyActive, PopIncoming, Destroy, StateTypeOK, ItemTypeOK
  <2>4. /\ Chances(t) \in Nat /\ Chances(t)' \in Nat
        /\ Chances(t)' <= Chances(t) \/ (Chances(t)' <= Chances(t) + 1 /\ attempt'[t] = attempt[t] + 1)
    BY <2>1, <2>3 DEF Chances
  <2>5. attempt'[t] >= attempt[t] /\ Chances(t)' + attempt[t] <= Chances(t) + attempt'[t]
    BY <1>0, <2>3, <2>4
  <2>6. Bounded(t)'
    BY <2>1, <2>2, <2>3, <2>5, SameBounded DEF ExcessOK
  <2>7. ASSUME NEW u \in Transfers, u # t PROVE Bounded(u)'
    BY <2>1, <2>2, <2>7, UntouchedBounded DEF ExcessOK
  <2> QED BY <2>6, <2>7 DEF ExcessOK
<1>5. ASSUME NEW t \in Transfers, Unpause(t) PROVE ExcessOK'
  <2>1. UNCHANGED <<set, attempt, unpauseList, place>>
    BY <1>5 DEF Unpause, state
  <2>2. /\ t \in unpausing /\ unpausing' = unpausing \ {t}
        /\ \A u \in Transfers : u # t => curlPaused'[u] = curlPaused[u]
        /\ place[t] = "new" => ~curlPaused'[t]
    BY <1>5 DEF Unpause, Resume, ItemTypeOK, ExcessOK, Bounded
  <2>3. Chances(t)' <= Chances(t) /\ Chances(t) \in Nat /\ Chances(t)' \in Nat
    BY <2>1, <2>2 DEF Chances
  <2>4. CASE UNCHANGED <<data, statePaused, pc>>
    <3>1. Excess(t)' = Excess(t) /\ Excess(t) \in Nat
      BY <2>1, <2>4 DEF Excess, CallerTypeOK, StateTypeOK
    <3>2. Excess(t)' + Chances(t)' <= attempt'[t] + 1
      BY <1>0, <2>1, <2>3, <3>1 DEF ExcessOK, Bounded
    <3>3. Bounded(t)'
      BY <2>1, <2>2, <2>4, <3>2 DEF ExcessOK, Bounded
    <3>4. ASSUME NEW u \in Transfers, u # t PROVE Bounded(u)'
      BY <2>1, <2>2, <2>4, <3>4, UntouchedBounded DEF ExcessOK
    <3> QED BY <3>3, <3>4 DEF ExcessOK
  <2>5. CASE FinalSink(t) /\ place[t] = "active" /\ curlPaused' = curlPaused
    \* the request has had its chunk
    <3>1. Chances(t)' + 1 = Chances(t)
      BY <2>1, <2>2, <2>5 DEF Chances
    <3>2. /\ Excess(t) \in Nat /\ Excess(t)' \in Nat /\ Excess(t)' <= Excess(t) + 1
          /\ pc'[t] # "unpausing" /\ Len(data'[t]) <= set.buffer + Excess(t)'
      BY <2>1, <2>5, FinalSinkExcess
    <3>3. Excess(t)' + Chances(t)' <= attempt'[t] + 1
      BY <1>0, <2>1, <2>3, <3>1, <3>2 DEF ExcessOK, Bounded
    <3>4. attempt[t] + 1 <= set.tries
      BY <1>0, <2>5 DEF LifeOK, StateTypeOK
    <3>5. Len(data'[t]) <= set.buffer + set.tries
      <4>1. Len(data'[t]) \in Nat /\ set.buffer \in Nat /\ set.tries \in Nat
        BY DEF StateTypeOK, CallerTypeOK
      <4>2. attempt'[t] = attempt[t] /\ attempt[t] \in Nat
        BY <1>0, <2>1
      <4> HIDE DEF Excess, Chances
      <4> QED BY SMTT(30), <2>3, <3>2, <3>3, <3>4, <4>1, <4>2
    <3>6. Bounded(t)'
      BY <2>1, <2>5, <3>2, <3>3, <3>5 DEF Bounded
    <3>7. ASSUME NEW u \in Transfers, u # t PROVE Bounded(u)'
      BY <2>1, <2>2, <2>5, <3>7, FinalSinkExcess, UntouchedBounded DEF ExcessOK
    <3> QED BY <3>6, <3>7 DEF ExcessOK
  <2> QED BY <1>5, <2>4, <2>5 DEF Unpause, Resume
<1>6. CASE Round
  <2>1. /\ UNCHANGED <<set, data, statePaused, attempt, pc>>
        /\ unpauseList' = {} /\ unpausing' = unpauseList
    BY <1>6 DEF Round, caller
  <2>2. \A u \in Transfers :
           \/ place'[u] = place[u] /\ curlPaused'[u] = curlPaused[u]
           \/ place[u] = "incoming" /\ place'[u] = "active"
    <3>1. PICK items \in SUBSET incoming : StartAll(items)
      BY <1>6 DEF Round, Ready
    <3> QED BY <3>1 DEF StartAll, StateTypeOK, ItemTypeOK
  <2>3. ASSUME NEW u \in Transfers PROVE Bounded(u)'
    <3>1. Chances(u)' <= Chances(u) /\ Chances(u) \in Nat /\ Chances(u)' \in Nat
      BY <2>1, <2>2 DEF Chances
    <3> QED BY <1>0, <2>1, <2>2, <3>1, SameBounded DEF ExcessOK
  <2> QED BY <2>3 DEF ExcessOK
<1>7. CASE WorkerEnds \/ Interrupt \/ UNCHANGED vars
  <2>1. /\ UNCHANGED <<set, data, statePaused, attempt, curlPaused, unpausing, place, pc>>
        /\ unpauseList' \in {unpauseList, {}}
    BY <1>7 DEF WorkerEnds, Interrupt, BeginQuit, EndQuit, state, caller, item, curl, worker, vars
  <2> QED BY <2>1, UntouchedBounded DEF ExcessOK
<1> QED BY <1>1, <1>2, <1>3, <1>4, <1>5, <1>6, <1>7 DEF Next, Curl, Over

-----------------------------------------------------------------------------
(* A step forgets no pause.                                                *)
LEMMA StepKeepsPaused ==
    ASSUME TypeOK, LifeOK, DeliveredOK, PausedOK, [Next]_vars
    PROVE  PausedOK'
<1> USE DEF TypeOK, StateTypeOK, ItemTypeOK, CallerTypeOK
<1>1. ASSUME NEW t \in Transfers, Caller(t) PROVE PausedOK'
  <2>1. UNCHANGED <<set, paused, curlPaused, unpausing, quitting, lock, wpc>>
    BY <1>1 DEF Caller, EnqueueFileTransfer, Throws, BufferEmpty, UnpauseTransfer, GrabData, Flush, state, item, curl, worker
  <2>2. \A u \in Transfers : quit[u] => quit'[u]
    BY ZenonT(30), <1>1 DEF Caller, EnqueueFileTransfer, Throws, BufferEmpty, UnpauseTransfer, GrabData, Flush
  <2>3. CASE UnpauseTransfer(t)
    BY <2>1, <2>2, <2>3 DEF UnpauseTransfer, AskToUnpause, PausedOK
  <2>4. CASE UNCHANGED <<unpauseList, statePaused>>
    BY <2>1, <2>2, <2>4 DEF PausedOK
  <2> QED BY <1>1, <2>3, <2>4 DEF Caller, EnqueueFileTransfer, Throws, BufferEmpty, GrabData, Flush, state
<1>2. ASSUME NEW t \in Transfers, WriteCallback(t) PROVE PausedOK'
  <2>1. UNCHANGED <<set, unpauseList, unpausing, quitting, quit, lock, wpc>>
    BY <1>2 DEF WriteCallback, state, worker
  <2>2. PICK full \in BOOLEAN : /\ statePaused' = [statePaused EXCEPT ![t] = @ \/ full]
                                /\ paused' = [paused EXCEPT ![t] = @ \/ full]
    BY <1>2 DEF WriteCallback, FinalSink, DataCallback, NeedsPause, TooFull
  <2>3. curlPaused' = [curlPaused EXCEPT ![t] = paused'[t]]
    BY <1>2 DEF WriteCallback
  <2>4. \A u \in Transfers : paused'[u] => paused[u] \/ statePaused'[u]
    BY <2>2
  <2>5. \A u \in Transfers : statePaused[u] => statePaused'[u]
    BY <2>2
  <2>6. \A u \in Transfers : (paused[u] => paused'[u]) /\ (curlPaused'[u] => curlPaused[u] \/ paused'[u])
    BY <2>2, <2>3
  <2> QED BY <2>1, <2>4, <2>5, <2>6 DEF PausedOK
<1>3. ASSUME NEW t \in Transfers, Unpause(t) PROVE PausedOK'
  <2>1. /\ UNCHANGED <<set, unpauseList, quitting, quit, lock>> /\ unpausing' = unpausing \ {t}
        /\ wpc' = "perform" => unpausing' = {}
    BY <1>3 DEF Unpause, state
  <2>2. \A u \in Transfers : statePaused[u] => statePaused'[u]
    <3>1. \/ statePaused' = statePaused
          \/ statePaused' = [statePaused EXCEPT ![t] = @ \/ NeedsPause(t)]
      BY <1>3 DEF Unpause, Resume, FinalSink, DataCallback
    <3> QED BY ZenonT(30), <3>1
  <2>a. \A u \in Transfers : u # t => paused'[u] = paused[u] /\ curlPaused'[u] = curlPaused[u]
    BY <1>3 DEF Unpause, Resume
  <2>3. CASE Unpausable(t)
    <3>1. ~paused'[t] /\ (curlPaused'[t] => set.flushes)
      BY <1>3, <2>3 DEF Unpause, Resume
    <3>2. ASSUME NEW u \in Transfers
          PROVE  /\ paused'[u] /\ ~quit'[u] /\ ~quitting' =>
                       statePaused'[u] \/ u \in unpauseList' \/ u \in unpausing'
                 /\ curlPaused'[u] => paused'[u] \/ set'.flushes
      <4>1. CASE u = t
        BY <2>1, <3>1, <4>1
      <4>2. CASE u # t
        BY SMTT(30), <2>1, <2>2, <2>a, <4>2 DEF PausedOK
      <4> QED BY <4>1, <4>2
    <3> QED BY <2>1, <3>2 DEF PausedOK
  <2>4. CASE ~Unpausable(t)
    <3>1. paused' = paused /\ curlPaused' = curlPaused
      BY <1>3, <2>4 DEF Unpause
    <3>2. ~paused[t] \/ quit[t]
      BY <2>4 DEF Unpausable, LifeOK, DeliveredOK, Delivered
    <3>3. ASSUME NEW u \in Transfers, paused'[u], ~quit'[u], ~quitting'
          PROVE  statePaused'[u] \/ u \in unpauseList' \/ u \in unpausing'
      <4>1. u # t
        BY <2>1, <3>1, <3>2, <3>3
      <4> QED BY <2>1, <2>2, <3>1, <3>3, <4>1 DEF PausedOK
    <3>4. \A u \in Transfers : curlPaused'[u] => paused'[u] \/ set'.flushes
      BY <2>1, <3>1 DEF PausedOK
    <3> QED BY <2>1, <3>3, <3>4 DEF PausedOK
  <2> QED BY <2>3, <2>4
<1>4. ASSUME NEW t \in Transfers, HeaderCallback(t) \/ FinishOk(t) \/ FinishFailed(t) \/ Retry(t)
                                  \/ EmbargoPasses(t) \/ Stop(t)
      PROVE  PausedOK'
  <2>1. UNCHANGED <<set, paused, curlPaused, statePaused, unpauseList, unpausing, quitting, lock, wpc>>
    BY <1>4 DEF HeaderCallback, FinishOk, FinishFailed, Retry, EmbargoPasses, Stop, Erase, DestroyActive, PopIncoming, Destroy, state, caller, curl, worker
  <2>2. \A u \in Transfers : quit[u] => quit'[u]
    <3>1. quit' = quit \/ quit' = [quit EXCEPT ![t] = TRUE]
      <4>1. CASE HeaderCallback(t) \/ Retry(t) \/ EmbargoPasses(t)
        BY <4>1 DEF HeaderCallback, Retry, EmbargoPasses, caller
      <4>2. CASE FinishOk(t) \/ FinishFailed(t)
        BY <4>2 DEF FinishOk, FinishFailed, CallBack
      <4>3. CASE Stop(t)
        BY <4>3 DEF Stop, Erase, DestroyActive, PopIncoming, Destroy, CallBack
      <4> QED BY <1>4, <4>1, <4>2, <4>3
    <3> QED BY <3>1
  <2> QED BY <2>1, <2>2 DEF PausedOK
<1>5. CASE Round
  <2>1. /\ UNCHANGED <<set, paused, statePaused, quitting, quit, lock>>
        /\ unpausing' = unpauseList /\ wpc = "perform"
        /\ wpc' = "perform" => unpauseList = {}
    BY <1>5 DEF Round, caller
  <2>2. \A u \in Transfers : curlPaused'[u] => curlPaused[u]
    BY <1>5 DEF Round, StartAll
  <2> QED BY <2>1, <2>2 DEF PausedOK
<1>6. CASE WorkerEnds \/ Interrupt \/ UNCHANGED vars
  <2>1. /\ UNCHANGED <<set, paused, curlPaused, statePaused, unpausing, quit>>
        /\ quitting => quitting'
        /\ quitting' \/ unpauseList' = unpauseList
        /\ lock' # "none" => quitting'
        /\ wpc' = "perform" => wpc = "perform"
    BY <1>6 DEF PausedOK, WorkerEnds, Interrupt, BeginQuit, EndQuit, state, caller, item, curl, worker, vars
  <2> QED BY <2>1 DEF PausedOK
<1> QED BY <1>1, <1>2, <1>3, <1>4, <1>5, <1>6 DEF Next, Curl, Over

-----------------------------------------------------------------------------
IInv == TypeOK /\ LifeOK /\ EncodedOK /\ DeliveredOK /\ ExcessOK /\ PausedOK

(* The invariants hold at the beginning.                                   *)
LEMMA InitIInv == Init => IInv
<1> SUFFICES ASSUME Init PROVE IInv
  OBVIOUS
<1> USE SettingsAssumption DEF Init, Each
<1>1. TypeOK
  <2>1. StateTypeOK
    BY DEF StateTypeOK
  <2>2. ItemTypeOK
    BY DEF ItemTypeOK
  <2>3. CallerTypeOK
    <3>1. <<>> \in Seq(0..set.size)
      OBVIOUS
    <3> QED BY <3>1 DEF CallerTypeOK
  <2> QED BY <2>1, <2>2, <2>3 DEF TypeOK
<1>2. LifeOK
  BY DEF LifeOK
<1>3. EncodedOK
  BY DEF EncodedOK
<1>4. DeliveredOK
  BY DEF DeliveredOK, Delivered, InOrder
<1>5. ExcessOK
  BY DEF ExcessOK, Bounded, Excess, Chances
<1>6. PausedOK
  BY DEF PausedOK
<1> QED BY <1>1, <1>2, <1>3, <1>4, <1>5, <1>6 DEF IInv

(* They hold in every reachable state.                                     *)
LEMMA IInvHolds == Spec => []IInv
<1>1. IInv /\ [Next]_vars => IInv'
  BY StepKeepsLife, StepKeepsEncoded, StepKeepsDelivered, StepKeepsExcess, StepKeepsPaused DEF IInv
<1> QED BY <1>1, InitIInv, PTL DEF Spec

(* Every variable of the transfers keeps its type; in particular an item   *)
(* with an embargo is always one of the incoming queue.                    *)
THEOREM TypeCorrect == Spec => []TypeOK
  BY IInvHolds, PTL DEF IInv

(* The callback of an enqueued item is called exactly once before the item *)
(* is gone, for any number of downloads, attempts and interrupts.          *)
THEOREM CalledBackOnceHolds == Spec => []CalledBackOnce
<1>1. IInv => CalledBackOnce
  BY DEF IInv, TypeOK, StateTypeOK, LifeOK, CalledBackOnce
<1> QED BY <1>1, IInvHolds, PTL

(* The sink receives the chunks of the file in order, once each, and all   *)
(* of them when download() returns: whatever the number of attempts, the   *)
(* size of the file and of the buffer.                                     *)
THEOREM SinkGetsFileHolds == Spec => []SinkGetsFile
<1>1. ASSUME IInv, NEW t \in Transfers
      PROVE  LET got == sunk[t] \o chunk[t] \o data[t] IN
             /\ \A i \in 1..Len(got) : got[i] = i
             /\ t \in set.callers /\ pc[t] = "returned" => Len(sunk[t]) = set.size
  <2>0. /\ set.size \in Nat /\ sunk[t] \in Seq(0..set.size)
        /\ chunk[t] \in Seq(0..set.size) /\ data[t] \in Seq(0..set.size)
    BY <1>1, SettingsAssumption DEF IInv, TypeOK, StateTypeOK, CallerTypeOK
  <2>1. Delivered(t)
    BY <1>1 DEF IInv, DeliveredOK
  <2> DEFINE front == sunk[t] \o chunk[t]
  <2>2. InOrder(sunk[t], 0) /\ InOrder(chunk[t], 0 + Len(sunk[t]))
    BY <2>0, <2>1 DEF Delivered
  <2>3. front \in Seq(0..set.size) /\ Len(front) = Len(sunk[t]) + Len(chunk[t]) /\ InOrder(front, 0)
    BY <2>0, <2>2, InOrderConcat
  <2> HIDE DEF front
  <2>4. InOrder(data[t], 0 + Len(front))
    <3>1. 0 + Len(front) = Len(sunk[t]) + Len(chunk[t])
      BY <2>0, <2>3
    <3> QED BY <2>1, <3>1 DEF Delivered
  <2>5. InOrder(front \o data[t], 0) /\ front \o data[t] \in Seq(0..set.size)
    BY <2>0, <2>3, <2>4, InOrderConcat
  <2>6. \A i \in 1..Len(front \o data[t]) : (front \o data[t])[i] = i
    BY <2>5 DEF InOrder
  <2>7. t \in set.callers /\ pc[t] = "returned" => Len(sunk[t]) = set.size
    <3> SUFFICES ASSUME t \in set.callers, pc[t] = "returned" PROVE Len(sunk[t]) = set.size
      OBVIOUS
    <3>1. /\ Len(sunk[t]) + Len(chunk[t]) + Len(data[t]) = set.size
          /\ chunk[t] = <<>> /\ data[t] = <<>>
      BY <2>1 DEF Delivered
    <3>2. Len(chunk[t]) = 0 /\ Len(data[t]) = 0 /\ Len(sunk[t]) \in Nat
      BY <2>0, <3>1
    <3> QED BY <3>1, <3>2
  <2> QED BY <2>6, <2>7 DEF front
<1>2. IInv => SinkGetsFile
  BY <1>1 DEF SinkGetsFile
<1> QED BY <1>2, IInvHolds, PTL

(* The buffer exceeds its limit by at most one chunk for each attempt,     *)
(* although a retried transfer starts unpaused and requests to unpause may *)
(* arrive late.                                                            *)
THEOREM BufferBoundedHolds == Spec => []BufferBounded
<1>1. IInv => BufferBounded
  BY DEF IInv, ExcessOK, Bounded, BufferBounded
<1> QED BY <1>1, IInvHolds, PTL

(* A transfer that curl has paused is known to be paused, and its caller   *)
(* will ask for it or has done so, over all attempts; but for one that got *)
(* data while it was resumed.                                              *)
THEOREM NoPauseForgottenHolds == Spec => []NoPauseForgotten
<1>1. IInv => NoPauseForgotten
  BY DEF IInv, TypeOK, ItemTypeOK, PausedOK, NoPauseForgotten
<1> QED BY <1>1, IInvHolds, PTL

=============================================================================
