---------------------------- MODULE FileTransfer ----------------------------
(***************************************************************************)
(* Downloads into a sink (libstore/filetransfer.cc).  A caller of          *)
(* FileTransfer::download enqueues a TransferItem and moves data from a    *)
(* bounded buffer to its sink; the one worker thread drives curl, retries  *)
(* after transient errors, resuming where it was, and pauses the transfer  *)
(* while the buffer is full.  An interrupt stops the worker thread.        *)
(*                                                                         *)
(* The file is a sequence of chunks 1..size.  Two mutexes matter: `state_` *)
(* of the worker's State, held across steps only inside quit(), and the    *)
(* `_state` of a download, held across steps only by a caller that is      *)
(* about to call unpauseTransfer.  Any other locked section is one step.   *)
(* curl is known by how the code uses it: an active transfer that is not   *)
(* paused delivers chunks in order from the requested offset, and ends.    *)
(* Poll timeouts are bounded, so the worker's loop goes round without them.*)
(***************************************************************************)
EXTENDS Naturals, Sequences, FiniteSets

CONSTANTS
    Transfers,      \* the calls of download()
    Settings,       \* the settings to be tried, records with the fields
                    \*   callers    the calls that are made
                    \*   tries      the limit on attempts
                    \*   size       chunks of the file
                    \*   buffer     downloadBufferSize, in chunks
                    \*   encoded    the server has the file in encoded form only
                    \*   throws     sinks may throw
                    \*   interrupt  the process may be interrupted
                    \*   flushes    curl may hold data when a transfer is resumed
    MaxQueue        \* maxQueueSize

ASSUME MaxQueueAssumption == MaxQueue \in Nat \ {0}
ASSUME TransfersAssumption == IsFiniteSet(Transfers)

\* `tries` = 0 would be the same as 1: a first attempt is always made.
ASSUME SettingsAssumption ==
    \A s \in Settings : /\ s.callers \subseteq Transfers
                         /\ s.tries \in Nat \ {0} /\ s.size \in Nat /\ s.buffer \in Nat
                         /\ {s.encoded, s.throws, s.interrupt, s.flushes} \subseteq BOOLEAN

VARIABLES
    set,            \* the settings of this behaviour
    \* curlFileTransfer::State, and the worker's copy of its list
    incoming, unpauseList, quitting,
    lock,           \* who is in quit(): "none", "signal" or "worker"
    unpausing,
    \* a TransferItem
    place,          \* "new", "incoming", "active" (in `items`), "finished" or "gone"
    embargo,        \* the transfers whose embargo has not passed
    done, attempt, writtenToSink, acceptRanges, hasContentEncoding, paused,
    calls,          \* how often the callback was called
    \* curl's side of an active transfer: the status of the response, the
    \* offset that was asked for, the chunks delivered, paused or not
    status, offset, pos, curlPaused,
    \* a call of download(): its place, its chunk and its State
    pc, chunk, data, quit, statePaused, result,
    sunk,           \* what the sink has received
    \* the worker thread, the flag of the process, the signal handler thread
    wpc, interrupted, signal

state == <<incoming, unpauseList, quitting, lock>>
item == <<place, embargo, done, attempt, writtenToSink, acceptRanges, hasContentEncoding,
          paused, calls>>
curl == <<status, offset, pos, curlPaused>>
caller == <<pc, chunk, data, quit, statePaused, result, sunk>>
worker == <<wpc, unpausing>>
process == <<interrupted, signal>>
vars == <<set, state, item, curl, caller, worker, process>>

Each(v) == [t \in Transfers |-> v]

StateTypeOK ==
    /\ set \in Settings
    /\ place \in [Transfers -> {"new", "incoming", "active", "finished", "gone"}]
    /\ incoming = {t \in Transfers : place[t] = "incoming"} /\ embargo \subseteq incoming
    /\ unpauseList \subseteq Transfers /\ unpausing \subseteq Transfers
    /\ quitting \in BOOLEAN /\ interrupted \in BOOLEAN
    /\ lock \in {"none", "signal", "worker"}
    /\ wpc \in {"perform", "unpause", "break", "unwind", "quit", "exited"}
    /\ signal \in {"none", "pending", "done"}

ItemTypeOK ==
    /\ {done, acceptRanges, hasContentEncoding, paused, curlPaused}
          \subseteq [Transfers -> BOOLEAN]
    /\ attempt \in [Transfers -> 0..set.tries] /\ calls \in [Transfers -> Nat]
    /\ {writtenToSink, offset, pos} \subseteq [Transfers -> 0..set.size]
    /\ status \in [Transfers -> {"none", "ok", "error"}]

CallerTypeOK ==
    /\ pc \in [Transfers -> {"enqueue", "loop", "unpausing", "wait", "woken", "sink",
                             "returned", "threw"}]
    /\ {quit, statePaused} \subseteq [Transfers -> BOOLEAN]
    /\ {chunk, data, sunk} \subseteq [Transfers -> Seq(0..set.size)]
    /\ result \in [Transfers -> {"none", "success", "failure"}]

TypeOK == StateTypeOK /\ ItemTypeOK /\ CallerTypeOK

Init ==
    /\ set \in Settings
    /\ incoming = {} /\ unpauseList = {} /\ quitting = FALSE /\ lock = "none"
    /\ place = Each("new") /\ embargo = {} /\ done = Each(FALSE) /\ attempt = Each(0)
    /\ writtenToSink = Each(0) /\ acceptRanges = Each(FALSE)
    /\ hasContentEncoding = Each(FALSE) /\ paused = Each(FALSE) /\ calls = Each(0)
    /\ status = Each("none") /\ offset = Each(0) /\ pos = Each(0) /\ curlPaused = Each(FALSE)
    /\ pc = [t \in Transfers |-> IF t \in set.callers THEN "enqueue" ELSE "returned"]
    /\ chunk = Each(<<>>) /\ data = Each(<<>>) /\ quit = Each(FALSE)
    /\ statePaused = Each(FALSE) /\ result = Each("none") /\ sunk = Each(<<>>)
    /\ wpc = "perform" /\ unpausing = {} /\ interrupted = FALSE /\ signal = "none"

(* The mutex of a download's State is free. *)
Unlocked(t) == pc[t] # "unpausing"

(* state->avail.notify_one() *)
Notify(t) == pc' = [pc EXCEPT ![t] = IF @ = "wait" THEN "woken" ELSE @]

-----------------------------------------------------------------------------
(* download(): the thread of the caller. *)

Ended(t) == pc[t] \in {"returned", "threw"}

(* enqueueItem of a new item.  When the thread is shutting down it throws, *)
(* and the destructor of an item that was never enqueued says nothing.     *)
EnqueueFileTransfer(t) ==
    /\ pc[t] = "enqueue"
    /\ lock = "none"
    /\ \/ /\ ~quitting
          /\ incoming' = incoming \cup {t}
          /\ place' = [place EXCEPT ![t] = "incoming"]
          /\ pc' = [pc EXCEPT ![t] = "loop"]
       \/ /\ quitting
          /\ pc' = [pc EXCEPT ![t] = "threw"]
          /\ UNCHANGED <<incoming, place>>
    /\ UNCHANGED <<set, unpauseList, quitting, lock, embargo, done, attempt, writtenToSink,
                   acceptRanges, hasContentEncoding, paused, calls, curl, worker, process,
                   chunk, data, quit, statePaused, result, sunk>>

(* checkInterrupt() or the sink throws; `Finally` sets quit. *)
Throws(t) ==
    /\ \/ pc[t] = "loop" /\ interrupted
       \/ pc[t] = "sink" /\ set.throws
    /\ pc' = [pc EXCEPT ![t] = "threw"]
    /\ quit' = [quit EXCEPT ![t] = TRUE]
    /\ UNCHANGED <<set, state, item, curl, worker, process, chunk, data, statePaused, result,
                   sunk>>

(* The buffer is empty: it is all over, the transfer has to be unpaused, or wait. *)
BufferEmpty(t) ==
    /\ pc[t] = "loop" /\ ~interrupted
    /\ data[t] = <<>>
    /\ pc' = [pc EXCEPT ![t] = CASE quit[t] /\ result[t] = "failure" -> "threw"
                                 [] quit[t] /\ result[t] # "failure" -> "returned"
                                 [] ~quit[t] /\ statePaused[t] -> "unpausing"
                                 [] OTHER -> "wait"]
    /\ UNCHANGED <<set, state, item, curl, worker, process, chunk, data, quit, statePaused,
                   result, sunk>>

(* Mutant: `paused` is reset although nobody is asked to unpause. *)
AskToUnpauseForgotten(t) == UNCHANGED unpauseList

(* unpauseTransfer(handle) *)
AskToUnpause(t) == unpauseList' = unpauseList \cup {t}

(* It needs the mutex of state_ while the one of the download is held. *)
UnpauseTransfer(t) ==
    /\ pc[t] = "unpausing"
    /\ lock = "none"
    /\ AskToUnpause(t)
    /\ statePaused' = [statePaused EXCEPT ![t] = FALSE]
    /\ pc' = [pc EXCEPT ![t] = "wait"]
    /\ UNCHANGED <<set, incoming, quitting, lock, item, curl, worker, process,
                   chunk, data, quit, result, sunk>>

(* Take the data, at once or after the wait; `continue` if there is none.  *)
GrabData(t) ==
    /\ pc[t] = "woken" \/ (pc[t] = "loop" /\ ~interrupted /\ data[t] # <<>>)
    /\ chunk' = [chunk EXCEPT ![t] = data[t]]
    /\ data' = [data EXCEPT ![t] = <<>>]
    /\ pc' = [pc EXCEPT ![t] = IF data[t] = <<>> THEN "loop" ELSE "sink"]
    /\ UNCHANGED <<set, state, item, curl, worker, process, quit, statePaused, result, sunk>>

(* sink(chunk) *)
Flush(t) ==
    /\ pc[t] = "sink"
    /\ sunk' = [sunk EXCEPT ![t] = @ \o chunk[t]]
    /\ chunk' = [chunk EXCEPT ![t] = <<>>]
    /\ pc' = [pc EXCEPT ![t] = "loop"]
    /\ UNCHANGED <<set, state, item, curl, worker, process, data, quit, statePaused, result>>

-----------------------------------------------------------------------------
(* TransferItem: its callbacks need the mutex of the download. *)

(* Mutant: a failure is reported, but the item is not marked as done. *)
CallBackAgain(t, r) ==
    /\ Unlocked(t)
    /\ done' = [done EXCEPT ![t] = r = "success"]
    /\ calls' = [calls EXCEPT ![t] = @ + 1]
    /\ quit' = [quit EXCEPT ![t] = TRUE]
    /\ result' = [result EXCEPT ![t] = r]
    /\ Notify(t)

(* failEx, or the end of a successful transfer: `done` and the callback. *)
CallBack(t, r) ==
    /\ Unlocked(t)
    /\ done' = [done EXCEPT ![t] = TRUE]
    /\ calls' = [calls EXCEPT ![t] = @ + 1]
    /\ quit' = [quit EXCEPT ![t] = TRUE]
    /\ result' = [result EXCEPT ![t] = r]
    /\ Notify(t)

(* ~TransferItem: failInterruptedOrCancelled unless done. *)
Destroy(t) ==
    /\ place' = [place EXCEPT ![t] = "gone"]
    /\ embargo' = embargo \ {t}
    /\ IF done[t] THEN UNCHANGED <<done, calls, quit, result, pc>> ELSE CallBack(t, "failure")
    /\ UNCHANGED <<set, attempt, writtenToSink, acceptRanges, hasContentEncoding, paused,
                   curl, chunk, data, statePaused, sunk>>

(* init() leaves TransferItem::paused as it is. *)
StartAll(items) ==
    /\ place' = [t \in Transfers |-> IF t \in items THEN "active" ELSE place[t]]
    /\ status' = [t \in Transfers |-> IF t \in items THEN "none" ELSE status[t]]
    /\ offset' = [t \in Transfers |-> IF t \in items THEN writtenToSink[t] ELSE offset[t]]
    /\ pos' = [t \in Transfers |-> IF t \in items THEN writtenToSink[t] ELSE pos[t]]
    /\ curlPaused' = [t \in Transfers |-> t \notin items /\ curlPaused[t]]

Performing(t) ==
    wpc = "perform" /\ place[t] = "active" /\ \A u \in Transfers : place[u] # "finished"

(* headerCallback: the status line resets what the other headers then set. *)
HeaderCallback(t) ==
    /\ Performing(t)
    /\ status[t] = "none"
    /\ \E s \in {"ok", "error"}, ranges \in BOOLEAN :
          /\ status' = [status EXCEPT ![t] = s]
          /\ acceptRanges' = [acceptRanges EXCEPT ![t] = ranges]
    /\ hasContentEncoding' = [hasContentEncoding EXCEPT ![t] = set.encoded /\ status'[t] = "ok"]
    /\ UNCHANGED <<set, state, place, embargo, done, attempt, writtenToSink, paused, calls,
                   offset, pos, curlPaused, caller, worker, process>>

(* Mutant: the size of the new data is compared, not that of the buffer. *)
TooFullChunk(d) == Len(<<d[Len(d)]>>) > set.buffer

(* state->data.size() > downloadBufferSize *)
TooFull(d) == Len(d) > set.buffer

(* A resumed request is not decoded: of an encoded file it brings garbage. *)
NextChunk(t) == IF set.encoded /\ offset[t] > 0 THEN 0 ELSE pos[t] + 1

Buffered(t) == Append(data[t], NextChunk(t))

(* dataCallback returns PauseTransfer::Yes. *)
NeedsPause(t) == ~quit[t] /\ TooFull(Buffered(t))

(* The dataCallback of download(); after quit it ignores what comes. *)
DataCallback(t) ==
    /\ Unlocked(t)
    /\ data' = [data EXCEPT ![t] = IF quit[t] THEN @ ELSE Buffered(t)]
    /\ statePaused' = [statePaused EXCEPT ![t] = @ \/ NeedsPause(t)]
    /\ IF quit[t] THEN UNCHANGED pc ELSE Notify(t)

(* finalSink with the next chunk of a successful response *)
FinalSink(t) ==
    /\ status[t] = "ok"
    /\ pos[t] < set.size
    /\ pos' = [pos EXCEPT ![t] = @ + 1]
    /\ writtenToSink' = [writtenToSink EXCEPT ![t] = @ + 1]
    /\ DataCallback(t)

(* writeCallback pauses curl if `paused` is set, by finalSink or before. *)
WriteCallback(t) ==
    /\ Performing(t) /\ ~curlPaused[t]
    /\ FinalSink(t)
    /\ paused' = [paused EXCEPT ![t] = @ \/ NeedsPause(t)]
    /\ curlPaused' = [curlPaused EXCEPT ![t] = paused'[t]]
    /\ UNCHANGED <<set, state, place, embargo, done, attempt, acceptRanges, hasContentEncoding,
                   calls, status, offset, chunk, quit, result, sunk, worker, process>>

(* Mutant: what the sink has got already is not considered. *)
CanRetryAlways(t) == attempt'[t] < set.tries

(* canRetry of maybeRetry, of a transient error *)
CanRetry(t) ==
    /\ attempt'[t] < set.tries
    /\ writtenToSink[t] # 0 => acceptRanges[t] /\ ~hasContentEncoding[t]

(* finish() after success.  Answers without the whole file are left out: a *)
(* 304, for which download() does not ask, and a write error taken for one *)
(* because the ETag is the expected one.                                   *)
FinishOk(t) ==
    /\ Performing(t)
    /\ status[t] = "ok" /\ pos[t] = set.size
    /\ CallBack(t, "success")
    /\ place' = [place EXCEPT ![t] = "finished"]
    /\ UNCHANGED <<set, state, embargo, attempt, writtenToSink, acceptRanges,
                   hasContentEncoding, paused, curl, chunk, data, statePaused, sunk,
                   worker, process>>

(* finish() after an error: hopeless, an abort by the progress callback,   *)
(* or not to be retried; enqueueItem throws when the thread is stopping.   *)
FinishFailed(t) ==
    /\ Performing(t)
    /\ attempt' = [attempt EXCEPT ![t] = @ + 1]
    /\ CallBack(t, "failure")
    /\ place' = [place EXCEPT ![t] = "finished"]
    /\ UNCHANGED <<set, state, embargo, writtenToSink, acceptRanges, hasContentEncoding,
                   paused, curl, chunk, data, statePaused, sunk, worker, process>>

(* items.erase(i) after finish() destroys the item. *)
Erase(t) ==
    /\ wpc = "perform"
    /\ place[t] = "finished"
    /\ Destroy(t)
    /\ UNCHANGED <<state, worker, process>>

(* finish() after a transient error: the item is enqueued again.  It is    *)
(* erased from `items` a little later, when quit() may have popped it; the *)
(* destructor then runs without the mutex of state_, in the model with it. *)
Retry(t) ==
    /\ Performing(t) /\ lock = "none"
    /\ attempt' = [attempt EXCEPT ![t] = @ + 1]
    /\ CanRetry(t) /\ ~quitting
    /\ place' = [place EXCEPT ![t] = "incoming"]
    /\ incoming' = incoming \cup {t}
    /\ embargo' = embargo \cup {t}
    /\ UNCHANGED <<set, unpauseList, quitting, lock, done, writtenToSink, acceptRanges,
                   hasContentEncoding, paused, calls, curl, caller, worker, process>>

EmbargoPasses(t) ==
    /\ t \in embargo
    /\ embargo' = embargo \ {t}
    /\ UNCHANGED <<set, state, place, done, attempt, writtenToSink, acceptRanges,
                   hasContentEncoding, paused, calls, curl, caller, worker, process>>

-----------------------------------------------------------------------------
(* The worker thread and the thread that handles signals. *)

Active == {t \in Transfers : place[t] = "active"}

(* checkInterrupt() at the head of the loop *)
LoopHead == IF interrupted THEN "unwind" ELSE "perform"

(* items.size() + incoming.size() >= maxQueueSize *)
Room == MaxQueue - Cardinality(Active)

(* Mutant: an item is taken before its time. *)
ReadyAtOnce == incoming

(* item->embargo <= now *)
Ready == incoming \ embargo

(* Under the lock, after curl_multi_perform: take new items as far as the  *)
(* limit allows and the requests to unpause, and see if it is time to quit.*)
Round ==
    /\ wpc = "perform" /\ \A t \in Transfers : place[t] # "finished"
    /\ lock = "none"
    /\ \E items \in SUBSET Ready :
          /\ Cardinality(items) <= Room
          /\ items = Ready \/ Cardinality(items) = Room
          /\ incoming' = incoming \ items
          /\ StartAll(items)
    /\ unpauseList' = {}
    /\ unpausing' = unpauseList
    /\ wpc' = CASE quitting -> "break"
                [] ~quitting /\ unpauseList # {} -> "unpause"
                [] OTHER -> LoopHead
    /\ UNCHANGED <<set, quitting, lock, embargo, done, attempt, writtenToSink, acceptRanges,
                   hasContentEncoding, paused, calls, caller, process>>

(* Mutant: a request is dropped when its item waits for another attempt. *)
UnpausableActive(t) == place[t] = "active" /\ paused[t]

(* The weak pointer is alive, and unpause() is not a no-op. *)
Unpausable(t) == place[t] # "gone" /\ paused[t]

(* curl_easy_pause(req, CURLPAUSE_CONT), then paused = false.  When curl   *)
(* has data left it calls writeCallback from inside curl_easy_pause, and   *)
(* that one still sees `paused` and pauses curl again.                     *)
Resume(t) ==
    /\ paused' = [paused EXCEPT ![t] = FALSE]
    /\ \/ /\ curlPaused' = [curlPaused EXCEPT ![t] = FALSE]
          /\ UNCHANGED <<writtenToSink, pos, data, statePaused, pc>>
       \/ /\ set.flushes /\ place[t] = "active" /\ curlPaused[t]
          /\ FinalSink(t)
          /\ UNCHANGED curlPaused

(* One request of the list *)
Unpause(t) ==
    /\ wpc = "unpause"
    /\ t \in unpausing
    /\ unpausing' = unpausing \ {t}
    /\ \/ Unpausable(t) /\ Resume(t)
       \/ /\ ~Unpausable(t)
          /\ UNCHANGED <<paused, curlPaused, writtenToSink, pos, data, statePaused, pc>>
    /\ wpc' = IF unpausing' = {} THEN LoopHead ELSE "unpause"
    /\ UNCHANGED <<set, state, place, embargo, done, attempt, acceptRanges, hasContentEncoding,
                   calls, status, offset, chunk, quit, result, sunk, process>>

(* The end of workerThreadMain destroys the items that are still active.   *)
DestroyActive(t) ==
    /\ wpc \in {"break", "unwind"}
    /\ place[t] = "active"
    /\ Destroy(t)
    /\ UNCHANGED <<state, worker, process>>

(* quit() by either thread: it holds the mutex of state_ until the queue is empty. *)
BeginQuit(who) ==
    /\ lock = "none"
    /\ lock' = who
    /\ quitting' = TRUE
    /\ UNCHANGED <<set, incoming, unpauseList, item, curl, caller, process>>

PopIncoming(t) ==
    /\ lock # "none"
    /\ t \in incoming
    /\ incoming' = incoming \ {t}
    /\ Destroy(t)
    /\ UNCHANGED <<unpauseList, quitting, lock, worker, process>>

EndQuit(who) ==
    /\ lock = who
    /\ incoming = {}
    /\ unpauseList' = {}
    /\ lock' = "none"
    /\ UNCHANGED <<set, incoming, quitting, item, curl, caller, interrupted>>

(* The end of workerThreadEntry, after `break` or an exception. *)
WorkerEnds ==
    \/ /\ wpc \in {"break", "unwind"} /\ Active = {}
       /\ wpc' = IF wpc = "break" THEN "exited" ELSE "quit"
       /\ UNCHANGED <<set, state, item, curl, caller, unpausing, process>>
    \/ wpc = "quit" /\ BeginQuit("worker") /\ UNCHANGED worker
    \/ EndQuit("worker") /\ wpc' = "exited" /\ UNCHANGED <<unpausing, signal>>

(* triggerInterrupt() and the interrupt callback of the worker thread,     *)
(* which is no longer registered when the thread has left its main loop.   *)
Interrupt ==
    \/ /\ set.interrupt /\ ~interrupted
       /\ interrupted' = TRUE /\ signal' = "pending"
       /\ UNCHANGED <<set, state, item, curl, caller, worker>>
    \/ signal = "pending" /\ BeginQuit("signal") /\ UNCHANGED worker
    \/ EndQuit("signal") /\ signal' = "done" /\ UNCHANGED worker
    \/ /\ signal = "pending" /\ lock # "signal" /\ wpc \in {"quit", "exited"}
       /\ signal' = "done"
       /\ UNCHANGED <<set, state, item, curl, caller, worker, interrupted>>

-----------------------------------------------------------------------------
Caller(t) ==
    \/ EnqueueFileTransfer(t) \/ Throws(t) \/ BufferEmpty(t)
    \/ UnpauseTransfer(t) \/ GrabData(t) \/ Flush(t)

Curl(t) == HeaderCallback(t) \/ WriteCallback(t) \/ FinishOk(t) \/ FinishFailed(t) \/ Retry(t)

Stop(t) == Erase(t) \/ DestroyActive(t) \/ PopIncoming(t)

(* The process goes on with other things. *)
Over == (\A t \in Transfers : Ended(t)) /\ UNCHANGED vars

Next ==
    \/ \E t \in Transfers : Caller(t) \/ Curl(t) \/ EmbargoPasses(t) \/ Unpause(t) \/ Stop(t)
    \/ Round \/ WorkerEnds \/ Interrupt \/ Over

Spec == Init /\ [][Next]_vars

(* Threads run on; a transfer that curl has not paused goes on or fails    *)
(* (connect-timeout, stalled-download-timeout), whenever curl is called.   *)
FairSpec ==
    /\ Spec
    /\ \A t \in Transfers : /\ WF_vars(Caller(t)) /\ WF_vars(EmbargoPasses(t))
                            /\ WF_vars(Unpause(t)) /\ WF_vars(Stop(t))
                            /\ SF_vars(Curl(t) /\ ~curlPaused[t])
    /\ SF_vars(Round) /\ SF_vars(WorkerEnds) /\ WF_vars(Interrupt /\ interrupted)

-----------------------------------------------------------------------------
(* The callback of a TransferItem is called once for an item that was      *)
(* enqueued, by whichever of finish(), a failed retry and the destructor   *)
(* comes first, and always before the item is gone.                        *)
CalledBackOnce ==
    \A t \in Transfers :
       /\ calls[t] <= 1
       /\ place[t] = "gone" => calls[t] = 1

(* The sink receives the chunks of the file in order, none twice and none  *)
(* missing, over all attempts, and all of them when download() returns.    *)
SinkGetsFile ==
    \A t \in Transfers :
       LET got == sunk[t] \o chunk[t] \o data[t] IN
       /\ \A i \in 1..Len(got) : got[i] = i
       /\ t \in set.callers /\ pc[t] = "returned" => Len(sunk[t]) = set.size

(* The buffer of a download never exceeds its limit by more than one       *)
(* chunk for each attempt, for a retried transfer starts unpaused.         *)
BufferBounded == \A t \in Transfers : Len(data[t]) <= set.buffer + set.tries

(* A transfer that curl has paused is not forgotten while its caller wants *)
(* data: the item knows that it is paused, and either the caller still has *)
(* to ask for it or its request is on the way, whatever attempt the        *)
(* request was made for.  The exception is data that came while it was     *)
(* resumed: unpause() then forgets the pause that was made meanwhile.      *)
NoPauseForgotten ==
    \A t \in Transfers :
       place[t] = "active" /\ curlPaused[t] /\ ~quit[t] /\ ~quitting =>
          \/ paused[t] /\ (statePaused[t] \/ t \in unpauseList \cup unpausing)
          \/ ~paused[t] /\ set.flushes

(* curl was paused again from inside curl_easy_pause, and nobody knows. *)
PausedAgain(t) == place[t] = "active" /\ curlPaused[t] /\ ~paused[t]

(* Every call of download() returns or throws.  One hang of the code is    *)
(* excepted, and only that one: a transfer that was paused again while it  *)
(* was resumed (unpause(), filetransfer.cc:579) is never resumed, since    *)
(* requests for it are no-ops and curl has no timeout for paused transfers.*)
DownloadEnds == <>[](\A t \in Transfers : Ended(t) \/ PausedAgain(t))

=============================================================================
