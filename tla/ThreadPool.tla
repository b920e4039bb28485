----------------------------- MODULE ThreadPool -----------------------------
(***************************************************************************)
(* ThreadPool (libutil/thread-pool.cc): a queue of work items, executed by *)
(* threads that are started on demand and by the thread that calls         *)
(* process().  A section under the mutex of `state_` is one step.  What a  *)
(* work item does is left to the module that uses the pool: it starts at   *)
(* the label "start" and ends with Return or Throw.                        *)
(***************************************************************************)
EXTENDS Naturals, Sequences, FiniteSets

CONSTANTS
    Items,          \* the work items
    MaxThreads,     \* maxThreads, with the caller of process()
    ItemLabels,     \* the places inside a work item, "start" among them
    NoItem

ASSUME MaxThreadsAssumption == MaxThreads \in Nat \ {0}

Main == 0
Threads == 0..(MaxThreads - 1)

ASSUME NoItemAssumption == NoItem \notin Items \cup Threads

VARIABLES
    pending, active, exception, draining, quit, \* members of ThreadPool
    workers,    \* the number of threads that were started
    pc,         \* pc[t]: where thread t is
    item,       \* item[t]: the work item t executes, or has just executed
    thrown      \* thrown[t]: how that item ended ("none", or the exception)

queue == <<pending, active, exception, draining, quit, workers>>
poolVars == <<queue, pc, item, thrown>>

(* "interrupted": checkInterrupt() in a worker once `quit` is set;         *)
(* "shutdown": ThreadPoolShutDown.                                         *)
Exceptions == {"none", "item", "interrupted", "shutdown"}
LoopLabels == {"lock", "recheck", "wait", "exited"}
MainLabels == {"enqueue", "reap", "join", "returned", "threw"}

PoolInit ==
    /\ pending = <<>> /\ active = 0 /\ exception = "none"
    /\ draining = FALSE /\ quit = FALSE /\ workers = 0
    /\ pc = [t \in Threads |-> IF t = Main THEN "enqueue" ELSE "unborn"]
    /\ item = [t \in Threads |-> NoItem]
    /\ thrown = [t \in Threads |-> "none"]

Waiting == {t \in Threads : pc[t] = "wait"}

(* work.notify_one(), in the places s of the threads. *)
NotifyOne(s) ==
    IF Waiting = {} THEN {s} ELSE {[s EXCEPT ![t] = "recheck"] : t \in Waiting}

(* Mutant: only one waiter is told to quit. *)
NotifyAllButOne(s) ==
    LET spared == CHOOSE u \in Threads : Waiting = {} \/ u \in Waiting
    IN  [t \in Threads |-> IF s[t] = "wait" /\ t # spared THEN "recheck" ELSE s[t]]

(* work.notify_all() *)
NotifyAll(s) == [t \in Threads |-> IF s[t] = "wait" THEN "recheck" ELSE s[t]]

(* enqueue(i) by thread t, which goes on at `next`.  A thread is started   *)
(* if more is pending than threads could take.                             *)
Enqueue(t, i, next) ==
    LET spawn == Len(pending) + 1 > workers + 1 /\ workers + 1 < MaxThreads IN
    /\ ~quit
    /\ pending' = Append(pending, i)
    /\ workers' = IF spawn THEN workers + 1 ELSE workers
    /\ pc' \in NotifyOne([u \in Threads |->
                  IF u = t THEN next
                  ELSE IF spawn /\ u = workers + 1 THEN "lock" ELSE pc[u]])
    /\ UNCHANGED <<active, exception, draining, quit>>

-----------------------------------------------------------------------------
(* The end of a work item. *)

Return(t) ==
    /\ pc' = [pc EXCEPT ![t] = "lock"]
    /\ UNCHANGED <<queue, item, thrown>>

Throw(t, e) ==
    /\ pc' = [pc EXCEPT ![t] = "lock"]
    /\ thrown' = [thrown EXCEPT ![t] = e]
    /\ UNCHANGED <<queue, item>>

-----------------------------------------------------------------------------
(* doWork: the section under the mutex first accounts for an item that has *)
(* ended, and then looks for the next one.                                 *)

InLoop(t) == pc[t] \in {"lock", "recheck"}

DidWork(t) == pc[t] = "lock" /\ item[t] # NoItem

(* Mutant: an item that ends in an exception stays active. *)
StillActiveFailed(t) == IF DidWork(t) /\ thrown[t] = "none" THEN active - 1 ELSE active

StillActive(t) == IF DidWork(t) THEN active - 1 ELSE active

FirstException(t) == DidWork(t) /\ thrown[t] # "none" /\ exception = "none"

(* Mutant: the last exception wins. *)
AccountLast(t) ==
    /\ exception' = IF DidWork(t) /\ thrown[t] # "none" THEN thrown[t] ELSE exception
    /\ thrown' = [thrown EXCEPT ![t] = "none"]

(* Only the first exception is kept; the others are printed. *)
Account(t) ==
    /\ exception' = IF FirstException(t) THEN thrown[t] ELSE exception
    /\ thrown' = [thrown EXCEPT ![t] = "none"]

(* Return from doWork, in process() or at the end of a thread. *)
Left(t) == IF t = Main THEN "reap" ELSE "exited"

(* `quit` is set, perhaps by this thread's exception (which tells all).    *)
LeaveLoop(t) ==
    /\ InLoop(t)
    /\ quit \/ FirstException(t)
    /\ Account(t)
    /\ quit' = TRUE
    /\ active' = StillActive(t)
    /\ pc' = LET s == [pc EXCEPT ![t] = Left(t)]
             IN  IF FirstException(t) THEN NotifyAll(s) ELSE s
    /\ item' = [item EXCEPT ![t] = NoItem]
    /\ UNCHANGED <<pending, draining, workers>>

TakeItem(t) ==
    /\ InLoop(t)
    /\ ~quit /\ ~FirstException(t)
    /\ pending # <<>>
    /\ item' = [item EXCEPT ![t] = Head(pending)]
    /\ pending' = Tail(pending)
    /\ active' = StillActive(t) + 1
    /\ pc' = [pc EXCEPT ![t] = "start"]
    /\ UNCHANGED <<exception, draining, quit, workers, thrown>>

(* No pending and no active item, and process() runs.                      *)
Drained(t) == pending = <<>> /\ StillActive(t) = 0 /\ draining

DrainLoop(t) ==
    /\ InLoop(t)
    /\ ~quit /\ ~FirstException(t)
    /\ Drained(t)
    /\ quit' = TRUE
    /\ active' = StillActive(t)
    /\ pc' = NotifyAll([pc EXCEPT ![t] = Left(t)])
    /\ item' = [item EXCEPT ![t] = NoItem]
    /\ UNCHANGED <<pending, exception, draining, workers, thrown>>

WaitForWork(t) ==
    /\ InLoop(t)
    /\ ~quit /\ ~FirstException(t)
    /\ pending = <<>> /\ ~Drained(t)
    /\ active' = StillActive(t)
    /\ pc' = [pc EXCEPT ![t] = "wait"]
    /\ item' = [item EXCEPT ![t] = NoItem]
    /\ UNCHANGED <<pending, exception, draining, quit, workers, thrown>>

(* process(): the caller becomes a worker. *)
Process ==
    /\ draining' = TRUE
    /\ pc' = [pc EXCEPT ![Main] = "lock"]
    /\ UNCHANGED <<pending, active, exception, quit, workers, item, thrown>>

(* The rest of process() and shutdown(), which is called in its exception  *)
(* handler or by the destructor of the pool: the workers are told to quit  *)
(* and then joined.  pc = "join" with exception = "none" is the destructor.*)
Shutdown ==
    /\ pc[Main] = "reap"
    /\ quit' = TRUE
    /\ pc' = NotifyAll([pc EXCEPT ![Main] = "join"])
    /\ UNCHANGED <<pending, active, exception, draining, workers, item, thrown>>

(* Mutant: process() rethrows without shutdown(). *)
JoinedNever == TRUE

(* All started threads have exited. *)
Joined == \A t \in 1..workers : pc[t] = "exited"

Loop(t) == LeaveLoop(t) \/ TakeItem(t) \/ DrainLoop(t) \/ WaitForWork(t)

=============================================================================
