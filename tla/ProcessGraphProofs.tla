------------------------- MODULE ProcessGraphProofs -------------------------
(* Proofs about processGraph, for any nodes and graphs, any callbacks that *)
(* throw and any number of threads.                                        *)
EXTENDS ProcessGraph, FiniteSetTheorems, TLAPS

InItem(t) == pc[t] \in ItemLabels

(* The threads that are inside an item or have not yet accounted for it.   *)
Occupied == {t \in Threads : item[t] # NoItem}

Queued == {pending[i] : i \in 1..Len(pending)}

(* Where the threads are, and what they hold there.                        *)
ControlOK ==
    /\ \A t \in Threads :
          /\ InItem(t) => item[t] \in Items
          /\ ~InItem(t) /\ pc[t] # "lock" => item[t] = NoItem
          /\ thrown[t] # "none" => pc[t] = "lock" /\ item[t] # NoItem
          /\ pc[t] = "unborn" <=> t > workers
          /\ pc[t] \in MainLabels \cup {"incomplete"} => t = Main
    /\ Ended => \A t \in Threads : ~InItem(t)

(* Why the pool quits: because of an exception of a callback, which is the *)
(* one that is kept, or because there is nothing left to do.               *)
QuitOK ==
    /\ exception \in {"none", "item"}
    /\ \A t \in Threads : thrown[t] \notin {"none", "item"} => exception = "item"
    /\ exception = "item" => quit
    /\ quit /\ exception = "none" => draining /\ pending = <<>> /\ Occupied = {}
    /\ draining /\ submit # {} => exception = "item"
    /\ pc[Main] = "enqueue" => ~draining
    /\ pc[Main] \in {"reap", "join"} \/ Ended => quit

(* The members of Graph: a node that has been linked misses exactly the    *)
(* dependencies that are not yet erased.  The thread in the loop over the  *)
(* referrers of its node has the mutex, and has still to visit those that  *)
(* miss it.                                                                *)
LinksOK ==
    /\ edges \in [Items -> SUBSET Items]
    /\ Items \ left \subseteq processed
    /\ \A n \in known : /\ refs[n] \subseteq (edges[n] \ {n}) \cap left
                        /\ edges[n] \ {n} \subseteq refs[n] \cup processed
    /\ \A t \in Threads : pc[t] = "visit" =>
          /\ owner = t
          /\ visit[t] = {m \in known : item[t] \in refs[m]}
    /\ \A t \in Threads : pc[t] \in {"finish", "visit"} => item[t] \in processed

QueuedOnce == \A i, j \in 1..Len(pending) : pending[i] = pending[j] => i = j

Missing == {n \in known : refs[n] # {}}

(* No node is in two places: to be enqueued, in the queue, in the hands of *)
(* a thread, or waiting for a dependency; and none of these is processed.  *)
PlacesOK ==
    /\ QueuedOnce
    /\ \A t, u \in Threads : InItem(t) /\ InItem(u) /\ item[t] = item[u] => t = u
    /\ \A t \in Threads : InItem(t) => item[t] \notin submit \cup Queued \cup Missing
    /\ submit \cap Queued = {} /\ submit \cap Missing = {} /\ Queued \cap Missing = {}
    /\ (submit \cup Queued \cup Missing) \cap processed = {}
    /\ \A t \in Threads : pc[t] \in {"start", "edges", "link", "work"} => item[t] \notin processed

(* And unless a callback has thrown no node is lost.                       *)
NoneLost ==
    Failed \/ \A n \in left : \/ n \in submit \cup Queued \cup Missing
                              \/ \E t \in Threads : InItem(t) /\ item[t] = n

IInv == TypeOK /\ ControlOK /\ QuitOK /\ LinksOK /\ PlacesOK /\ NoneLost

-----------------------------------------------------------------------------
(* What a step of thread t can do to the others: wake or start them.       *)
OthersStay(t) ==
    \A u \in Threads \ {t} : \/ pc'[u] = pc[u]
                             \/ pc[u] = "wait" /\ pc'[u] = "recheck"
                             \/ pc[u] = "unborn" /\ pc'[u] = "lock"

(* enqueue() starts the thread with the next number, if any.               *)
LEMMA EnqueueMoves ==
    ASSUME TypeOK, ControlOK,
           NEW t \in Threads, NEW i, NEW next \in {"enqueue", "visit"},
           pc[t] = next, Enqueue(t, i, next)
    PROVE  /\ pc' \in [Threads -> Labels] /\ pc'[t] = next
           /\ workers' \in 0..(MaxThreads - 1)
           /\ OthersStay(t)
           /\ \A u \in Threads : pc'[u] = "unborn" <=> u > workers'
<1> DEFINE spawn == Len(pending) + 1 > workers + 1 /\ workers + 1 < MaxThreads
           s == [u \in Threads |-> IF u = t THEN next
                                   ELSE IF spawn /\ u = workers + 1 THEN "lock" ELSE pc[u]]
<1>1. pc' \in NotifyOne(s) /\ workers' = IF spawn THEN workers + 1 ELSE workers
  BY DEF Enqueue
<1>2. /\ pc \in [Threads -> Labels] /\ workers \in 0..(MaxThreads - 1)
      /\ MaxThreads \in Nat \ {0}
  BY MaxThreadsAssumption DEF TypeOK, PoolTypeOK, Labels
<1>3. \A u \in Threads : pc[u] = "unborn" <=> u > workers
  BY DEF ControlOK
<1>4. /\ s \in [Threads -> Labels] /\ s[t] = next
      /\ \A u \in Threads \ {t} : s[u] = pc[u] \/ (pc[u] = "unborn" /\ s[u] = "lock")
      /\ \A u \in Threads : s[u] = "unborn" <=> u > workers'
  <2>1. "lock" \in Labels /\ next \in Labels /\ next # "unborn"
    BY LabelsAssumption DEF Labels, LoopLabels, MainLabels
  <2>2. s \in [Threads -> Labels] /\ s[t] = next
    BY <1>2, <2>1
  <2>3. \A u \in Threads : workers \in Int /\ u \in Int
    BY <1>2 DEF Threads
  <2>4. ASSUME NEW u \in Threads \ {t}
        PROVE  s[u] = pc[u] \/ (pc[u] = "unborn" /\ s[u] = "lock")
    <3>1. CASE spawn /\ u = workers + 1
      <4>1. s[u] = "lock"
        BY <3>1
      <4>2. u > workers
        BY <2>3, <3>1
      <4> QED BY <1>3, <4>1, <4>2
    <3>2. CASE ~(spawn /\ u = workers + 1)
      BY <3>2
    <3> QED BY <3>1, <3>2
  <2>5. \A u \in Threads : s[u] = "unborn" <=> u > workers'
    BY <1>1, <1>3, <2>1, <2>3
  <2> QED BY <2>2, <2>4, <2>5
<1>5. CASE Waiting = {}
  BY <1>1, <1>2, <1>4, <1>5 DEF NotifyOne, OthersStay
<1>6. CASE Waiting # {}
  <2> HIDE DEF s, spawn
  <2>1. PICK w \in Waiting : pc' = [s EXCEPT ![w] = "recheck"]
    BY <1>1, <1>6 DEF NotifyOne
  <2>2. w \in Threads /\ w # t /\ s[w] = "wait" /\ pc[w] = "wait"
    BY <1>4 DEF Waiting
  <2>3. "recheck" \in Labels
    BY DEF Labels, LoopLabels
  <2>4. workers' \in 0..(MaxThreads - 1)
    BY <1>1, <1>2 DEF spawn
  <2> QED BY <1>2, <1>4, <2>1, <2>2, <2>3, <2>4 DEF OthersStay
<1> QED BY <1>5, <1>6

(* notify_all() after a step of thread t to a new place.                   *)
LEMMA NotifyAllMoves ==
    ASSUME TypeOK, NEW t \in Threads, NEW label \in Labels \ {"wait"},
           pc' = NotifyAll([pc EXCEPT ![t] = label])
    PROVE  /\ pc' \in [Threads -> Labels] /\ pc'[t] = label
           /\ \A u \in Threads \ {t} : \/ pc'[u] = pc[u]
                                       \/ pc[u] = "wait" /\ pc'[u] = "recheck"
<1>1. pc \in [Threads -> Labels] /\ "recheck" \in Labels
  BY DEF TypeOK, PoolTypeOK, Labels, LoopLabels
<1> QED BY <1>1 DEF NotifyAll

(* A thread in the loop of doWork takes an item, waits or leaves.          *)
LEMMA LoopMoves ==
    ASSUME TypeOK, NEW t \in Threads, Loop(t)
    PROVE  /\ pc' \in [Threads -> Labels]
           /\ pc'[t] = IF TakeItem(t) THEN "start" ELSE IF WaitForWork(t) THEN "wait" ELSE Left(t)
           /\ \A u \in Threads \ {t} : \/ pc'[u] = pc[u]
                                       \/ pc[u] = "wait" /\ pc'[u] = "recheck"
<1>1. pc \in [Threads -> Labels] /\ {"start", "wait", "recheck"} \subseteq Labels
  BY LabelsAssumption DEF TypeOK, PoolTypeOK, Labels, LoopLabels
<1>2. Left(t) \in Labels \ {"wait", "start"}
  BY DEF Left, Labels, LoopLabels, MainLabels
<1>3. CASE TakeItem(t)
  BY <1>1, <1>3 DEF TakeItem
<1>4. CASE WaitForWork(t)
  BY <1>1, <1>4 DEF WaitForWork, TakeItem
<1>5. CASE LeaveLoop(t)
  <2>1. ~TakeItem(t) /\ ~WaitForWork(t)
    BY <1>5 DEF LeaveLoop, TakeItem, WaitForWork
  <2>2. \/ pc' = NotifyAll([pc EXCEPT ![t] = Left(t)])
        \/ pc' = [pc EXCEPT ![t] = Left(t)]
    BY <1>5 DEF LeaveLoop
  <2> QED BY <1>1, <1>2, <2>1, <2>2, NotifyAllMoves
<1>6. CASE DrainLoop(t)
  <2>1. ~TakeItem(t) /\ ~WaitForWork(t)
    BY <1>6 DEF DrainLoop, TakeItem, WaitForWork, Drained
  <2>2. pc' = NotifyAll([pc EXCEPT ![t] = Left(t)])
    BY <1>6 DEF DrainLoop
  <2> QED BY <1>2, <2>1, <2>2, NotifyAllMoves
<1> QED BY <1>3, <1>4, <1>5, <1>6 DEF Loop

-----------------------------------------------------------------------------
LEMMA StepKeepsPoolTypes ==
    ASSUME TypeOK, ControlOK, [Next]_vars
    PROVE  PoolTypeOK'
<1> USE DEF TypeOK, PoolTypeOK
<1>1. {"lock", "work", "edges", "link", "finish", "visit", "join", "threw", "incomplete", "returned"} \subseteq Labels
  BY LabelsAssumption DEF Labels, LoopLabels, MainLabels
<1>2. Main \in Threads /\ {"none", "item", "interrupted", "shutdown"} = Exceptions
  BY MaxThreadsAssumption DEF Main, Threads, Exceptions
<1>3. ASSUME NEW t \in Threads, Loop(t) PROVE PoolTypeOK'
  <2>1. pc' \in [Threads -> Labels]
    BY <1>3, LoopMoves
  <2>2. CASE LeaveLoop(t)
    BY <1>2, <2>1, <2>2 DEF LeaveLoop, Account, FirstException
  <2>3. CASE TakeItem(t)
    BY <2>1, <2>3 DEF TakeItem
  <2>4. CASE DrainLoop(t)
    BY <2>1, <2>4 DEF DrainLoop
  <2>5. CASE WaitForWork(t)
    BY <2>1, <2>5 DEF WaitForWork
  <2> QED BY <1>3, <2>2, <2>3, <2>4, <2>5 DEF Loop
<1>4. ASSUME NEW t \in Threads, ItemStep(t) PROVE PoolTypeOK'
  <2>1. CASE FindNode(t) \/ GetEdges(t) \/ LinkNode(t)
    BY <1>1, <1>2, <2>1 DEF FindNode, GetEdges, LinkNode, Goto, Return, Throw, queue
  <2>2. CASE ProcessNode(t) \/ LockGraph(t)
    BY <1>1, <1>2, <2>2 DEF ProcessNode, LockGraph, Goto, Throw, queue
  <2>3. CASE VisitThrows(t) \/ EraseNode(t)
    BY <1>1, <1>2, <2>3 DEF VisitThrows, EraseNode, Return, Throw, queue
  <2>4. ASSUME NEW m \in visit[t], Enqueue(t, m, "visit"), UNCHANGED <<item, thrown>>, pc[t] = "visit"
        PROVE  PoolTypeOK'
    <3>1. pc' \in [Threads -> Labels] /\ workers' \in 0..(MaxThreads - 1)
      BY <2>4, EnqueueMoves
    <3>2. m \in Items
      BY DEF GraphTypeOK
    <3> QED BY <2>4, <3>1, <3>2 DEF Enqueue
  <2>5. CASE VisitReferrer(t)
    BY <2>4, <2>5 DEF VisitReferrer, poolVars, queue
  <2> QED BY <1>4, <2>1, <2>2, <2>3, <2>5 DEF ItemStep
<1>5. CASE SubmitNode
  <2>1. PICK n \in submit : Enqueue(Main, n, "enqueue") /\ pc[Main] = "enqueue" /\ UNCHANGED <<item, thrown>>
    BY <1>5 DEF SubmitNode
  <2>2. pc' \in [Threads -> Labels] /\ workers' \in 0..(MaxThreads - 1)
    BY <1>2, <2>1, EnqueueMoves
  <2> QED BY <2>1, <2>2 DEF Enqueue, GraphTypeOK
<1>6. CASE CallProcess
  BY <1>1, <1>6 DEF CallProcess, Process
<1>7. CASE Shutdown
  <2>1. pc' \in [Threads -> Labels]
    BY <1>1, <1>2, <1>7, NotifyAllMoves DEF Shutdown
  <2> QED BY <1>7, <2>1 DEF Shutdown
<1>8. CASE End
  BY <1>1, <1>8 DEF End, Goto, queue
<1>9. CASE UNCHANGED vars
  BY <1>9 DEF vars, poolVars, queue
<1> QED BY <1>3, <1>4, <1>5, <1>6, <1>7, <1>8, <1>9 DEF Next, Caller, LoopStep

LEMMA StepKeepsGraphTypes ==
    ASSUME TypeOK, ControlOK, [Next]_vars
    PROVE  GraphTypeOK'
<1> USE DEF TypeOK, PoolTypeOK, GraphTypeOK
<1>1. ASSUME UNCHANGED graphVars PROVE GraphTypeOK'
  BY <1>1 DEF graphVars, graph
<1>2. ASSUME NEW t \in Threads, ItemStep(t) PROVE GraphTypeOK'
  <2>1. InItem(t)
    BY <1>2, LabelsAssumption DEF InItem, ItemStep, FindNode, GetEdges, LinkNode, ProcessNode, LockGraph, VisitReferrer, VisitThrows, EraseNode
  <2>2. item[t] \in Items
    BY <2>1 DEF ControlOK
  <2>3. CASE FindNode(t) \/ GetEdges(t)
    BY <1>1, <2>3 DEF FindNode, GetEdges
  <2>4. CASE LinkNode(t)
    BY <2>2, <2>4 DEF LinkNode, Unprocessed
  <2>5. CASE ProcessNode(t)
    BY <2>2, <2>5 DEF ProcessNode, graph
  <2>6. CASE LockGraph(t)
    BY <2>6 DEF LockGraph, graph
  <2>7. CASE VisitReferrer(t)
    BY <2>7 DEF VisitReferrer
  <2>8. CASE VisitThrows(t)
    BY <2>8 DEF VisitThrows
  <2>9. CASE EraseNode(t)
    BY <2>9 DEF EraseNode
  <2> QED BY <1>2, <2>3, <2>4, <2>5, <2>6, <2>7, <2>8, <2>9 DEF ItemStep
<1>3. CASE SubmitNode
  BY <1>3 DEF SubmitNode, graph
<1>4. CASE CallProcess \/ End
  BY <1>1, <1>4 DEF CallProcess, End
<1> QED BY <1>1, <1>2, <1>3, <1>4 DEF Next, Caller, LoopStep, vars

-----------------------------------------------------------------------------
(* The steps inside an item move one thread, from a place inside an item   *)
(* to another or to its end.                                               *)
LEMMA ItemMoves ==
    ASSUME TypeOK, ControlOK, NEW t \in Threads, ItemStep(t)
    PROVE  /\ InItem(t) /\ item[t] \in Items /\ item' = item
           /\ OthersStay(t)
           /\ pc'[t] \in ItemLabels \cup {"lock"}
           /\ \A u \in Threads \ {t} : thrown'[u] = thrown[u]
           /\ pc'[t] # "lock" => thrown'[t] = thrown[t]
           /\ draining' = draining /\ exception' = exception /\ quit' = quit /\ active' = active
           /\ submit' = submit
           /\ \A u \in Threads : pc'[u] = "unborn" <=> u > workers'
<1> USE DEF TypeOK, PoolTypeOK
<1>1. InItem(t) /\ pc[t] # "lock" /\ pc[t] # "unborn"
  BY LabelsAssumption DEF ItemStep, InItem, FindNode, GetEdges, LinkNode, ProcessNode, LockGraph, VisitReferrer, VisitThrows, EraseNode
<1>2. item[t] \in Items
  BY <1>1 DEF ControlOK
<1>3. ASSUME UNCHANGED <<queue, item>>, submit' = submit,
             \/ /\ \E label \in ItemLabels \cup {"lock"} : pc' = [pc EXCEPT ![t] = label]
                /\ thrown' = thrown
             \/ /\ pc' = [pc EXCEPT ![t] = "lock"]
                /\ \E e \in Exceptions : thrown' = [thrown EXCEPT ![t] = e]
      PROVE  /\ item' = item /\ OthersStay(t)
             /\ pc'[t] \in ItemLabels \cup {"lock"}
             /\ \A u \in Threads \ {t} : thrown'[u] = thrown[u]
             /\ pc'[t] # "lock" => thrown'[t] = thrown[t]
             /\ draining' = draining /\ exception' = exception /\ quit' = quit /\ active' = active
             /\ submit' = submit
             /\ \A u \in Threads : pc'[u] = "unborn" <=> u > workers'
  <2>1. "unborn" \notin ItemLabels \cup {"lock"}
    BY LabelsAssumption
  <2> QED BY <1>1, <1>3, <2>1 DEF queue, OthersStay, ControlOK
<1>4. CASE FindNode(t) \/ GetEdges(t) \/ LinkNode(t) \/ ProcessNode(t)
  BY <1>1, <1>2, <1>3, <1>4, LabelsAssumption DEF FindNode, GetEdges, LinkNode, ProcessNode, Goto, Return, Throw, graphVars, Exceptions
<1>5. CASE LockGraph(t) \/ VisitThrows(t) \/ EraseNode(t)
  BY <1>1, <1>2, <1>3, <1>5, LabelsAssumption DEF LockGraph, VisitThrows, EraseNode, Goto, Return, Throw, Exceptions
<1>6. CASE VisitReferrer(t)
  <2>1. CASE UNCHANGED poolVars
    BY <1>1, <1>2, <1>6, <2>1 DEF poolVars, queue, VisitReferrer, OthersStay, InItem, ControlOK
  <2>2. CASE ~UNCHANGED poolVars
    <3>1. PICK m \in visit[t] : Enqueue(t, m, "visit") /\ pc[t] = "visit" /\ UNCHANGED <<item, thrown, submit>>
      BY <1>6, <2>2 DEF VisitReferrer
    <3>2. /\ OthersStay(t) /\ pc'[t] = "visit"
          /\ \A u \in Threads : pc'[u] = "unborn" <=> u > workers'
      BY <3>1, EnqueueMoves
    <3> QED BY <1>1, <1>2, <3>1, <3>2, LabelsAssumption DEF Enqueue
  <2> QED BY <2>1, <2>2
<1> QED BY <1>4, <1>5, <1>6 DEF ItemStep

LEMMA StepKeepsControl ==
    ASSUME TypeOK, ControlOK, QuitOK, [Next]_vars
    PROVE  ControlOK'
<1> USE DEF TypeOK, PoolTypeOK
<1>1. Main \in Threads
  BY MaxThreadsAssumption DEF Main, Threads
<1>2. TypeOK /\ ItemLabels = {"start", "edges", "link", "work", "finish", "visit"}
  BY LabelsAssumption
<1>3. PoolTypeOK'
  BY StepKeepsPoolTypes
<1>4. ASSUME NEW t \in Threads, ItemStep(t) PROVE ControlOK'
  <2>1. /\ InItem(t) /\ item[t] \in Items /\ item' = item
        /\ OthersStay(t) /\ pc'[t] \in ItemLabels \cup {"lock"}
        /\ \A u \in Threads \ {t} : thrown'[u] = thrown[u]
        /\ pc'[t] # "lock" => thrown'[t] = thrown[t]
        /\ \A u \in Threads : pc'[u] = "unborn" <=> u > workers'
    BY <1>4, ItemMoves
  <2>2. ~Ended /\ ~Ended'
    BY <1>1, <1>2, <2>1 DEF Ended, ControlOK, InItem, OthersStay
  <2>3. thrown[t] = "none" /\ pc[t] \in ItemLabels
    BY <1>2, <2>1 DEF ControlOK, InItem
  <2>4. ASSUME NEW u \in Threads PROVE
          /\ InItem(u)' => item'[u] \in Items
          /\ ~InItem(u)' /\ pc'[u] # "lock" => item'[u] = NoItem
          /\ thrown'[u] # "none" => pc'[u] = "lock" /\ item'[u] # NoItem
          /\ pc'[u] \in MainLabels \cup {"incomplete"} => u = Main
    BY <1>2, <2>1, <2>3, NoItemAssumption DEF ControlOK, InItem, OthersStay, MainLabels
  <2> QED BY <2>1, <2>2, <2>4 DEF ControlOK
<1>5. ASSUME NEW t \in Threads, Loop(t), UNCHANGED graphVars PROVE ControlOK'
  <2>1. /\ pc'[t] = IF TakeItem(t) THEN "start" ELSE IF WaitForWork(t) THEN "wait" ELSE Left(t)
        /\ \A u \in Threads \ {t} : \/ pc'[u] = pc[u]
                                    \/ pc[u] = "wait" /\ pc'[u] = "recheck"
    BY <1>5, LoopMoves
  <2>2. /\ workers' = workers
        /\ pc[t] \in {"lock", "recheck"}
        /\ \A u \in Threads \ {t} : thrown'[u] = thrown[u] /\ item'[u] = item[u]
        /\ TakeItem(t) => item'[t] \in Items
        /\ ~TakeItem(t) => item'[t] = NoItem
        /\ thrown'[t] = "none"
    <3>1. LeaveLoop(t) => thrown'[t] = "none"
      BY DEF LeaveLoop, Account
    <3>2. ~quit /\ ~FirstException(t) => thrown[t] = "none"
      BY DEF FirstException, DidWork, ControlOK, QuitOK
    <3> QED BY <1>5, <3>1, <3>2 DEF Loop, LeaveLoop, TakeItem, DrainLoop, WaitForWork, Account, InLoop
  <2>4. Left(t) \in {"reap", "exited"} /\ (Left(t) = "reap" => t = Main)
    BY DEF Left
  <2>5. ASSUME NEW u \in Threads PROVE
          /\ InItem(u)' => item'[u] \in Items
          /\ ~InItem(u)' /\ pc'[u] # "lock" => item'[u] = NoItem
          /\ thrown'[u] # "none" => pc'[u] = "lock" /\ item'[u] # NoItem
          /\ pc'[u] = "unborn" <=> u > workers'
          /\ pc'[u] \in MainLabels \cup {"incomplete"} => u = Main
    BY <1>2, <2>1, <2>2, <2>4 DEF ControlOK, InItem, MainLabels
  <2>6. Ended' => Ended /\ quit /\ ~TakeItem(t)
    BY <1>1, <2>1, <2>4 DEF Ended, QuitOK, TakeItem
  <2>7. Ended' => \A u \in Threads : ~InItem(u)'
    BY <1>2, <2>1, <2>4, <2>6 DEF ControlOK, InItem
  <2> QED BY <2>5, <2>7 DEF ControlOK
<1>6. CASE SubmitNode
  <2>1. PICK n \in submit : Enqueue(Main, n, "enqueue") /\ pc[Main] = "enqueue" /\ UNCHANGED <<item, thrown>>
    BY <1>6 DEF SubmitNode
  <2>2. /\ OthersStay(Main) /\ pc'[Main] = "enqueue"
        /\ \A u \in Threads : pc'[u] = "unborn" <=> u > workers'
    BY <1>1, <2>1, EnqueueMoves
  <2>3. ~Ended'
    BY <2>2 DEF Ended
  <2>4. ASSUME NEW u \in Threads PROVE
          /\ InItem(u)' => item'[u] \in Items
          /\ ~InItem(u)' /\ pc'[u] # "lock" => item'[u] = NoItem
          /\ thrown'[u] # "none" => pc'[u] = "lock" /\ item'[u] # NoItem
          /\ pc'[u] \in MainLabels \cup {"incomplete"} => u = Main
    BY <1>2, <2>1, <2>2 DEF ControlOK, InItem, OthersStay, MainLabels
  <2> QED BY <2>2, <2>3, <2>4 DEF ControlOK
<1>7. CASE CallProcess
  BY <1>1, <1>2, <1>7 DEF CallProcess, Process, ControlOK, InItem, MainLabels, Ended
<1>8. CASE Shutdown
  <2>1. /\ pc'[Main] = "join"
        /\ \A u \in Threads \ {Main} : pc'[u] = pc[u] \/ (pc[u] = "wait" /\ pc'[u] = "recheck")
    BY <1>1, <1>8, NotifyAllMoves DEF Shutdown, Labels, MainLabels
  <2> QED BY <1>1, <1>2, <1>8, <2>1 DEF Shutdown, ControlOK, InItem, MainLabels, Ended
<1>9. CASE End
  <2>1. PICK label \in {"threw", "incomplete", "returned"} : Goto(Main, label)
    BY <1>9 DEF End
  <2>2. pc[Main] = "join" /\ \A u \in Threads \ {Main} : pc[u] \in {"exited", "unborn"}
    BY <1>1, <1>9 DEF End, Joined, ControlOK, Threads, Main
  <2> QED BY <1>1, <1>2, <2>1, <2>2 DEF Goto, queue, ControlOK, InItem, MainLabels, Ended
<1>10. CASE UNCHANGED vars
  BY <1>10 DEF vars, poolVars, queue, ControlOK, InItem, Ended
<1> QED BY <1>4, <1>5, <1>6, <1>7, <1>8, <1>9, <1>10 DEF Next, Caller, LoopStep

-----------------------------------------------------------------------------
(* Being inside an item or at its end is to hold it.                       *)
LEMMA ActiveIsOccupied ==
    ASSUME PoolTypeOK, ControlOK
    PROVE  {t \in Threads : pc[t] \in ItemLabels \/ DidWork(t)} = Occupied
  BY NoItemAssumption, LabelsAssumption DEF ControlOK, PoolTypeOK, Occupied, DidWork, InItem

LEMMA OccupiedFinite ==
    /\ IsFiniteSet(Occupied) /\ Cardinality(Occupied) \in Nat
    /\ \A t \in Threads : /\ IsFiniteSet(Occupied \ {t}) /\ Cardinality(Occupied \ {t}) \in Nat
                          /\ Cardinality(Occupied \ {t}) =
                               IF t \in Occupied THEN Cardinality(Occupied) - 1 ELSE Cardinality(Occupied)
<1>1. IsFiniteSet(Threads)
  BY MaxThreadsAssumption, FS_Interval DEF Threads
<1>2. IsFiniteSet(Occupied) /\ Cardinality(Occupied) \in Nat
  BY <1>1, FS_Subset, FS_CardinalityType DEF Occupied
<1>3. ASSUME NEW t \in Threads
      PROVE  /\ IsFiniteSet(Occupied \ {t}) /\ Cardinality(Occupied \ {t}) \in Nat
             /\ Cardinality(Occupied \ {t}) =
                  IF t \in Occupied THEN Cardinality(Occupied) - 1 ELSE Cardinality(Occupied)
  BY <1>2, FS_RemoveElement, FS_CardinalityType
<1> QED BY <1>2, <1>3

(* A thread in the loop has accounted for its item once it is not counted. *)
LEMMA StillActiveCounts ==
    ASSUME TypeOK, ControlOK, NEW t \in Threads, InLoop(t)
    PROVE  StillActive(t) = Cardinality(Occupied \ {t})
<1>1. active = Cardinality(Occupied)
  BY ActiveIsOccupied DEF TypeOK
<1>2. t \in Occupied <=> DidWork(t)
  BY LabelsAssumption DEF Occupied, DidWork, InLoop, ControlOK, InItem
<1> QED BY <1>1, <1>2, OccupiedFinite DEF StillActive

LEMMA StepKeepsCount ==
    ASSUME TypeOK, ControlOK, QuitOK, [Next]_vars
    PROVE  TypeOK'
<1>1. PoolTypeOK /\ PoolTypeOK' /\ ControlOK' /\ GraphTypeOK'
  BY StepKeepsPoolTypes, StepKeepsGraphTypes, StepKeepsControl DEF TypeOK
<1>a. {t \in Threads : pc'[t] \in ItemLabels \/ DidWork(t)'} = Occupied'
  BY <1>1, NoItemAssumption, LabelsAssumption DEF ControlOK, PoolTypeOK, Occupied, DidWork, InItem
<1>b. SUFFICES active' = Cardinality(Occupied')
  BY <1>1, <1>a DEF TypeOK
<1>2. active = Cardinality(Occupied)
  BY <1>1, ActiveIsOccupied DEF TypeOK
<1>3. ASSUME active' = active, item' = item PROVE active' = Cardinality(Occupied')
  BY <1>2, <1>3 DEF Occupied
<1>4. ASSUME NEW t \in Threads, Loop(t) PROVE active' = Cardinality(Occupied')
  <2>1. StillActive(t) = Cardinality(Occupied \ {t})
    BY <1>4, StillActiveCounts DEF Loop, LeaveLoop, TakeItem, DrainLoop, WaitForWork
  <2>2. CASE TakeItem(t)
    <3>1. Occupied' = (Occupied \ {t}) \cup {t}
      BY <1>1, <2>2, NoItemAssumption DEF TakeItem, Occupied, PoolTypeOK
    <3>2. t \notin Occupied \ {t} /\ IsFiniteSet(Occupied \ {t})
      BY OccupiedFinite
    <3>3. Cardinality(Occupied') = Cardinality(Occupied \ {t}) + 1
      BY <3>1, <3>2, FS_AddElement
    <3> QED BY <2>1, <2>2, <3>3 DEF TakeItem
  <2>3. CASE LeaveLoop(t) \/ DrainLoop(t) \/ WaitForWork(t)
    <3>1. Occupied' = Occupied \ {t} /\ active' = StillActive(t)
      BY <1>1, <2>3 DEF LeaveLoop, DrainLoop, WaitForWork, Occupied, PoolTypeOK
    <3> QED BY <2>1, <3>1
  <2> QED BY <1>4, <2>2, <2>3 DEF Loop
<1>5. ASSUME NEW t \in Threads, ItemStep(t) PROVE active' = Cardinality(Occupied')
  BY <1>3, <1>5, ItemMoves
<1>6. CASE SubmitNode
  BY <1>3, <1>6 DEF SubmitNode, Enqueue
<1>7. CASE CallProcess \/ Shutdown \/ End
  BY <1>3, <1>7 DEF CallProcess, Process, Shutdown, End, Goto, queue
<1>8. CASE UNCHANGED vars
  BY <1>3, <1>8 DEF vars, poolVars, queue
<1> QED BY <1>4, <1>5, <1>6, <1>7, <1>8 DEF Next, Caller, LoopStep

(* The pool is drained only when no thread holds an item, and from then on *)
(* nothing is enqueued; the first exception is the one that a callback     *)
(* throws, because the others need a pool that quits.                      *)
LEMMA StepKeepsQuit ==
    ASSUME TypeOK, ControlOK, QuitOK, [Next]_vars
    PROVE  QuitOK'
<1>1. PoolTypeOK /\ PoolTypeOK'
  BY StepKeepsPoolTypes DEF TypeOK
<1>2. Main \in Threads /\ ItemLabels = {"start", "edges", "link", "work", "finish", "visit"}
  BY MaxThreadsAssumption, LabelsAssumption DEF Main, Threads
<1>3. ASSUME NEW t \in Threads, ItemStep(t) PROVE QuitOK'
  <2>1. /\ InItem(t) /\ item[t] \in Items /\ item' = item
        /\ OthersStay(t) /\ pc'[t] \in ItemLabels \cup {"lock"}
        /\ \A u \in Threads \ {t} : thrown'[u] = thrown[u]
        /\ draining' = draining /\ exception' = exception /\ quit' = quit /\ submit' = submit
    BY <1>3, ItemMoves
  <2>2. Occupied # {} /\ Occupied' # {}
    BY <2>1, NoItemAssumption DEF Occupied
  <2>3. quit => exception = "item"
    BY <2>2 DEF QuitOK
  <2>4. thrown'[t] \notin {thrown[t], "item"} => quit
    BY <1>1, <1>3 DEF PoolTypeOK, ItemStep, FindNode, GetEdges, LinkNode, ProcessNode, LockGraph, VisitReferrer, VisitThrows, EraseNode, Goto, Throw, Return, Enqueue, poolVars, queue
  <2>5. pc'[Main] \in MainLabels \cup {"incomplete"} => pc'[Main] = pc[Main]
    BY <1>2, <2>1 DEF OthersStay, MainLabels
  <2>6. /\ pc'[Main] = "enqueue" => pc[Main] = "enqueue"
        /\ pc'[Main] \in {"reap", "join"} \/ Ended' => pc[Main] \in {"reap", "join"} \/ Ended
    BY <2>5 DEF MainLabels, Ended
  <2> QED BY <2>1, <2>2, <2>3, <2>4, <2>6 DEF QuitOK
<1>4. ASSUME NEW t \in Threads, Loop(t), submit' = submit PROVE QuitOK'
  <2>1. /\ pc'[t] = IF TakeItem(t) THEN "start" ELSE IF WaitForWork(t) THEN "wait" ELSE Left(t)
        /\ \A u \in Threads \ {t} : \/ pc'[u] = pc[u]
                                    \/ pc[u] = "wait" /\ pc'[u] = "recheck"
    BY <1>4, LoopMoves DEF TypeOK
  <2>2. pc[t] \in {"lock", "recheck"} /\ draining' = draining
    BY <1>4 DEF Loop, LeaveLoop, TakeItem, DrainLoop, WaitForWork, InLoop
  <2>3. /\ pc'[Main] = "enqueue" => pc[Main] = "enqueue"
        /\ Ended' => Ended
        /\ pc'[Main] \in {"reap", "join"} =>
              pc[Main] \in {"reap", "join"} \/ (t = Main /\ pc'[t] = "reap")
    BY <1>2, <2>1, <2>2 DEF Ended, Left
  <2>4. CASE LeaveLoop(t)
    <3>1. /\ quit' /\ pending' = pending /\ (quit \/ FirstException(t))
          /\ exception' = IF FirstException(t) THEN thrown[t] ELSE exception
          /\ \A u \in Threads : thrown'[u] \in {"none", thrown[u]} /\ item'[u] \in {NoItem, item[u]}
      BY <1>1, <2>4 DEF LeaveLoop, Account, PoolTypeOK
    <3>2. FirstException(t) => thrown[t] = "item"
      BY DEF FirstException, QuitOK
    <3>3. exception' \in {"none", "item"} /\ (exception = "item" => exception' = "item")
      BY <3>1, <3>2 DEF QuitOK, FirstException
    <3>4. exception' = "none" => quit /\ exception = "none"
      BY <3>1, <3>2 DEF FirstException
    <3> QED BY <1>4, <2>2, <2>3, <3>1, <3>2, <3>3, <3>4 DEF QuitOK, Occupied
  <2>5. CASE TakeItem(t)
    BY <1>4, <2>1, <2>2, <2>3, <2>5 DEF TakeItem, QuitOK
  <2>6. CASE DrainLoop(t)
    <3>1. StillActive(t) = Cardinality(Occupied \ {t})
      BY <2>6, StillActiveCounts DEF DrainLoop
    <3>2. Occupied \ {t} = {}
      BY <2>6, <3>1, OccupiedFinite, FS_EmptySet DEF DrainLoop, Drained
    <3>3. Occupied' = {} /\ draining /\ pending' = <<>>
      BY <1>1, <2>6, <3>2 DEF DrainLoop, Drained, Occupied, PoolTypeOK
    <3> QED BY <1>4, <2>2, <2>3, <2>6, <3>3 DEF DrainLoop, QuitOK
  <2>7. CASE WaitForWork(t)
    BY <1>4, <2>1, <2>2, <2>3, <2>7 DEF WaitForWork, QuitOK
  <2> QED BY <1>4, <2>4, <2>5, <2>6, <2>7 DEF Loop
<1>5. CASE SubmitNode
  <2>1. PICK n \in submit : Enqueue(Main, n, "enqueue") /\ pc[Main] = "enqueue" /\ UNCHANGED <<item, thrown>>
    BY <1>5 DEF SubmitNode
  <2>2. pc'[Main] = "enqueue"
    BY <1>2, <2>1, EnqueueMoves
  <2> QED BY <2>1, <2>2 DEF Enqueue, QuitOK, Ended
<1>6. CASE CallProcess
  BY <1>1, <1>2, <1>6 DEF CallProcess, Process, graphVars, QuitOK, PoolTypeOK, Ended, Occupied
<1>7. CASE Shutdown /\ UNCHANGED graphVars
  <2>1. pc'[Main] = "join" /\ quit
    BY <1>2, <1>7, NotifyAllMoves DEF Shutdown, Labels, MainLabels, QuitOK
  <2> QED BY <1>7, <2>1 DEF Shutdown, graphVars, QuitOK, Occupied
<1>8. CASE End
  <2>1. pc'[Main] \in {"threw", "incomplete", "returned"} /\ quit
    BY <1>1, <1>2, <1>8 DEF End, Goto, PoolTypeOK, QuitOK
  <2> QED BY <1>8, <2>1 DEF End, Goto, queue, graphVars, QuitOK, Occupied
<1>9. CASE UNCHANGED vars
  BY <1>9 DEF vars, poolVars, graphVars, queue, QuitOK, Ended, Occupied
<1> QED BY <1>3, <1>4, <1>5, <1>6, <1>7, <1>8, <1>9 DEF Next, Caller, LoopStep, graphVars

-----------------------------------------------------------------------------
(* The queue as a set. *)
LEMMA QueuedAppend ==
    ASSUME pending \in Seq(Items), NEW n \in Items, pending' = Append(pending, n)
    PROVE  /\ Queued' = Queued \cup {n}
           /\ QueuedOnce /\ n \notin Queued => QueuedOnce'
<1>1. /\ Len(pending') = Len(pending) + 1 /\ Len(pending) \in Nat
      /\ \A i \in 1..Len(pending) : pending'[i] = pending[i]
      /\ pending'[Len(pending) + 1] = n
  OBVIOUS
<1>2. 1..Len(pending') = (1..Len(pending)) \cup {Len(pending) + 1}
  BY <1>1
<1>3. Queued' = Queued \cup {n}
  BY <1>1, <1>2 DEF Queued
<1>4. QueuedOnce /\ n \notin Queued => QueuedOnce'
  BY <1>1, <1>2 DEF Queued, QueuedOnce
<1> QED BY <1>3, <1>4

LEMMA QueuedTail ==
    ASSUME pending \in Seq(Items), QueuedOnce, pending # <<>>, pending' = Tail(pending)
    PROVE  /\ Head(pending) \in Queued /\ Queued' = Queued \ {Head(pending)}
           /\ QueuedOnce'
<1>1. /\ Len(pending) \in Nat \ {0} /\ Len(pending') = Len(pending) - 1
      /\ \A i \in 1..Len(pending') : pending'[i] = pending[i + 1]
      /\ Head(pending) = pending[1]
  OBVIOUS
<1>2. \A i \in 1..Len(pending) : i # 1 => i - 1 \in 1..Len(pending') /\ pending'[i - 1] = pending[i]
  BY <1>1
<1>3. \A i \in 1..Len(pending') : i + 1 \in 1..Len(pending) /\ i + 1 # 1
  BY <1>1
<1>4. Head(pending) \in Queued
  BY <1>1 DEF Queued
<1>5. ASSUME NEW n \in Queued' PROVE n \in Queued /\ n # Head(pending)
  <2>1. PICK i \in 1..Len(pending') : n = pending'[i]
    BY DEF Queued
  <2>2. n = pending[i + 1] /\ i + 1 \in 1..Len(pending) /\ 1 \in 1..Len(pending) /\ i + 1 # 1
    BY <1>1, <1>3, <2>1
  <2> QED BY <1>1, <2>2 DEF Queued, QueuedOnce
<1>6. ASSUME NEW n \in Queued, n # Head(pending) PROVE n \in Queued'
  BY SMTT(30), <1>1, <1>2, <1>6 DEF Queued
<1>7. QueuedOnce'
  <2> SUFFICES ASSUME NEW i \in 1..Len(pending'), NEW j \in 1..Len(pending'), pending'[i] = pending'[j]
               PROVE  i = j
    BY DEF QueuedOnce
  <2>1. i + 1 = j + 1
    BY <1>1, <1>3 DEF QueuedOnce
  <2> QED BY <2>1
<1> QED BY <1>4, <1>5, <1>6, <1>7

(* The steps outside the items, seen from the graph: threads stay inside   *)
(* their items, and may take one from the queue.                           *)
LEMMA OutsideItems ==
    ASSUME TypeOK, ControlOK, \/ Caller
                              \/ \E t \in Threads : LoopStep(t)
                              \/ UNCHANGED vars
    PROVE  /\ UNCHANGED <<graph, edges, owner, visit, processed>>
           /\ \A u \in Threads :
                 /\ InItem(u) => pc'[u] = pc[u] /\ item'[u] = item[u]
                 /\ ~InItem(u) /\ InItem(u)' => TakeItem(u) /\ LoopStep(u)
<1>1. Main \in Threads /\ ItemLabels = {"start", "edges", "link", "work", "finish", "visit"}
  BY MaxThreadsAssumption, LabelsAssumption DEF Main, Threads
<1>2. PoolTypeOK
  BY DEF TypeOK
<1>3. CASE SubmitNode
  <2>1. PICK n \in submit : Enqueue(Main, n, "enqueue") /\ pc[Main] = "enqueue"
    BY <1>3 DEF SubmitNode
  <2>2. pc'[Main] = "enqueue" /\ OthersStay(Main)
    BY <1>1, <2>1, EnqueueMoves
  <2> QED BY <1>1, <1>3, <2>1, <2>2 DEF SubmitNode, OthersStay, InItem
<1>4. CASE CallProcess
  BY <1>1, <1>2, <1>4 DEF CallProcess, Process, graphVars, InItem, PoolTypeOK
<1>5. CASE Shutdown /\ UNCHANGED graphVars
  <2>1. /\ pc[Main] = "reap" /\ pc'[Main] = "join" /\ item' = item
        /\ \A u \in Threads \ {Main} : pc'[u] = pc[u] \/ (pc[u] = "wait" /\ pc'[u] = "recheck")
    BY <1>1, <1>5, NotifyAllMoves DEF Shutdown, Labels, MainLabels
  <2> QED BY <1>1, <1>5, <2>1 DEF graphVars, InItem
<1>6. CASE End
  <2>1. PICK label \in {"threw", "incomplete", "returned"} : Goto(Main, label)
    BY <1>6 DEF End
  <2> QED BY <1>1, <1>2, <1>6, <2>1 DEF End, Goto, graphVars, InItem, PoolTypeOK
<1>7. ASSUME NEW t \in Threads, LoopStep(t)
      PROVE  /\ UNCHANGED <<graph, edges, owner, visit, processed>>
             /\ \A u \in Threads :
                   /\ InItem(u) => pc'[u] = pc[u] /\ item'[u] = item[u]
                   /\ ~InItem(u) /\ InItem(u)' => TakeItem(u) /\ LoopStep(u)
  <2>1. /\ pc'[t] = IF TakeItem(t) THEN "start" ELSE IF WaitForWork(t) THEN "wait" ELSE Left(t)
        /\ \A u \in Threads \ {t} : \/ pc'[u] = pc[u]
                                    \/ pc[u] = "wait" /\ pc'[u] = "recheck"
    BY <1>7, LoopMoves DEF LoopStep
  <2>2. ~InItem(t) /\ \A u \in Threads \ {t} : item'[u] = item[u]
    BY <1>1, <1>2, <1>7 DEF LoopStep, Loop, LeaveLoop, TakeItem, DrainLoop, WaitForWork, InLoop, InItem, PoolTypeOK
  <2>3. Left(t) \notin ItemLabels
    BY <1>1 DEF Left
  <2>4. UNCHANGED graphVars
    BY <1>7 DEF LoopStep
  <2> QED BY <1>1, <1>7, <2>1, <2>2, <2>3, <2>4 DEF graphVars, InItem
<1>8. CASE UNCHANGED vars
  BY <1>8 DEF vars, poolVars, graphVars, InItem
<1> QED BY <1>3, <1>4, <1>5, <1>6, <1>7, <1>8 DEF Caller

(* The other threads stay inside their items.                              *)
LEMMA OthersInside ==
    ASSUME TypeOK, ControlOK, NEW t \in Threads, ItemStep(t)
    PROVE  /\ InItem(t) /\ item[t] \in Items /\ item' = item
           /\ \A u \in Threads \ {t} : /\ InItem(u)' <=> InItem(u)
                                       /\ InItem(u) => pc'[u] = pc[u]
           /\ pc'[t] \in ItemLabels \cup {"lock"}
           /\ submit' = submit /\ exception' = exception /\ quit' = quit
<1>1. OthersStay(t)
  BY ItemMoves
<1>2. \A u \in Threads \ {t} : /\ InItem(u)' <=> InItem(u)
                               /\ InItem(u) => pc'[u] = pc[u]
  BY <1>1, LabelsAssumption DEF OthersStay, InItem
<1> QED BY <1>2, ItemMoves

(* The mutex of graph_ protects the loop over the referrers: no node is    *)
(* linked to the one that is about to be erased.                           *)
LEMMA StepKeepsLinks ==
    ASSUME TypeOK, ControlOK, LinksOK, [Next]_vars
    PROVE  LinksOK'
<1> USE DEF TypeOK, PoolTypeOK, GraphTypeOK
<1>1. ItemLabels = {"start", "edges", "link", "work", "finish", "visit"} /\ NoItem \notin Items \cup Threads
  BY LabelsAssumption, NoItemAssumption
<1>2. CASE Caller \/ (\E t \in Threads : LoopStep(t)) \/ UNCHANGED vars
  <2>1. /\ UNCHANGED <<graph, edges, owner, visit, processed>>
        /\ \A u \in Threads :
                 /\ InItem(u) => pc'[u] = pc[u] /\ item'[u] = item[u]
                 /\ ~InItem(u) /\ InItem(u)' => TakeItem(u)
    BY <1>2, OutsideItems
  <2>2. ASSUME NEW u \in Threads, pc'[u] \in {"finish", "visit"}
        PROVE  pc[u] = pc'[u] /\ item'[u] = item[u]
    BY <1>1, <2>1, <2>2 DEF InItem, TakeItem
  <2> QED BY <2>1, <2>2 DEF LinksOK, graph
<1>3. ASSUME NEW t \in Threads, ItemStep(t) PROVE LinksOK'
  <2>1. /\ InItem(t) /\ item[t] \in Items /\ item' = item
        /\ \A u \in Threads \ {t} : InItem(u)' => pc'[u] = pc[u]
    BY <1>3, OthersInside
  <2>2. \A u \in Threads \ {t} : pc'[u] \in {"finish", "visit"} => pc[u] = pc'[u]
    BY <1>1, <2>1 DEF InItem
  <2>3. CASE FindNode(t) \/ GetEdges(t)
    <3>1. pc'[t] \notin {"finish", "visit"} /\ UNCHANGED graphVars
      BY <2>3 DEF FindNode, GetEdges, Goto, Throw
    <3> QED BY <2>1, <2>2, <3>1 DEF LinksOK, graphVars, graph
  <2>4. CASE LinkNode(t)
    <3>1. /\ pc'[t] \notin {"finish", "visit"} /\ owner = NoItem
          /\ known' = known \cup {item[t]}
          /\ refs' = [refs EXCEPT ![item[t]] = (edges[item[t]] \ {item[t]}) \cap left]
          /\ UNCHANGED <<left, edges, owner, visit, submit, processed>>
      BY <2>4 DEF LinkNode, Goto, Return, Unprocessed
    <3>2. \A u \in Threads : pc'[u] # "visit"
      BY <1>1, <2>2, <3>1 DEF LinksOK
    <3>3. \A n \in known' : /\ refs'[n] \subseteq (edges[n] \ {n}) \cap left
                            /\ edges[n] \ {n} \subseteq refs'[n] \cup processed
      BY <2>1, <3>1 DEF LinksOK
    <3> QED BY <2>1, <2>2, <3>1, <3>2, <3>3 DEF LinksOK
  <2>5. CASE ProcessNode(t)
    <3>1. /\ pc'[t] # "visit" /\ processed \subseteq processed'
          /\ pc'[t] = "finish" => item[t] \in processed'
          /\ UNCHANGED <<graph, edges, owner, visit>>
      BY <2>5 DEF ProcessNode, Goto, Throw
    <3> QED BY <2>1, <2>2, <3>1 DEF LinksOK, graph
  <2>6. CASE LockGraph(t)
    <3>1. \A u \in Threads \ {t} : pc'[u] # "visit"
      BY <1>1, <2>2, <2>6 DEF LinksOK, LockGraph
    <3>2. /\ visit'[t] = {m \in known : item[t] \in refs[m]} /\ owner' = t
          /\ item[t] \in processed
          /\ UNCHANGED <<graph, edges, processed>>
      BY <2>6 DEF LockGraph, LinksOK
    <3> QED BY <2>1, <2>2, <3>1, <3>2 DEF LinksOK, graph
  <2>7. CASE VisitReferrer(t)
    <3>1. owner = t /\ item[t] \in processed /\ visit[t] = {m \in known : item[t] \in refs[m]}
      BY <2>7 DEF VisitReferrer, LinksOK
    <3>2. \A u \in Threads \ {t} : pc'[u] # "visit"
      BY <1>1, <2>2, <3>1 DEF LinksOK
    <3>3. PICK m \in visit[t] : /\ refs' = [refs EXCEPT ![m] = @ \ {item[t]}]
                                /\ visit' = [visit EXCEPT ![t] = @ \ {m}]
      BY <2>7 DEF VisitReferrer
    <3>4. UNCHANGED <<left, known, edges, owner, processed>>
      BY <2>7 DEF VisitReferrer
    <3>5. visit'[t] = {n \in known : item[t] \in refs'[n]}
      BY <3>1, <3>3
    <3>6. \A n \in known : /\ refs'[n] \subseteq refs[n]
                           /\ refs[n] \subseteq refs'[n] \cup {item[t]}
      BY <3>3
    <3> QED BY <2>1, <2>2, <3>1, <3>2, <3>4, <3>5, <3>6 DEF LinksOK
  <2>8. CASE VisitThrows(t)
    <3>1. owner = t /\ item[t] \in processed
      BY <2>8 DEF VisitThrows, LinksOK
    <3>2. \A u \in Threads : pc'[u] # "visit"
      BY <1>1, <2>2, <2>8, <3>1 DEF LinksOK, VisitThrows, Throw
    <3>3. \A n \in known : /\ refs'[n] \subseteq refs[n]
                           /\ refs[n] \subseteq refs'[n] \cup {item[t]}
      BY <2>8 DEF VisitThrows
    <3>4. UNCHANGED <<left, known, edges, processed>> /\ pc'[t] = "lock"
      BY <2>8 DEF VisitThrows, Throw
    <3> QED BY <2>1, <2>2, <3>1, <3>2, <3>3, <3>4 DEF LinksOK
  <2>9. CASE EraseNode(t)
    <3>1. owner = t /\ item[t] \in processed /\ \A m \in known : item[t] \notin refs[m]
      BY <2>9 DEF EraseNode, LinksOK
    <3>2. \A u \in Threads : pc'[u] # "visit"
      BY <1>1, <2>2, <2>9, <3>1 DEF LinksOK, EraseNode, Return
    <3>3. /\ left' = left \ {item[t]} /\ known' = known \ {item[t]} /\ pc'[t] = "lock"
          /\ UNCHANGED <<refs, edges, processed>>
      BY <2>9 DEF EraseNode, Return
    <3> QED BY <2>1, <2>2, <3>1, <3>2, <3>3 DEF LinksOK
  <2> QED BY <1>3, <2>3, <2>4, <2>5, <2>6, <2>7, <2>8, <2>9 DEF ItemStep
<1> QED BY <1>2, <1>3 DEF Next

-----------------------------------------------------------------------------
(* What the steps outside the items do to the queue.                       *)
LEMMA OutsideQueue ==
    ASSUME TypeOK, ControlOK, \/ Caller
                              \/ \E t \in Threads : LoopStep(t)
                              \/ UNCHANGED vars
    PROVE  \/ UNCHANGED <<pending, submit>> /\ \A u \in Threads : InItem(u)' <=> InItem(u)
           \/ /\ \E n \in submit : submit' = submit \ {n} /\ pending' = Append(pending, n)
              /\ \A u \in Threads : InItem(u)' <=> InItem(u)
           \/ /\ pending # <<>> /\ pending' = Tail(pending) /\ submit' = submit
              /\ \E t \in Threads : /\ ~InItem(t) /\ pc'[t] = "start" /\ item'[t] = Head(pending)
                                     /\ \A u \in Threads \ {t} : InItem(u)' <=> InItem(u)
<1> USE DEF TypeOK, PoolTypeOK
<1>1. /\ Main \in Threads /\ ItemLabels = {"start", "edges", "link", "work", "finish", "visit"}
  BY MaxThreadsAssumption, LabelsAssumption DEF Main, Threads
<1>2. \A u \in Threads : /\ InItem(u) => InItem(u)'
                         /\ ~InItem(u) /\ InItem(u)' => TakeItem(u) /\ LoopStep(u)
  BY OutsideItems DEF InItem
<1>3. CASE \E t \in Threads : TakeItem(t) /\ LoopStep(t)
  <2>1. PICK t \in Threads : TakeItem(t) /\ LoopStep(t)
    BY <1>3
  <2>2. /\ pending # <<>> /\ pending' = Tail(pending) /\ submit' = submit
        /\ ~InItem(t) /\ pc'[t] = "start" /\ item'[t] = Head(pending)
        /\ \A u \in Threads \ {t} : pc'[u] = pc[u]
    BY <1>1, <2>1 DEF TakeItem, LoopStep, graphVars, InItem, InLoop
  <2> QED BY <2>2 DEF InItem
<1>4. CASE ~\E t \in Threads : TakeItem(t) /\ LoopStep(t)
  <2>1. \A u \in Threads : InItem(u)' <=> InItem(u)
    BY <1>2, <1>4
  <2>2. CASE SubmitNode
    BY <2>1, <2>2 DEF SubmitNode, Enqueue
  <2>3. CASE CallProcess \/ (Shutdown /\ UNCHANGED graphVars) \/ End \/ UNCHANGED vars
    BY <2>1, <2>3 DEF CallProcess, Process, Shutdown, End, Goto, queue, vars, poolVars, graphVars
  <2>4. ASSUME NEW t \in Threads, LoopStep(t) PROVE UNCHANGED <<pending, submit>>
    <3>1. LeaveLoop(t) \/ DrainLoop(t) \/ WaitForWork(t)
      BY <1>4, <2>4 DEF LoopStep, Loop
    <3> QED BY <2>4, <3>1 DEF LeaveLoop, DrainLoop, WaitForWork, LoopStep, graphVars
  <2> QED BY <2>1, <2>2, <2>3, <2>4 DEF Caller
<1> QED BY <1>3, <1>4

(* A node moves from one place to the next.                                *)
LEMMA StepKeepsPlaces ==
    ASSUME TypeOK, ControlOK, LinksOK, PlacesOK, [Next]_vars
    PROVE  PlacesOK'
<1> USE DEF TypeOK, PoolTypeOK, GraphTypeOK
<1>1. ItemLabels = {"start", "edges", "link", "work", "finish", "visit"} /\ NoItem \notin Items \cup Threads
  BY LabelsAssumption, NoItemAssumption
<1>3. CASE Caller \/ (\E t \in Threads : LoopStep(t)) \/ UNCHANGED vars
  <2>1. /\ UNCHANGED <<graph, edges, owner, visit, processed>>
        /\ \A u \in Threads :
                 /\ InItem(u) => pc'[u] = pc[u] /\ item'[u] = item[u]
                 /\ ~InItem(u) /\ InItem(u)' => TakeItem(u)
    BY <1>3, OutsideItems
  <2>2. Missing' = Missing /\ processed' = processed
    BY <2>1 DEF Missing, graph
  <2>3. CASE UNCHANGED <<pending, submit>> /\ \A u \in Threads : InItem(u)' <=> InItem(u)
    <3>1. Queued' = Queued /\ QueuedOnce' /\ submit' = submit
      BY <2>3 DEF Queued, QueuedOnce, PlacesOK
    <3>2. \A u \in Threads : InItem(u)' => InItem(u) /\ pc'[u] = pc[u] /\ item'[u] = item[u]
      BY <2>1, <2>3
    <3>3. \A u \in Threads : pc'[u] \in {"start", "edges", "link", "work"} => InItem(u)'
      BY <1>1 DEF InItem
    <3> QED BY <2>2, <3>1, <3>2, <3>3 DEF PlacesOK
  <2>4. ASSUME NEW n \in submit, submit' = submit \ {n}, pending' = Append(pending, n),
               \A u \in Threads : InItem(u)' <=> InItem(u)
        PROVE  PlacesOK'
    <3>1. n \notin Queued
      BY DEF PlacesOK
    <3>2. Queued' = Queued \cup {n} /\ QueuedOnce'
      BY <2>4, <3>1, QueuedAppend DEF PlacesOK
    <3>3. \A u \in Threads : InItem(u)' => InItem(u) /\ pc'[u] = pc[u] /\ item'[u] = item[u]
      BY <2>1, <2>4
    <3>4. \A u \in Threads : pc'[u] \in {"start", "edges", "link", "work"} => InItem(u)'
      BY <1>1 DEF InItem
    <3> QED BY <2>2, <2>4, <3>2, <3>3, <3>4 DEF PlacesOK
  <2>5. ASSUME pending # <<>>, pending' = Tail(pending), submit' = submit,
               NEW t \in Threads, ~InItem(t), pc'[t] = "start", item'[t] = Head(pending),
               \A u \in Threads \ {t} : InItem(u)' <=> InItem(u)
        PROVE  PlacesOK'
    <3>1. Head(pending) \in Queued /\ Queued' = Queued \ {Head(pending)} /\ QueuedOnce'
      BY <2>5, QueuedTail DEF PlacesOK
    <3>2. \A u \in Threads \ {t} : InItem(u)' => InItem(u) /\ pc'[u] = pc[u] /\ item'[u] = item[u]
      BY <2>1, <2>5
    <3>3. \A u \in Threads : pc'[u] \in {"start", "edges", "link", "work"} => InItem(u)'
      BY <1>1 DEF InItem
    <3>4. \A u \in Threads \ {t} : InItem(u)' => item'[u] # item'[t]
      BY <2>5, <3>1, <3>2 DEF PlacesOK
    <3> QED BY <2>2, <2>5, <3>1, <3>2, <3>3, <3>4 DEF PlacesOK
  <2> QED BY <1>3, <2>3, <2>4, <2>5, OutsideQueue
<1>4. ASSUME NEW t \in Threads, ItemStep(t) PROVE PlacesOK'
  <2>1. /\ InItem(t) /\ item[t] \in Items /\ item' = item /\ submit' = submit
        /\ \A u \in Threads \ {t} : InItem(u)' <=> InItem(u)
        /\ \A u \in Threads \ {t} : InItem(u)' => pc'[u] = pc[u]
    BY <1>4, OthersInside
  <2>2. \A u \in Threads : pc'[u] \in {"start", "edges", "link", "work"} => InItem(u)'
    BY <1>1 DEF InItem
  <2>3. /\ item[t] \notin submit \cup Queued \cup Missing
        /\ \A u \in Threads \ {t} : InItem(u)' => InItem(u) /\ item[u] # item[t]
        /\ \A u \in Threads : InItem(u)' => InItem(u)
    BY <2>1 DEF PlacesOK
  <2>4. CASE /\ UNCHANGED <<pending, graph, processed>>
             /\ pc[t] \in {"start", "edges", "link", "work"} \/ pc'[t] \in {"visit", "lock"}
    <3>1. Queued' = Queued /\ QueuedOnce' /\ Missing' = Missing
      BY <2>4 DEF Queued, QueuedOnce, Missing, graph, PlacesOK
    <3> QED BY <2>1, <2>2, <2>3, <2>4, <3>1 DEF PlacesOK
  <2>5. CASE FindNode(t) \/ GetEdges(t) \/ LockGraph(t)
    BY <2>4, <2>5 DEF FindNode, GetEdges, LockGraph, Goto, Throw, queue, graphVars, graph
  <2>6. CASE LinkNode(t)
    <3>1. /\ known' = known \cup {item[t]}
          /\ refs' = [refs EXCEPT ![item[t]] = Unprocessed(item[t])]
          /\ pc'[t] = IF Unprocessed(item[t]) = {} THEN "work" ELSE "lock"
          /\ UNCHANGED <<pending, processed>> /\ pc[t] = "link"
      BY <2>6 DEF LinkNode, Goto, Return, queue
    <3>2. Queued' = Queued /\ QueuedOnce'
      BY <3>1 DEF Queued, QueuedOnce, PlacesOK
    <3>3. Missing' = IF Unprocessed(item[t]) = {} THEN Missing ELSE Missing \cup {item[t]}
      BY <2>1, <2>3, <3>1 DEF Missing, Unprocessed
    <3>4. Unprocessed(item[t]) # {} => \A u \in Threads : InItem(u)' => u # t
      BY <1>1, <3>1 DEF InItem
    <3> QED BY <2>1, <2>2, <2>3, <3>1, <3>2, <3>3, <3>4 DEF PlacesOK
  <2>7. CASE ProcessNode(t)
    <3>1. CASE pc'[t] = "finish" /\ processed' = processed \cup {item[t]} /\ UNCHANGED <<pending, graph>>
      <4>1. Queued' = Queued /\ QueuedOnce' /\ Missing' = Missing
        BY <3>1 DEF Queued, QueuedOnce, Missing, graph, PlacesOK
      <4> QED BY <2>1, <2>2, <2>3, <3>1, <4>1 DEF PlacesOK
    <3> QED BY <2>4, <2>7, <3>1 DEF ProcessNode, Goto, Throw, queue
  <2>8. CASE VisitReferrer(t)
    <3>1. PICK m \in visit[t] :
             /\ refs' = [refs EXCEPT ![m] = @ \ {item[t]}]
             /\ \/ refs'[m] = {} /\ Enqueue(t, m, "visit")
                \/ refs'[m] # {} /\ UNCHANGED poolVars
      BY <2>8 DEF VisitReferrer
    <3>2. /\ pc[t] = "visit" /\ known' = known /\ processed' = processed
          /\ m \in Missing /\ m \in Items
      BY <2>8 DEF VisitReferrer, LinksOK, Missing
    <3>3. CASE refs'[m] # {}
      <4>1. Missing' = Missing
        BY <3>1, <3>2, <3>3 DEF Missing
      <4>2. Queued' = Queued /\ QueuedOnce' /\ pc' = pc
        BY <3>1, <3>3 DEF poolVars, queue, Queued, QueuedOnce, PlacesOK
      <4> QED BY <2>1, <2>2, <2>3, <3>2, <4>1, <4>2 DEF PlacesOK
    <3>4. CASE refs'[m] = {}
      <4>1. Missing' = Missing \ {m}
        BY <3>1, <3>2, <3>4 DEF Missing
      <4>2. pending' = Append(pending, m) /\ m \notin Queued
        BY <3>1, <3>2, <3>4 DEF Enqueue, PlacesOK
      <4>3. Queued' = Queued \cup {m} /\ QueuedOnce'
        BY <3>2, <4>2, QueuedAppend DEF PlacesOK
      <4>4. pc'[t] = "visit"
        BY <3>1, <3>2, <3>4, EnqueueMoves
      <4> QED BY <2>1, <2>2, <2>3, <3>2, <4>1, <4>3, <4>4 DEF PlacesOK
    <3> QED BY <3>3, <3>4
  <2>9. CASE VisitThrows(t) \/ EraseNode(t)
    <3>1. /\ pc'[t] = "lock" /\ UNCHANGED <<pending, processed>>
          /\ known' \subseteq known /\ \A n \in known : refs'[n] \subseteq refs[n]
      BY <2>9 DEF VisitThrows, EraseNode, Throw, Return, queue
    <3>2. Missing' \subseteq Missing
      BY <3>1 DEF Missing
    <3>3. Queued' = Queued /\ QueuedOnce'
      BY <3>1 DEF Queued, QueuedOnce, PlacesOK
    <3> QED BY <2>1, <2>2, <2>3, <3>1, <3>2, <3>3 DEF PlacesOK
  <2> QED BY <1>4, <2>5, <2>6, <2>7, <2>8, <2>9 DEF ItemStep
<1> QED BY <1>3, <1>4 DEF Next

-----------------------------------------------------------------------------
(* An exception of a callback is never forgotten, and only a callback adds *)
(* one.                                                                    *)
LEMMA FailedOutside ==
    ASSUME TypeOK, ControlOK, QuitOK, \/ Caller
                                      \/ \E t \in Threads : LoopStep(t)
                                      \/ UNCHANGED vars
    PROVE  Failed' <=> Failed
<1> USE DEF TypeOK, PoolTypeOK
<1>1. ASSUME exception' = exception, thrown' = thrown PROVE Failed' <=> Failed
  BY <1>1 DEF Failed
<1>2. CASE Caller \/ UNCHANGED vars
  BY <1>1, <1>2 DEF Caller, SubmitNode, Enqueue, CallProcess, Process, Shutdown, End, Goto, queue, vars, poolVars
<1>3. ASSUME NEW t \in Threads, Loop(t) PROVE Failed' <=> Failed
  <2>1. CASE LeaveLoop(t)
    <3>1. /\ exception' = IF FirstException(t) THEN thrown[t] ELSE exception
          /\ thrown' = [thrown EXCEPT ![t] = "none"]
      BY <2>1 DEF LeaveLoop, Account
    <3>2. FirstException(t) => thrown[t] = "item" /\ exception' = "item"
      BY <3>1 DEF FirstException, QuitOK
    <3>3. ~FirstException(t) /\ thrown[t] = "item" => exception = "item"
      BY DEF FirstException, DidWork, QuitOK, ControlOK
    <3> QED BY <3>1, <3>2, <3>3 DEF Failed
  <2>2. CASE TakeItem(t) \/ DrainLoop(t) \/ WaitForWork(t)
    BY <1>1, <2>2 DEF TakeItem, DrainLoop, WaitForWork
  <2> QED BY <1>3, <2>1, <2>2 DEF Loop
<1> QED BY <1>2, <1>3 DEF LoopStep

(* Inside the items a callback that throws fails; a thread that is         *)
(* interrupted, or finds the pool shut down, does so after a failure.      *)
LEMMA FailedInside ==
    ASSUME TypeOK, ControlOK, QuitOK, NEW t \in Threads, ItemStep(t)
    PROVE  /\ quit => Failed
           /\ Failed => Failed'
           /\ thrown' = thrown => (Failed' <=> Failed)
           /\ thrown' = [thrown EXCEPT ![t] = "item"] => Failed'
<1>1. /\ InItem(t) /\ item[t] \in Items /\ exception' = exception
      /\ \A u \in Threads \ {t} : thrown'[u] = thrown[u]
  BY ItemMoves
<1>2. thrown[t] = "none" /\ thrown \in [Threads -> Exceptions]
  BY <1>1, LabelsAssumption DEF ControlOK, InItem, TypeOK, PoolTypeOK
<1>3. quit => exception = "item"
  BY <1>1, NoItemAssumption DEF QuitOK, Occupied
<1> QED BY <1>1, <1>2, <1>3 DEF Failed

LEMMA StepKeepsNoneLost ==
    ASSUME IInv, [Next]_vars
    PROVE  NoneLost'
<1> USE DEF TypeOK, PoolTypeOK, GraphTypeOK
<1>1. TypeOK /\ ControlOK /\ QuitOK /\ LinksOK /\ PlacesOK /\ NoneLost
  BY DEF IInv
<1>2. ItemLabels = {"start", "edges", "link", "work", "finish", "visit"} /\ NoItem \notin Items \cup Threads
  BY LabelsAssumption, NoItemAssumption
<1>3. CASE Caller \/ (\E t \in Threads : LoopStep(t)) \/ UNCHANGED vars
  <2>1. SUFFICES ASSUME ~Failed, NEW n \in left
                 PROVE  \/ n \in submit' \cup Queued' \cup Missing'
                        \/ \E t \in Threads : InItem(t)' /\ item'[t] = n
    <3>1. left' = left /\ (Failed' <=> Failed)
      BY <1>1, <1>3, OutsideItems, FailedOutside DEF graph
    <3> QED BY <3>1 DEF NoneLost
  <2>2. /\ Missing' = Missing
        /\ \A u \in Threads : InItem(u) => InItem(u)' /\ item'[u] = item[u]
    BY <1>1, <1>3, OutsideItems DEF graph, Missing, InItem
  <2>3. \/ n \in submit \cup Queued \cup Missing
        \/ \E t \in Threads : InItem(t) /\ item[t] = n
    BY <1>1, <2>1 DEF NoneLost
  <2>4. CASE UNCHANGED <<pending, submit>>
    BY <2>2, <2>3, <2>4 DEF Queued
  <2>5. ASSUME NEW k \in submit, submit' = submit \ {k}, pending' = Append(pending, k)
        PROVE  submit \cup Queued = submit' \cup Queued'
    BY <1>1, <2>5, QueuedAppend
  <2>6. ASSUME pending # <<>>, pending' = Tail(pending), submit' = submit,
               NEW t \in Threads, pc'[t] = "start", item'[t] = Head(pending)
        PROVE  n \in submit \cup Queued =>
                  n \in submit' \cup Queued' \/ (InItem(t)' /\ item'[t] = n)
    <3>1. Queued' = Queued \ {Head(pending)}
      BY <1>1, <2>6, QueuedTail DEF PlacesOK
    <3> QED BY <1>2, <2>6, <3>1 DEF InItem
  <2> QED BY <1>1, <1>3, <2>2, <2>3, <2>4, <2>5, <2>6, OutsideQueue
<1>4. ASSUME NEW t \in Threads, ItemStep(t) PROVE NoneLost'
  <2>1. /\ InItem(t) /\ item[t] \in Items /\ item' = item /\ submit' = submit
        /\ \A u \in Threads \ {t} : InItem(u)' <=> InItem(u)
    BY <1>1, <1>4, OthersInside
  <2>2. SUFFICES ASSUME ~Failed', NEW n \in left'
                 PROVE  \/ n \in submit' \cup Queued' \cup Missing'
                        \/ \E u \in Threads : InItem(u)' /\ item'[u] = n
    BY DEF NoneLost
  <2>3. ~Failed /\ ~quit /\ thrown' # [thrown EXCEPT ![t] = "item"]
    BY <1>1, <1>4, <2>2, FailedInside
  <2>4. left' \subseteq left
    BY <1>4 DEF ItemStep, FindNode, GetEdges, LinkNode, ProcessNode, LockGraph, VisitReferrer, VisitThrows, EraseNode, graphVars, graph
  <2>5. \/ n \in submit \cup Queued \cup Missing
        \/ \E u \in Threads : InItem(u) /\ item[u] = n
    BY <1>1, <2>2, <2>3, <2>4 DEF NoneLost
  <2>6. \/ n \in submit' \cup Queued \cup Missing
        \/ InItem(t) /\ item[t] = n
        \/ \E u \in Threads : InItem(u)' /\ item'[u] = n
    BY <2>1, <2>5
  <2>7. CASE FindNode(t) \/ GetEdges(t) \/ ProcessNode(t) \/ LockGraph(t)
    <3>1. UNCHANGED <<pending, graph>> /\ pc'[t] \in ItemLabels
      BY <1>1, <1>2, <2>3, <2>7 DEF FindNode, GetEdges, ProcessNode, LockGraph, Goto, Throw, queue, graphVars, graph
    <3> QED BY <2>1, <2>6, <3>1 DEF InItem, Queued, Missing, graph
  <2>8. CASE LinkNode(t)
    <3>1. /\ known' = known \cup {item[t]} /\ pending' = pending
          /\ refs' = [refs EXCEPT ![item[t]] = Unprocessed(item[t])]
          /\ Unprocessed(item[t]) = {} => pc'[t] = "work"
      BY <1>1, <2>8 DEF LinkNode, Goto, Return, queue
    <3>2. Queued' = Queued /\ Missing \ {item[t]} \subseteq Missing'
      BY <3>1 DEF Queued, Missing
    <3>3. Unprocessed(item[t]) # {} => item[t] \in Missing'
      BY <1>1, <2>1, <3>1 DEF Missing, Unprocessed
    <3>4. Unprocessed(item[t]) = {} => InItem(t)'
      BY <1>2, <3>1 DEF InItem
    <3> QED BY <2>1, <2>6, <3>2, <3>3, <3>4
  <2>9. CASE VisitReferrer(t)
    <3>1. PICK m \in visit[t] :
             /\ refs' = [refs EXCEPT ![m] = @ \ {item[t]}]
             /\ \/ refs'[m] = {} /\ Enqueue(t, m, "visit")
                \/ refs'[m] # {} /\ UNCHANGED poolVars
      BY <2>9 DEF VisitReferrer
    <3>2. pc[t] = "visit" /\ known' = known /\ m \in Items
      BY <1>1, <2>9 DEF VisitReferrer
    <3>3. Missing \subseteq Missing' \cup {m}
      BY <3>1, <3>2 DEF Missing
    <3>4. CASE refs'[m] # {}
      <4>1. Missing \subseteq Missing'
        BY <3>1, <3>2, <3>4 DEF Missing
      <4>2. Queued' = Queued /\ InItem(t)'
        BY <2>1, <3>1, <3>4 DEF poolVars, queue, Queued, InItem
      <4> QED BY <2>1, <2>6, <4>1, <4>2
    <3>5. CASE refs'[m] = {}
      <4>1. pending' = Append(pending, m)
        BY <3>1, <3>5 DEF Enqueue
      <4>2. Queued' = Queued \cup {m}
        BY <1>1, <3>2, <4>1, QueuedAppend
      <4>3. InItem(t)'
        BY <1>1, <1>2, <3>1, <3>2, <3>5, EnqueueMoves DEF InItem
      <4> QED BY <2>1, <2>6, <3>3, <4>2, <4>3
    <3> QED BY <3>4, <3>5
  <2>10. CASE VisitThrows(t)
    BY <2>3, <2>10 DEF VisitThrows
  <2>11. CASE EraseNode(t)
    <3>1. n # item[t] /\ pending' = pending /\ refs' = refs /\ known' = known \ {item[t]}
      BY <2>2, <2>11 DEF EraseNode, Return, queue
    <3> QED BY <2>6, <3>1 DEF Queued, Missing
  <2> QED BY <1>4, <2>7, <2>8, <2>9, <2>10, <2>11 DEF ItemStep
<1> QED BY <1>3, <1>4 DEF Next

-----------------------------------------------------------------------------
LEMMA InitIInv ==
    ASSUME Init
    PROVE  IInv
<1> USE DEF Init, PoolInit
<1>1. Main \in Threads /\ MaxThreads \in Nat \ {0} /\ Threads = 0..(MaxThreads - 1) /\ Main = 0
  BY MaxThreadsAssumption DEF Main, Threads
<1>2. /\ \A t \in Threads : pc[t] = (IF t = Main THEN "enqueue" ELSE "unborn") /\ item[t] = NoItem /\ thrown[t] = "none"
      /\ \A t \in Threads : ~InItem(t) /\ pc[t] \in Labels /\ ~DidWork(t)
  BY LabelsAssumption DEF InItem, Labels, MainLabels, DidWork
<1>3. PoolTypeOK
  <2>1. pc \in [Threads -> Labels]
    BY <1>2
  <2>2. /\ item \in [Threads -> Items \cup {NoItem}] /\ thrown \in [Threads -> Exceptions]
        /\ workers \in 0..(MaxThreads - 1) /\ exception \in Exceptions
    BY <1>1 DEF Exceptions
  <2>3. pending \in Seq(Items)
    OBVIOUS
  <2>4. draining \in BOOLEAN /\ quit \in BOOLEAN
    OBVIOUS
  <2> QED BY <2>1, <2>2, <2>3, <2>4, Zenon DEF PoolTypeOK
<1>4. GraphTypeOK
  BY DEF GraphTypeOK
<1>5. {t \in Threads : pc[t] \in ItemLabels \/ DidWork(t)} = {}
  BY <1>2 DEF InItem
<1>6. TypeOK
  BY <1>3, <1>4, <1>5, FS_EmptySet DEF TypeOK
<1>7. ControlOK
  BY <1>1, <1>2 DEF ControlOK, MainLabels, Ended
<1>8. QuitOK
  BY <1>1, <1>2 DEF QuitOK, Ended
<1>9. LinksOK
  BY <1>2, GraphsAssumption DEF LinksOK
<1>10. Queued = {} /\ QueuedOnce /\ Missing = {}
  BY DEF Queued, QueuedOnce, Missing
<1>11. PlacesOK /\ NoneLost
  BY <1>2, <1>10 DEF PlacesOK, NoneLost
<1> QED BY <1>6, <1>7, <1>8, <1>9, <1>11 DEF IInv

LEMMA StepKeepsIInv ==
    ASSUME IInv, [Next]_vars
    PROVE  IInv'
  BY StepKeepsCount, StepKeepsControl, StepKeepsQuit, StepKeepsLinks, StepKeepsPlaces, StepKeepsNoneLost DEF IInv

LEMMA IInvHolds == Spec => []IInv
  BY InitIInv, StepKeepsIInv, PTL DEF Spec

(* Every variable keeps its type, and `active` counts the threads that are *)
(* inside an item, for any number of threads: an item that throws is       *)
(* accounted for like one that returns.                                    *)
THEOREM TypeCorrect == Spec => []TypeOK
<1>1. IInv => TypeOK
  BY DEF IInv
<1> QED BY <1>1, IInvHolds, PTL

-----------------------------------------------------------------------------
(* The refinement: what each step is for the caller. *)

(* Steps outside the items are not seen, except the end of the call.       *)
LEMMA OutsideUnseen ==
    ASSUME TypeOK, ControlOK, QuitOK, \/ Caller
                                      \/ \E t \in Threads : LoopStep(t)
                                      \/ UNCHANGED vars
    PROVE  /\ UNCHANGED <<edges, Busy, processed>> /\ (Failed' <=> Failed)
           /\ ~End => Outcome' = Outcome
<1>1. Main \in Threads /\ ItemLabels = {"start", "edges", "link", "work", "finish", "visit"}
  BY MaxThreadsAssumption, LabelsAssumption DEF Main, Threads
<1>2. \A u \in Threads : /\ InItem(u) => pc'[u] = pc[u] /\ item'[u] = item[u]
                         /\ ~InItem(u) /\ InItem(u)' => TakeItem(u)
  BY OutsideItems
<1>3. \A u \in Threads : /\ pc[u] = "work" => pc'[u] = "work" /\ item'[u] = item[u]
                         /\ pc'[u] = "work" => pc[u] = "work"
  BY <1>1, <1>2 DEF InItem, TakeItem, TypeOK, PoolTypeOK
<1>4. Busy' = Busy
  BY <1>3 DEF Busy
<1>5. ASSUME ~End PROVE pc'[Main] = pc[Main] \/ (~Ended /\ ~Ended')
  <2>1. CASE SubmitNode
    <3>1. pc'[Main] = "enqueue"
      BY <1>1, <2>1, EnqueueMoves DEF SubmitNode
    <3> QED BY <2>1, <3>1 DEF SubmitNode
  <2>2. CASE CallProcess
    BY <1>1, <2>2 DEF CallProcess, Process, Ended, TypeOK, PoolTypeOK
  <2>3. CASE Shutdown
    <3>1. pc[Main] = "reap" /\ pc'[Main] = "join"
      BY <1>1, <2>3, NotifyAllMoves DEF Shutdown, Labels, MainLabels
    <3> QED BY <3>1 DEF Ended
  <2>4. ASSUME NEW t \in Threads, LoopStep(t) PROVE pc'[Main] = pc[Main] \/ (~Ended /\ ~Ended')
    <3>1. /\ pc'[t] \in {"start", "wait", Left(t)}
          /\ \A u \in Threads \ {t} : \/ pc'[u] = pc[u]
                                      \/ pc[u] = "wait" /\ pc'[u] = "recheck"
      BY <2>4, LoopMoves DEF LoopStep
    <3>2. pc[t] \in {"lock", "recheck"} /\ Left(t) \in {"reap", "exited"}
      BY <2>4 DEF LoopStep, Loop, LeaveLoop, TakeItem, DrainLoop, WaitForWork, InLoop, Left
    <3> QED BY <1>1, <3>1, <3>2 DEF Ended
  <2>5. CASE UNCHANGED vars
    BY <2>5 DEF vars, poolVars
  <2> QED BY <1>5, <2>1, <2>2, <2>3, <2>4, <2>5 DEF Caller
<1>6. ~End => Outcome' = Outcome
  BY <1>5 DEF Outcome, Ended
<1> QED BY <1>4, <1>6, OutsideItems, FailedOutside

(* The call ends with all nodes processed, with the exception of a         *)
(* callback, or with a rest in which every node misses another one.        *)
LEMMA EndRefines ==
    ASSUME IInv, End
    PROVE  Walk!End
<1> USE DEF TypeOK, PoolTypeOK, GraphTypeOK
<1>1. TypeOK /\ ControlOK /\ QuitOK /\ LinksOK /\ PlacesOK /\ NoneLost
  BY DEF IInv
<1>2. Main \in Threads /\ ItemLabels = {"start", "edges", "link", "work", "finish", "visit"}
  BY MaxThreadsAssumption, LabelsAssumption DEF Main, Threads
<1>3. \A u \in Threads : pc[u] \in {"exited", "unborn", "join"}
  BY <1>1, <1>2 DEF End, Joined, ControlOK, Threads, Main
<1>4. Outcome = "running" /\ Busy = {} /\ \A u \in Threads : ~InItem(u)
  BY <1>2, <1>3 DEF Outcome, Ended, Busy, InItem
<1>5. UNCHANGED <<edges, Busy, processed>> /\ (Failed' <=> Failed)
  BY <1>1, OutsideUnseen DEF Caller
<1>6. /\ pc'[Main] = IF exception # "none" THEN "threw" ELSE IF left # {} THEN "incomplete" ELSE "returned"
      /\ Outcome' = pc'[Main]
  BY <1>1, <1>2 DEF End, Goto, Outcome, Ended
<1>7. Failed <=> exception # "none"
  <2>1. \A u \in Threads : thrown[u] = "none"
    BY <1>1, <1>3 DEF ControlOK
  <2> QED BY <1>1, <2>1 DEF Failed, QuitOK
<1>8. CASE exception # "none"
  BY <1>4, <1>5, <1>6, <1>7, <1>8 DEF Walk!End
<1>9. CASE exception = "none"
  <2>1. quit /\ draining /\ submit = {} /\ pending = <<>>
    BY <1>1, <1>9 DEF QuitOK, End
  <2>2. left \subseteq Missing
    <3>1. Queued = {}
      BY <2>1 DEF Queued
    <3> QED BY <1>1, <1>4, <1>7, <1>9, <2>1, <3>1 DEF NoneLost
  <2>3. Items \ processed = left
    BY <1>1, <2>2 DEF LinksOK, PlacesOK
  <2>4. CASE left = {}
    BY <1>1, <1>4, <1>5, <1>6, <1>7, <1>9, <2>3, <2>4 DEF Walk!End
  <2>5. CASE left # {}
    <3>1. ASSUME NEW n \in Items \ processed PROVE ~Walk!Ready(n)
      <4>1. PICK m : m \in refs[n]
        BY <2>2, <2>3 DEF Missing
      <4>2. m \in (edges[n] \cap Items) \ {n} /\ m \notin processed
        BY <1>1, <2>2, <2>3, <4>1 DEF LinksOK, Missing
      <4> QED BY <4>2 DEF Walk!Ready, Walk!Dependencies
    <3> QED BY <1>1, <1>4, <1>5, <1>6, <1>7, <1>9, <2>3, <2>5, <3>1 DEF Walk!End
  <2> QED BY <2>4, <2>5
<1> QED BY <1>8, <1>9

(* Inside the items: a node becomes busy when its dependencies are         *)
(* processed, and leaves when it is processed or a callback throws.        *)
LEMMA ItemRefines ==
    ASSUME IInv, NEW t \in Threads, ItemStep(t)
    PROVE  \/ UNCHANGED <<edges, Busy, processed, Outcome>> /\ (Failed' <=> Failed)
           \/ Walk!Begin(item[t]) \/ Walk!Finish(item[t]) \/ Walk!Fail(item[t])
<1> USE DEF TypeOK, PoolTypeOK, GraphTypeOK
<1> DEFINE n == item[t]
<1>1. TypeOK /\ ControlOK /\ QuitOK /\ LinksOK /\ PlacesOK /\ NoneLost
  BY DEF IInv
<1>2. Main \in Threads /\ ItemLabels = {"start", "edges", "link", "work", "finish", "visit"}
  BY MaxThreadsAssumption, LabelsAssumption DEF Main, Threads
<1>3. /\ InItem(t) /\ n \in Items /\ item' = item
      /\ \A u \in Threads \ {t} : InItem(u)' <=> InItem(u)
      /\ \A u \in Threads \ {t} : InItem(u) => pc'[u] = pc[u]
      /\ pc'[t] \in ItemLabels \cup {"lock"}
  BY <1>1, OthersInside
<1>4. \A u \in Threads \ {t} : pc'[u] = "work" <=> pc[u] = "work"
  BY <1>2, <1>3 DEF InItem
<1>5. \A u \in Threads \ {t} : pc[u] = "work" => item[u] # n
  BY <1>1, <1>2, <1>3 DEF PlacesOK, InItem
<1>6. /\ pc[t] # "work" => n \notin Busy
      /\ pc[t] # "work" /\ pc'[t] # "work" => Busy' = Busy
      /\ pc[t] # "work" /\ pc'[t] = "work" => Busy' = Busy \cup {n}
      /\ pc[t] = "work" => n \in Busy
      /\ pc[t] = "work" /\ pc'[t] # "work" => Busy' = Busy \ {n}
  BY <1>3, <1>4, <1>5 DEF Busy
<1>7. Outcome = "running" /\ Outcome' = "running"
  <2>1. ~Ended
    BY <1>1, <1>3 DEF ControlOK
  <2>2. ~Ended'
    <3>1. OthersStay(t)
      BY <1>1, ItemMoves
    <3> QED BY <1>2, <1>3, <2>1, <3>1 DEF Ended, OthersStay
  <2> QED BY <2>1, <2>2 DEF Outcome
<1>8. /\ quit => Failed
      /\ Failed => Failed'
      /\ thrown' = thrown => (Failed' <=> Failed)
      /\ thrown' = [thrown EXCEPT ![t] = "item"] => Failed'
  BY <1>1, FailedInside
<1>a. thrown' = thrown => Failed' = Failed
  BY <1>8 DEF Failed
<1>9. CASE FindNode(t)
  <2>1. /\ pc[t] = "start" /\ pc'[t] = (IF n \in known THEN "work" ELSE "edges")
        /\ thrown' = thrown /\ UNCHANGED <<edges, processed>>
    BY <1>1, <1>9 DEF FindNode, Goto, graphVars
  <2>2. ASSUME n \in known PROVE Walk!Begin(n)
    <3>1. n \notin processed /\ n \notin Missing
      BY <1>1, <1>3, <2>1 DEF PlacesOK
    <3>2. edges[n] \ {n} \subseteq processed
      BY <1>1, <2>2, <3>1 DEF LinksOK, Missing
    <3> QED BY <1>6, <1>7, <1>a, <2>1, <2>2, <3>1, <3>2 DEF Walk!Begin, Walk!Ready, Walk!Dependencies
  <2> QED BY <1>6, <1>7, <1>8, <2>1, <2>2
<1>10. CASE GetEdges(t)
  <2>1. pc[t] = "edges" /\ n \notin processed /\ UNCHANGED <<edges, processed>>
    BY <1>1, <1>10 DEF GetEdges, graphVars, PlacesOK
  <2>2. CASE Goto(t, "link")
    <3>1. pc'[t] = "link" /\ thrown' = thrown
      BY <1>1, <2>2 DEF Goto
    <3> QED BY <1>6, <1>7, <1>8, <2>1, <3>1
  <2>3. CASE ~Goto(t, "link")
    <3>1. /\ pc'[t] = "lock"
          /\ (quit \/ thrown' = [thrown EXCEPT ![t] = "item"])
      BY <1>1, <1>10, <2>3 DEF GetEdges, Throw
    <3>2. Failed' = TRUE
      BY <1>8, <3>1 DEF Failed
    <3>3. Busy' = Busy \ {n}
      BY <1>6, <2>1, <3>1
    <3> QED BY <1>7, <2>1, <3>2, <3>3 DEF Walk!Fail
  <2> QED BY <2>2, <2>3
<1>11. CASE LinkNode(t)
  <2>1. /\ pc[t] = "link" /\ pc'[t] = (IF Unprocessed(n) = {} THEN "work" ELSE "lock")
        /\ thrown' = thrown /\ UNCHANGED <<edges, processed>> /\ n \notin processed
    BY <1>1, <1>11 DEF LinkNode, Goto, Return, PlacesOK
  <2>2. ASSUME Unprocessed(n) = {} PROVE Walk!Begin(n)
    <3>1. edges[n] \ {n} \subseteq processed
      BY <1>1, <1>3, <2>2 DEF LinksOK, Unprocessed
    <3> QED BY <1>6, <1>7, <1>a, <2>1, <2>2, <3>1 DEF Walk!Begin, Walk!Ready, Walk!Dependencies
  <2> QED BY <1>6, <1>7, <1>8, <2>1, <2>2
<1>12. CASE ProcessNode(t)
  <2>1. pc[t] = "work" /\ n \notin processed /\ edges' = edges
    BY <1>1, <1>12 DEF ProcessNode, PlacesOK
  <2>2. CASE Goto(t, "finish") /\ processed' = processed \cup {n}
    <3>1. pc'[t] = "finish" /\ thrown' = thrown
      BY <1>1, <2>2 DEF Goto
    <3> QED BY <1>6, <1>7, <1>a, <2>1, <2>2, <3>1 DEF Walk!Finish
  <2>3. CASE ~(Goto(t, "finish") /\ processed' = processed \cup {n})
    <3>1. /\ processed' = processed
          /\ quit \/ thrown' = [thrown EXCEPT ![t] = "item"]
          /\ pc'[t] = "lock"
      BY <1>1, <1>12, <2>3 DEF ProcessNode, Throw
    <3>2. Failed' = TRUE
      BY <1>8, <3>1 DEF Failed
    <3> QED BY <1>6, <1>7, <2>1, <3>1, <3>2 DEF Walk!Fail
  <2> QED BY <2>2, <2>3
<1>13. CASE LockGraph(t) \/ VisitReferrer(t) \/ EraseNode(t)
  <2>1. pc[t] \in {"finish", "visit"} /\ thrown' = thrown /\ UNCHANGED <<edges, processed>>
    BY <1>13 DEF LockGraph, VisitReferrer, EraseNode, Goto, Return, poolVars
  <2>2. pc'[t] # "work"
    <3>1. CASE VisitReferrer(t)
      BY <1>1, <3>1, EnqueueMoves DEF VisitReferrer, poolVars
    <3>2. CASE LockGraph(t) \/ EraseNode(t)
      BY <1>1, <3>2 DEF LockGraph, EraseNode, Goto, Return
    <3> QED BY <1>13, <3>1, <3>2
  <2> QED BY <1>6, <1>7, <1>8, <2>1, <2>2
<1>14. CASE VisitThrows(t)
  <2>1. pc[t] = "visit" /\ pc'[t] = "lock" /\ quit /\ UNCHANGED <<edges, processed>>
    BY <1>1, <1>14 DEF VisitThrows, Throw
  <2> QED BY <1>6, <1>7, <1>8, <2>1
<1> QED BY <1>9, <1>10, <1>11, <1>12, <1>13, <1>14 DEF ItemStep

(* processGraph implements GraphWalk for any nodes, graphs, callbacks and  *)
(* number of threads: every node is processed once and after its           *)
(* dependencies; the call returns only if all are processed, throws only   *)
(* what a callback threw, reports an incomplete graph only if every node   *)
(* that is left depends on another one, and ends with no callback running. *)
THEOREM ImplementsGraphWalkHolds == Spec => ImplementsGraphWalk
<1>1. Init => Walk!Init
  <2> SUFFICES ASSUME Init PROVE Walk!Init
    OBVIOUS
  <2>1. Main \in Threads
    BY MaxThreadsAssumption DEF Main, Threads
  <2>2. Busy = {} /\ Outcome = "running" /\ Failed = FALSE
    BY <2>1 DEF Init, PoolInit, Busy, Outcome, Ended, Failed
  <2>3. edges \in [Items -> SUBSET Items] /\ processed = {}
    BY GraphsAssumption DEF Init
  <2> QED BY <2>2, <2>3 DEF Walk!Init
<1>2. IInv /\ [Next]_vars => [Walk!Next]_(Walk!vars)
  <2> SUFFICES ASSUME IInv, [Next]_vars PROVE [Walk!Next]_(Walk!vars)
    OBVIOUS
  <2>1. Failed \in BOOLEAN /\ Failed' \in BOOLEAN
    BY DEF Failed
  <2>2. ASSUME UNCHANGED <<edges, Busy, processed, Outcome>>, Failed' <=> Failed
        PROVE  UNCHANGED Walk!vars
    BY <2>1, <2>2 DEF Walk!vars
  <2>3. CASE End
    BY <2>3, EndRefines DEF Walk!Next
  <2>4. CASE ~End /\ (Caller \/ (\E t \in Threads : LoopStep(t)) \/ UNCHANGED vars)
    BY <2>2, <2>4, OutsideUnseen DEF IInv
  <2>5. ASSUME NEW t \in Threads, ItemStep(t) PROVE [Walk!Next]_(Walk!vars)
    <3>1. item[t] \in Items
      BY <2>5, ItemMoves DEF IInv
    <3> QED BY <2>2, <2>5, <3>1, ItemRefines DEF Walk!Next
  <2> QED BY <2>3, <2>4, <2>5 DEF Next
<1> QED BY <1>1, <1>2, IInvHolds, PTL DEF Spec, ImplementsGraphWalk, Walk!Spec

=============================================================================
