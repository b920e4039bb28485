---------------------------- MODULE ProcessGraph ----------------------------
(***************************************************************************)
(* processGraph (libutil/thread-pool.hh) on top of ThreadPool: process the *)
(* nodes of a graph in parallel, dependencies first.  The first visit of a *)
(* node asks for its edges and links it to the dependencies that are left; *)
(* whoever processes the last of these enqueues the node again.            *)
(*                                                                         *)
(* graph_.rrefs is the inverse of graph_.refs: both are changed together,  *)
(* except by an enqueue that throws, after which rrefs is not read for     *)
(* that node.                                                              *)
(***************************************************************************)
EXTENDS ThreadPool

CONSTANTS
    Graphs,         \* the graphs to be tried, functions from Items to sets
    MayThrow        \* the nodes whose callbacks may throw

ASSUME GraphsAssumption == Graphs \subseteq [Items -> SUBSET Items]
ASSUME LabelsAssumption ==
    ItemLabels = {"start", "edges", "link", "work", "finish", "visit"}

VARIABLES
    edges,      \* what getEdges answers
    left, refs, \* members of Graph
    known,      \* the keys of Graph::refs
    owner,      \* who is inside graph_'s mutex across steps
    visit,      \* visit[t]: the rest of t's loop over rrefs[node]
    submit,     \* the nodes the caller has still to enqueue
    processed   \* the nodes processNode returned for

graph == <<left, refs, known>>
graphVars == <<graph, edges, owner, visit, submit, processed>>
vars == <<poolVars, graphVars>>

Labels == {"unborn", "incomplete"} \cup ItemLabels \cup LoopLabels \cup MainLabels

PoolTypeOK ==
    /\ pending \in Seq(Items) /\ exception \in Exceptions
    /\ draining \in BOOLEAN /\ quit \in BOOLEAN
    /\ workers \in 0..(MaxThreads - 1)
    /\ pc \in [Threads -> Labels]
    /\ item \in [Threads -> Items \cup {NoItem}]
    /\ thrown \in [Threads -> Exceptions]

GraphTypeOK ==
    /\ left \subseteq Items /\ refs \in [Items -> SUBSET Items] /\ known \subseteq Items
    /\ owner \in Threads \cup {NoItem}
    /\ visit \in [Threads -> SUBSET Items]
    /\ submit \subseteq Items /\ processed \subseteq Items

(* The pool counts the items that are being executed.                      *)
TypeOK ==
    /\ PoolTypeOK /\ GraphTypeOK
    /\ active = Cardinality({t \in Threads : pc[t] \in ItemLabels \/ DidWork(t)})

Init ==
    /\ PoolInit
    /\ edges \in Graphs
    /\ left = Items /\ refs = [n \in Items |-> {}] /\ known = {}
    /\ owner = NoItem
    /\ visit = [t \in Threads |-> {}]
    /\ submit = Items /\ processed = {}

Goto(t, label) ==
    /\ pc' = [pc EXCEPT ![t] = label]
    /\ UNCHANGED <<queue, item, thrown>>

-----------------------------------------------------------------------------
(* The work item: `worker(node)`. *)

(* Is the node in refs?  Then its dependencies have been processed.        *)
FindNode(t) ==
    /\ pc[t] = "start"
    /\ owner = NoItem
    /\ Goto(t, IF item[t] \in known THEN "work" ELSE "edges")
    /\ UNCHANGED graphVars

(* getEdges(node) returns, throws, or is interrupted once the pool is      *)
(* quitting (unix::interruptCheck of a worker thread).                     *)
GetEdges(t) ==
    /\ pc[t] = "edges"
    /\ \/ Goto(t, "link")
       \/ item[t] \in MayThrow /\ Throw(t, "item")
       \/ quit /\ t # Main /\ Throw(t, "interrupted")
    /\ UNCHANGED graphVars

(* Mutant: dependencies processed since the node was enqueued stay in.     *)
UnprocessedAll(n) == edges[n] \ {n}

(* The dependencies of n that are still left. *)
Unprocessed(n) == (edges[n] \ {n}) \cap left

(* Under the mutex of graph_: link the node to its dependencies, and go on *)
(* only if there are none left.                                            *)
LinkNode(t) ==
    LET n == item[t] IN
    /\ pc[t] = "link"
    /\ owner = NoItem
    /\ known' = known \cup {n}
    /\ refs' = [refs EXCEPT ![n] = Unprocessed(n)]
    /\ IF Unprocessed(n) = {} THEN Goto(t, "work") ELSE Return(t)
    /\ UNCHANGED <<left, edges, owner, visit, submit, processed>>

(* processNode(node), with the same outcomes. *)
ProcessNode(t) ==
    LET n == item[t] IN
    /\ pc[t] = "work"
    /\ \/ Goto(t, "finish") /\ processed' = processed \cup {n}
       \/ n \in MayThrow /\ Throw(t, "item") /\ UNCHANGED processed
       \/ quit /\ t # Main /\ Throw(t, "interrupted") /\ UNCHANGED processed
    /\ UNCHANGED <<graph, edges, owner, visit, submit>>

(* The mutex of graph_ is taken for the loop over rrefs[node].             *)
LockGraph(t) ==
    /\ pc[t] = "finish"
    /\ owner = NoItem
    /\ owner' = t
    /\ visit' = [visit EXCEPT ![t] = {m \in known : item[t] \in refs[m]}]
    /\ Goto(t, "visit")
    /\ UNCHANGED <<graph, edges, submit, processed>>

(* One turn: the node is no longer missing to m; if nothing is, enqueue m. *)
VisitReferrer(t) ==
    /\ pc[t] = "visit"
    /\ \E m \in visit[t] :
          /\ refs' = [refs EXCEPT ![m] = @ \ {item[t]}]
          /\ visit' = [visit EXCEPT ![t] = @ \ {m}]
          /\ \/ refs'[m] = {} /\ Enqueue(t, m, "visit") /\ UNCHANGED <<item, thrown>>
             \/ refs'[m] # {} /\ UNCHANGED poolVars
    /\ UNCHANGED <<left, known, edges, owner, submit, processed>>

(* pool.enqueue throws ThreadPoolShutDown: the mutex is released, and the  *)
(* node stays in `left`.                                                   *)
VisitThrows(t) ==
    /\ pc[t] = "visit"
    /\ quit
    /\ \E m \in visit[t] :
          /\ refs' = [refs EXCEPT ![m] = @ \ {item[t]}]
          /\ refs'[m] = {}
    /\ owner' = NoItem
    /\ visit' = [visit EXCEPT ![t] = {}]
    /\ Throw(t, "shutdown")
    /\ UNCHANGED <<left, known, edges, submit, processed>>

(* left.erase, refs.erase, rrefs.erase; the mutex is released. *)
EraseNode(t) ==
    /\ pc[t] = "visit"
    /\ visit[t] = {}
    /\ left' = left \ {item[t]}
    /\ known' = known \ {item[t]}
    /\ owner' = NoItem
    /\ Return(t)
    /\ UNCHANGED <<refs, edges, visit, submit, processed>>

-----------------------------------------------------------------------------
(* The caller. *)

IsNext(n) == n \in submit /\ \A m \in submit : n <= m

(* pool.enqueue(node) for all nodes, in the order of std::set. *)
SubmitNode ==
    /\ pc[Main] = "enqueue"
    /\ \E n \in submit :
          /\ IsNext(n)
          /\ Enqueue(Main, n, "enqueue")
          /\ submit' = submit \ {n}
    /\ UNCHANGED <<item, thrown, graph, edges, owner, visit, processed>>

(* All are enqueued, or ThreadPoolShutDown ends the loop; process().       *)
CallProcess ==
    /\ pc[Main] = "enqueue"
    /\ submit = {} \/ quit
    /\ Process
    /\ UNCHANGED graphVars

(* The workers are joined: by process() if it rethrows an exception, and   *)
(* else by the destructor, after a look at `left`.                         *)
End ==
    /\ pc[Main] = "join"
    /\ Joined
    /\ Goto(Main, CASE exception # "none" -> "threw"
                    [] exception = "none" /\ left # {} -> "incomplete"
                    [] OTHER -> "returned")
    /\ UNCHANGED graphVars

Ended == pc[Main] \in {"returned", "threw", "incomplete"}

ItemStep(t) ==
    \/ FindNode(t) \/ GetEdges(t) \/ LinkNode(t) \/ ProcessNode(t)
    \/ LockGraph(t) \/ VisitReferrer(t) \/ VisitThrows(t) \/ EraseNode(t)

LoopStep(t) == Loop(t) /\ UNCHANGED graphVars

Caller == SubmitNode \/ CallProcess \/ (Shutdown /\ UNCHANGED graphVars) \/ End

Next == Caller \/ \E t \in Threads : LoopStep(t) \/ ItemStep(t)

Spec == Init /\ [][Next]_vars

(* Every thread keeps running. *)
Fairness ==
    /\ WF_vars(Caller)
    /\ \A t \in Threads : WF_vars(LoopStep(t) \/ ItemStep(t))

FairSpec == Spec /\ Fairness

-----------------------------------------------------------------------------
Failed == exception = "item" \/ \E t \in Threads : thrown[t] = "item"

Busy == {item[t] : t \in {u \in Threads : pc[u] = "work"}}

Outcome == IF Ended THEN pc[Main] ELSE "running"

Walk == INSTANCE GraphWalk WITH
    Nodes <- Items, busy <- Busy, done <- processed, failed <- Failed, outcome <- Outcome

(* processGraph does what GraphWalk says: every node once and after its    *)
(* dependencies; it returns only when all are processed, throws only what  *)
(* a callback threw (never ThreadPoolShutDown), reports an incomplete      *)
(* graph only for a cycle, and leaves no callback running behind ("They    *)
(* may be referencing the stack frame of the caller").                     *)
ImplementsGraphWalk == Walk!Spec

(* processGraph ends, whatever the graph and whichever callbacks throw: no *)
(* wake-up is lost among the waiting threads, and the join terminates.     *)
ProcessGraphEnds == <>Ended

=============================================================================
