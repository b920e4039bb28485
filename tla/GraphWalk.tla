------------------------------ MODULE GraphWalk ------------------------------
(***************************************************************************)
(* What processGraph (libutil/thread-pool.hh) promises its caller: the     *)
(* nodes are processed once each, a node after its dependencies ("any item *)
(* is only processed after all its dependencies have been processed"), and *)
(* the call ends in one of three ways, with no node in progress.           *)
(***************************************************************************)
CONSTANTS Nodes

VARIABLES
    edges,      \* edges[n]: what getEdges(n) answers
    busy,       \* the nodes inside processNode
    done,       \* the nodes that were processed
    failed,     \* a callback threw an exception
    outcome     \* how the call ended

vars == <<edges, busy, done, failed, outcome>>

Dependencies(n) == (edges[n] \cap Nodes) \ {n}

Ready(n) == n \notin busy \cup done /\ Dependencies(n) \subseteq done

Init ==
    /\ edges \in [Nodes -> SUBSET Nodes]
    /\ busy = {} /\ done = {} /\ failed = FALSE /\ outcome = "running"

Begin(n) ==
    /\ outcome = "running"
    /\ Ready(n)
    /\ busy' = busy \cup {n}
    /\ UNCHANGED <<edges, done, failed, outcome>>

Finish(n) ==
    /\ n \in busy
    /\ busy' = busy \ {n}
    /\ done' = done \cup {n}
    /\ UNCHANGED <<edges, failed, outcome>>

(* processNode or getEdges throws. *)
Fail(n) ==
    /\ outcome = "running"
    /\ n \notin done
    /\ busy' = busy \ {n}
    /\ failed' = TRUE
    /\ UNCHANGED <<edges, done, outcome>>

(* The call returns, rethrows the exception of a callback, or reports that *)
(* the processing is incomplete, which only a cycle can cause.             *)
End ==
    /\ outcome = "running"
    /\ busy = {}
    /\ \/ outcome' = "returned" /\ done = Nodes /\ ~failed
       \/ outcome' = "threw" /\ failed
       \/ /\ outcome' = "incomplete" /\ ~failed
          /\ done # Nodes /\ \A n \in Nodes \ done : ~Ready(n)
    /\ UNCHANGED <<edges, busy, done, failed>>

Next == (\E n \in Nodes : Begin(n) \/ Finish(n) \/ Fail(n)) \/ End

Spec == Init /\ [][Next]_vars

=============================================================================
