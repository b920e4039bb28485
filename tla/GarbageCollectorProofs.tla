----------------------- MODULE GarbageCollectorProofs -----------------------
(* Proofs about the collector and its clients, for any processes, threads, *)
(* paths, references and number of collector runs.                         *)
EXTENDS GarbageCollector, TLAPS

(* Of the collector's steps only invalidatePathChecked writes the table.   *)
LEMMA WhoCollects ==
    ASSUME GCLock \/ GCStep \/ LimitReached \/ GCKilled
    PROVE  valid' = valid \/ Invalidate
  BY DEF GCStep, store, StartServer, FindTempRoots, OpenStoreDir, NextEntry, EndOfDirectory, FoundAlive, FoundDead, SetPending, VisitEdges, TopoSort, SkipDead, KeepLateRoot, StartDelete, PathInUse, DeleteFromStore, ClosureDone, StopServer, GCUnlock, GCLock, LimitReached, GCKilled

(* Only registration and invalidatePathChecked write the ValidPaths table. *)
LEMMA WhoWritesValid ==
    ASSUME Next
    PROVE  \/ valid' = valid
           \/ \E t \in Threads : Register(t)
           \/ Invalidate
<1>1. ASSUME NEW t \in Threads, AddTempRoot(t) \/ ClientStep(t) \/ ServerStep(t)
      PROVE  valid' = valid \/ Register(t)
  BY <1>1 DEF ClientStep, ServerStep, store, AddTempRoot, TryGCLock, Connect, Send, Disconnected, GotAck, Record, Release, IsValid, RestorePath, ServerReceive, ServerAck
<1>2. ASSUME NEW p \in Procs, Exit(p)
      PROVE  valid' = valid
  BY <1>2 DEF Exit, store
<1> QED BY <1>1, <1>2, WhoCollects DEF Next

(* The references of a valid path are valid in every reachable state: the  *)
(* transaction of registerValidPaths adds a path only with its references, *)
(* and that of invalidatePathChecked removes one only without referrers,   *)
(* so no order of clients, collectors, exits and kills breaks the store.   *)
THEOREM StoreClosedHolds == Spec => []StoreClosed
<1>1. Init => StoreClosed
  BY ConstantsAssumption DEF Init, StoreClosed
<1>2. StoreClosed /\ [Next]_vars => StoreClosed'
  <2> SUFFICES ASSUME StoreClosed, [Next]_vars PROVE StoreClosed'
    OBVIOUS
  <2>1. CASE valid' = valid
    BY <2>1 DEF StoreClosed
  <2>2. ASSUME NEW t \in Threads, Register(t) PROVE StoreClosed'
    BY <2>2 DEF Register, StoreClosed
  <2>3. CASE Invalidate
    BY <2>3 DEF Invalidate, InUse, Referrers, StoreClosed
  <2>4. CASE UNCHANGED vars
    BY <2>1, <2>4 DEF vars, store
  <2> QED BY <2>1, <2>2, <2>3, <2>4, WhoWritesValid
<1> QED BY <1>1, <1>2, PTL DEF Spec

-----------------------------------------------------------------------------
(* Every thread that is inside addTempRoot or addToStore works on a path,  *)
(* and only paths are in the database.                                     *)
WorksOnPath ==
    /\ valid \subseteq Paths
    /\ pc \in [Threads -> ClientLabels]
    /\ arg \in [Threads -> Paths \cup {NoPath}]
    /\ \A t \in Threads : pc[t] # "idle" => arg[t] \in Paths

(* A step of one thread keeps WorksOnPath.                                 *)
LEMMA ThreadWorksOnPath ==
    ASSUME WorksOnPath, NEW t \in Threads, AddTempRoot(t) \/ ClientStep(t)
    PROVE  WorksOnPath'
<1>1. CASE AddTempRoot(t)
  BY <1>1 DEF AddTempRoot, Goto, store, WorksOnPath, ClientLabels
<1>2. CASE Register(t)
  BY <1>2 DEF Register, Goto, WorksOnPath, ClientLabels
<1>3. CASE TryGCLock(t) \/ Connect(t) \/ Send(t) \/ Disconnected(t) \/ GotAck(t)
  <2>1. PICK label \in ClientLabels : pc[t] # "idle" /\ pc' = [pc EXCEPT ![t] = label]
    BY <1>3 DEF TryGCLock, Connect, Send, Disconnected, GotAck, Goto, ClientLabels
  <2>2. valid' = valid /\ arg' = arg
    BY <1>3 DEF TryGCLock, Connect, Send, Disconnected, GotAck, store
  <2> QED BY <2>1, <2>2 DEF WorksOnPath
<1>4. CASE Record(t) \/ Release(t) \/ IsValid(t) \/ RestorePath(t)
  <2>1. PICK label \in ClientLabels : pc[t] # "idle" /\ pc' = [pc EXCEPT ![t] = label]
    BY <1>4 DEF Record, Release, IsValid, RestorePath, Goto, ClientLabels
  <2>2. valid' = valid /\ arg' = arg
    BY <1>4 DEF Record, Release, IsValid, RestorePath, store
  <2> QED BY <2>1, <2>2 DEF WorksOnPath
<1> QED BY <1>1, <1>2, <1>3, <1>4 DEF ClientStep

(* Any step keeps it: nobody else moves a thread, except that it exits.    *)
LEMMA StepWorksOnPath ==
    ASSUME WorksOnPath, [Next]_vars
    PROVE  WorksOnPath'
<1>1. ASSUME NEW t \in Threads, ServerStep(t) PROVE WorksOnPath'
  BY <1>1 DEF ServerStep, ServerReceive, ServerAck, store, WorksOnPath
<1>2. ASSUME NEW p \in Procs, Exit(p) PROVE WorksOnPath'
  BY <1>2 DEF Exit, store, WorksOnPath, ClientLabels
<1>3. CASE GCLock \/ GCStep \/ LimitReached \/ GCKilled
  <2>1. pc' = pc /\ arg' = arg
    BY <1>3 DEF GCStep, clients, StartServer, FindTempRoots, OpenStoreDir, NextEntry, EndOfDirectory, FoundAlive, FoundDead, SetPending, VisitEdges, TopoSort, SkipDead, KeepLateRoot, StartDelete, Invalidate, PathInUse, DeleteFromStore, ClosureDone, StopServer, GCUnlock, GCLock, LimitReached, GCKilled
  <2>2. valid' = valid \/ Invalidate
    BY <1>3, <2>1, WhoCollects
  <2> QED BY <2>1, <2>2 DEF Invalidate, WorksOnPath
<1>4. CASE UNCHANGED vars
  BY <1>4 DEF vars, store, clients, WorksOnPath
<1> QED BY <1>1, <1>2, <1>3, <1>4, ThreadWorksOnPath DEF Next

-----------------------------------------------------------------------------
(* A root is on its way only while its sender waits for the answer.        *)
AwaitsAnswer == \A t \in Threads : msg[t] # "none" => pc[t] = "await"

(* maybeDeleteReferrersClosure is called for an entry of the store.        *)
StartsAtPath == gcpc \in {"bfs", "visit"} => start \in Paths

(* markAlive stays inside the store.                                       *)
LEMMA ClosureInPaths ==
    ASSUME NEW x, NEW S
    PROVE  Closure(x, S) \subseteq Paths
  BY DEF Closure

Collector == GCLock \/ GCStep \/ LimitReached \/ GCKilled

(* The collector touches nothing of its clients but their connections: it  *)
(* wakes the threads of the server, or takes them down with it.            *)
LEMMA CollectorLeavesClients ==
    ASSUME Collector
    PROVE  /\ UNCHANGED <<shared, pc, arg, acquired, sockMutex, tempFile, uses, exits>>
           /\ (UNCHANGED <<sock, msg>>) \/ (sock' = sock /\ NotifyAll) \/ SocketsDie
<1>1. UNCHANGED <<shared, pc, arg, acquired, sockMutex, tempFile, uses, exits>>
  BY DEF Collector, GCStep, clients, sockets, StartServer, FindTempRoots, OpenStoreDir, NextEntry, EndOfDirectory, FoundAlive, FoundDead, SetPending, VisitEdges, TopoSort, SkipDead, KeepLateRoot, StartDelete, Invalidate, PathInUse, DeleteFromStore, ClosureDone, StopServer, GCUnlock, GCLock, LimitReached, GCKilled
<1>2. CASE FoundAlive \/ PathInUse \/ DeleteFromStore \/ ClosureDone \/ LimitReached
  BY <1>1, <1>2 DEF FoundAlive, PathInUse, DeleteFromStore, ClosureDone, LimitReached, ReleasePending
<1>3. CASE StopServer \/ GCKilled
  BY <1>1, <1>3 DEF StopServer, GCKilled
<1>4. CASE GCLock \/ StartServer \/ FindTempRoots \/ OpenStoreDir \/ NextEntry \/ EndOfDirectory \/ FoundDead \/ SetPending
  BY <1>1, <1>4 DEF GCLock, StartServer, FindTempRoots, OpenStoreDir, NextEntry, EndOfDirectory, FoundDead, SetPending, clients, sockets
<1>5. CASE VisitEdges \/ TopoSort \/ SkipDead \/ KeepLateRoot \/ StartDelete \/ Invalidate \/ GCUnlock
  BY <1>1, <1>5 DEF VisitEdges, TopoSort, SkipDead, KeepLateRoot, StartDelete, Invalidate, GCUnlock, clients, sockets
<1> QED BY <1>2, <1>3, <1>4, <1>5 DEF Collector, GCStep

(* What that means for the root of thread t.                               *)
LEMMA CollectorAnswers ==
    ASSUME Collector, NEW t \in Threads, msg \in [Threads -> MsgStates]
    PROVE  \/ msg'[t] = msg[t]
           \/ msg[t] = "waiting" /\ msg'[t] = "received"
           \/ msg[t] # "acked" /\ msg'[t] = "none"
  BY CollectorLeavesClients DEF NotifyAll, SocketsDie

(* And the clients touch nothing of the collector.                         *)
LEMMA ClientsLeaveCollector ==
    ASSUME \/ \E t \in Threads : AddTempRoot(t) \/ ClientStep(t)
           \/ \E p \in Procs : Exit(p)
    PROVE  UNCHANGED collector
  BY DEF AddTempRoot, ClientStep, TryGCLock, Connect, Send, Disconnected, GotAck, Record, Release, IsValid, RestorePath, Register, Exit

(* The clients' variables keep their types.                                *)
LEMMA StepKeepsClientTypes ==
    ASSUME TypeOK, WorksOnPath, [Next]_vars
    PROVE  ClientTypeOK'
<1> USE ConstantsAssumption DEF TypeOK, ClientTypeOK
<1>1. pc' \in [Threads -> ClientLabels] /\ arg' \in [Threads -> Paths \cup {NoPath}]
  BY StepWorksOnPath DEF WorksOnPath
<1>2. ASSUME NEW t \in Threads, AddTempRoot(t) PROVE ClientTypeOK'
  BY <1>1, <1>2 DEF AddTempRoot, sockets
<1>3. ASSUME NEW t \in Threads, ClientStep(t) PROVE ClientTypeOK'
  <2>1. CASE TryGCLock(t)
    BY <1>1, <2>1 DEF TryGCLock, sockets
  <2>2. CASE Connect(t)
    BY <1>1, <2>2 DEF Connect
  <2>3. CASE Send(t) \/ Disconnected(t) \/ GotAck(t)
    BY <1>1, <2>3 DEF Send, Disconnected, GotAck, MsgStates
  <2>4. CASE Record(t) \/ Release(t)
    BY <1>1, <2>4 DEF Record, Release, sockets, WorksOnPath
  <2>5. CASE IsValid(t) \/ RestorePath(t) \/ Register(t)
    <3>1. arg[t] \in Paths
      BY <2>5 DEF IsValid, RestorePath, Register, WorksOnPath
    <3> QED BY <1>1, <2>5, <3>1 DEF IsValid, RestorePath, Register, sockets
  <2> QED BY <1>3, <2>1, <2>2, <2>3, <2>4, <2>5 DEF ClientStep
<1>4. ASSUME NEW t \in Threads, ServerStep(t) PROVE ClientTypeOK'
  BY <1>1, <1>4 DEF ServerStep, ServerReceive, ServerAck, MsgStates
<1>5. ASSUME NEW p \in Procs, Exit(p) PROVE ClientTypeOK'
  BY <1>1, <1>5 DEF Exit, MsgStates
<1>6. CASE GCLock \/ GCStep \/ LimitReached \/ GCKilled
  <2>1. Collector
    BY <1>6 DEF Collector
  <2>2. NotifyAll \/ SocketsDie => msg' \in [Threads -> MsgStates]
    BY DEF NotifyAll, SocketsDie, MsgStates
  <2>3. SocketsDie => sock' \in [Procs -> {"closed", "open", "dead"}]
    BY DEF SocketsDie
  <2> QED BY <1>1, <2>1, <2>2, <2>3, CollectorLeavesClients
<1>7. CASE UNCHANGED vars
  BY <1>7 DEF vars, clients, sockets
<1> QED BY <1>2, <1>3, <1>4, <1>5, <1>6, <1>7 DEF Next

(* The collector's variables keep their types.                             *)
LEMMA StepKeepsCollectorTypes ==
    ASSUME TypeOK, WorksOnPath, AwaitsAnswer, StartsAtPath, [Next]_vars
    PROVE  CollectorTypeOK'
<1> USE ConstantsAssumption DEF TypeOK, CollectorTypeOK
<1>1. ASSUME UNCHANGED collector PROVE CollectorTypeOK'
  BY <1>1 DEF collector, search, found
<1>2. ASSUME NEW t \in Threads, AddTempRoot(t) \/ ClientStep(t) PROVE UNCHANGED collector
  BY <1>2, ClientsLeaveCollector
<1>3. ASSUME NEW t \in Threads, ServerStep(t) PROVE CollectorTypeOK'
  <2>1. CASE ServerReceive(t)
    <3>1. arg[t] \in Paths
      BY <2>1 DEF ServerReceive, AwaitsAnswer, WorksOnPath
    <3> QED BY <2>1, <3>1 DEF ServerReceive, search, found
  <2> QED BY <1>1, <1>3, <2>1 DEF ServerStep, ServerAck
<1>4. ASSUME NEW p \in Procs, Exit(p) PROVE UNCHANGED collector
  BY <1>4, ClientsLeaveCollector
<1>5. CASE GCLock \/ StartServer \/ EndOfDirectory
  <2>1. CASE GCLock
    <3>1. runs' \in 0..MaxGC
      BY <2>1 DEF GCLock
    <3> QED BY <2>1, <3>1 DEF GCLock, GCGoto, GCLabels, search, found
  <2>2. CASE StartServer \/ EndOfDirectory
    BY <2>2 DEF StartServer, EndOfDirectory, GCGoto, GCLabels, search, found
  <2> QED BY <1>5, <2>1, <2>2
<1>6. CASE FindTempRoots
  BY <1>6 DEF FindTempRoots, search, ClientTypeOK
<1>7. CASE OpenStoreDir
  BY <1>7 DEF OpenStoreDir, GCGoto, GCLabels, search, PermanentRoots
<1>8. CASE NextEntry
  BY <1>8 DEF NextEntry, GCGoto, GCLabels, found
<1>9. CASE FoundAlive
  <2>1. alive' \subseteq Paths
    <3>1. PICK x \in todo : alive' = alive \cup {start} \/ alive' = alive \cup {start} \cup Closure(x, valid)
      BY <1>9 DEF FoundAlive
    <3>2. start \in Paths
      BY <1>9 DEF FoundAlive, StartsAtPath
    <3> QED BY <3>1, <3>2, ClosureInPaths
  <2> QED BY <1>9, <2>1 DEF FoundAlive, ReleasePending, GCGoto, GCLabels, search
<1>10. CASE FoundDead \/ SetPending \/ TopoSort
  BY <1>10 DEF FoundDead, SetPending, TopoSort, GCGoto, GCLabels, search, found
<1>11. CASE VisitEdges
  <2>1. Referrers(cur) \subseteq Paths /\ Outputs(cur) \subseteq Paths
    BY DEF Referrers, Outputs
  <2>2. CASE cur \notin valid
    BY <1>11, <2>2 DEF VisitEdges, GCGoto, GCLabels
  <2>3. CASE cur \in valid
    <3>1. cache' \in [Paths -> (SUBSET Paths) \cup {{NoPath}}] /\ cache'[cur] \subseteq Paths
      BY <1>11, <2>1, <2>3 DEF VisitEdges
    <3>2. Edges(cur, cache'[cur]) \subseteq Paths
      BY <1>11, <2>1, <2>3, <3>1 DEF VisitEdges, Edges
    <3> QED BY <1>11, <2>3, <3>1, <3>2 DEF VisitEdges, GCGoto, GCLabels
  <2> QED BY <2>2, <2>3
<1>12. CASE SkipDead \/ StartDelete
  BY <1>12 DEF SkipDead, StartDelete, GCGoto, GCLabels, found
<1>13. CASE KeepLateRoot
  BY <1>13, ClosureInPaths DEF KeepLateRoot
<1>14. CASE Invalidate \/ PathInUse \/ ClosureDone \/ LimitReached
  BY <1>14 DEF Invalidate, PathInUse, ClosureDone, LimitReached, ReleasePending, GCGoto, GCLabels, search, found
<1>15. CASE DeleteFromStore
  BY <1>15 DEF DeleteFromStore, ReleasePending, GCGoto, GCLabels, search
<1>16. CASE StopServer \/ GCUnlock \/ GCKilled
  <2>1. CASE StopServer
    BY <2>1 DEF StopServer, SocketsDie, GCGoto, GCLabels, search, found
  <2>2. CASE GCUnlock \/ GCKilled
    <3>1. Forget /\ gcpc' \in GCLabels /\ server' \in BOOLEAN /\ runs' = runs
      BY <2>2 DEF GCUnlock, GCKilled, SocketsDie, GCGoto, GCLabels
    <3>2. cache' \in [Paths -> (SUBSET Paths) \cup {{NoPath}}]
      BY <3>1 DEF Forget, NoCache
    <3> QED BY <3>1, <3>2 DEF Forget
  <2> QED BY <1>16, <2>1, <2>2
<1>17. CASE UNCHANGED vars
  BY <1>1, <1>17 DEF vars
<1> QED BY <1>1, <1>2, <1>3, <1>4, <1>5, <1>6, <1>7, <1>8, <1>9, <1>10, <1>11, <1>12, <1>13, <1>14, <1>15, <1>16, <1>17 DEF Next, GCStep

LEMMA StepKeepsAwaits ==
    ASSUME TypeOK, AwaitsAnswer, [Next]_vars
    PROVE  AwaitsAnswer'
<1> USE DEF TypeOK, ClientTypeOK, AwaitsAnswer
<1>1. ASSUME NEW t \in Threads, AddTempRoot(t) \/ ClientStep(t) \/ ServerStep(t) PROVE AwaitsAnswer'
  <2>1. CASE AddTempRoot(t) \/ TryGCLock(t) \/ Connect(t) \/ Send(t)
    BY <2>1 DEF AddTempRoot, TryGCLock, Connect, Send, Goto, sockets
  <2>2. CASE Disconnected(t) \/ GotAck(t)
    BY <2>2 DEF Disconnected, GotAck, Goto
  <2>3. CASE Record(t) \/ Release(t) \/ IsValid(t) \/ RestorePath(t) \/ Register(t)
    BY <2>3 DEF Record, Release, IsValid, RestorePath, Register, Goto, sockets
  <2>4. CASE ServerStep(t)
    BY <2>4 DEF ServerStep, ServerReceive, ServerAck
  <2> QED BY <1>1, <2>1, <2>2, <2>3, <2>4 DEF ClientStep
<1>2. ASSUME NEW p \in Procs, Exit(p) PROVE AwaitsAnswer'
  BY <1>2 DEF Exit
<1>3. CASE Collector
  BY <1>3, CollectorLeavesClients, CollectorAnswers
<1>4. CASE UNCHANGED vars
  BY <1>4 DEF vars, clients, sockets
<1> QED BY <1>1, <1>2, <1>3, <1>4 DEF Next, Collector

LEMMA StepKeepsStart ==
    ASSUME TypeOK, StartsAtPath, [Next]_vars
    PROVE  StartsAtPath'
<1> USE DEF TypeOK, CollectorTypeOK, StartsAtPath
<1>1. ASSUME UNCHANGED collector PROVE StartsAtPath'
  BY <1>1 DEF collector, search
<1>2. ASSUME NEW t \in Threads, ServerStep(t) PROVE StartsAtPath'
  BY <1>2 DEF ServerStep, ServerReceive, ServerAck, search, collector
<1>3. CASE NextEntry
  BY <1>3 DEF NextEntry
<1>4. CASE FoundDead \/ SetPending \/ VisitEdges
  BY <1>4 DEF FoundDead, SetPending, VisitEdges
<1>5. CASE GCLock \/ StartServer \/ OpenStoreDir \/ EndOfDirectory \/ FoundAlive \/ TopoSort \/ StartDelete
  BY <1>5 DEF GCLock, StartServer, OpenStoreDir, EndOfDirectory, FoundAlive, TopoSort, StartDelete, GCGoto
<1>6. CASE Invalidate \/ PathInUse \/ DeleteFromStore \/ LimitReached \/ ClosureDone \/ StopServer \/ GCUnlock \/ GCKilled
  BY <1>6 DEF Invalidate, PathInUse, DeleteFromStore, LimitReached, ClosureDone, StopServer, GCUnlock, GCKilled, GCGoto
<1>7. CASE FindTempRoots \/ SkipDead \/ KeepLateRoot
  BY <1>7 DEF FindTempRoots, SkipDead, KeepLateRoot
<1>8. CASE UNCHANGED vars
  BY <1>1, <1>8 DEF vars
<1> QED BY <1>1, <1>2, <1>3, <1>4, <1>5, <1>6, <1>7, <1>8, ClientsLeaveCollector DEF Next, GCStep

TypeInv == TypeOK /\ WorksOnPath /\ AwaitsAnswer /\ StartsAtPath

LEMMA StepKeepsTypes ==
    ASSUME TypeInv, [Next]_vars
    PROVE  TypeInv'
<1>1. TypeOK /\ WorksOnPath /\ AwaitsAnswer /\ StartsAtPath
  BY DEF TypeInv
<1>2. WorksOnPath' /\ AwaitsAnswer' /\ StartsAtPath' /\ ClientTypeOK' /\ CollectorTypeOK'
  BY <1>1, StepWorksOnPath, StepKeepsAwaits, StepKeepsStart, StepKeepsClientTypes, StepKeepsCollectorTypes
<1>3. disk' \subseteq Paths
  <2>1. ASSUME NEW t \in Threads, AddTempRoot(t) \/ ClientStep(t) \/ ServerStep(t) PROVE disk' \subseteq Paths
    <3>1. CASE RestorePath(t)
      BY <1>1, <3>1 DEF RestorePath, TypeOK, WorksOnPath
    <3> QED BY <1>1, <2>1, <3>1 DEF TypeOK, store, AddTempRoot, ClientStep, ServerStep, TryGCLock, Connect, Send, Disconnected, GotAck, Record, Release, IsValid, Register, ServerReceive, ServerAck
  <2>2. ASSUME NEW p \in Procs, Exit(p) PROVE disk' \subseteq Paths
    BY <1>1, <2>2 DEF Exit, store, TypeOK
  <2>3. CASE Collector
    BY <1>1, <2>3 DEF TypeOK, store, Collector, GCStep, StartServer, FindTempRoots, OpenStoreDir, NextEntry, EndOfDirectory, FoundAlive, FoundDead, SetPending, VisitEdges, TopoSort, SkipDead, KeepLateRoot, StartDelete, Invalidate, PathInUse, DeleteFromStore, ClosureDone, StopServer, GCUnlock, GCLock, LimitReached, GCKilled
  <2>4. CASE UNCHANGED vars
    BY <1>1, <2>4 DEF TypeOK, vars, store
  <2> QED BY <2>1, <2>2, <2>3, <2>4 DEF Next, Collector
<1> QED BY <1>2, <1>3 DEF TypeInv, TypeOK, WorksOnPath

LEMMA InitTypes ==
    ASSUME Init
    PROVE  TypeInv
<1> USE ConstantsAssumption DEF Init
<1>1. ClientTypeOK
  BY DEF ClientTypeOK, ClientLabels, MsgStates
<1>2. CollectorTypeOK
  <2>1. cache \in [Paths -> (SUBSET Paths) \cup {{NoPath}}]
    BY DEF NoCache
  <2>2. server \in BOOLEAN
    OBVIOUS
  <2> QED BY <2>1, <2>2 DEF CollectorTypeOK, GCLabels
<1>3. WorksOnPath /\ AwaitsAnswer /\ StartsAtPath
  BY DEF WorksOnPath, AwaitsAnswer, StartsAtPath, ClientLabels
<1> QED BY <1>1, <1>2, <1>3 DEF TypeInv, TypeOK

(* Every variable of the collector and of its clients keeps its type.      *)
THEOREM TypeCorrect == Spec => []TypeOK
<1>1. Init => TypeInv
  BY InitTypes
<1>2. TypeInv /\ [Next]_vars => TypeInv'
  BY StepKeepsTypes
<1>3. TypeInv => TypeOK
  BY DEF TypeInv
<1> QED BY <1>1, <1>2, <1>3, PTL DEF Spec

-----------------------------------------------------------------------------
(* The hypothesis that the descriptor of gc.lock is not shared by threads. *)
OneThreadEach == \A t, u \in Threads : ProcOf[t] = ProcOf[u] => t = u

Sweeping == {"sweep", "bfs", "visit", "delete", "invalidate", "unlink"}
Deleting == {"invalidate", "unlink"}

(* A thread that got gc.lock has it until its root is in the file.         *)
LockKept ==
    \A t \in acquired : /\ pc[t] \in {"record", "release"}
                        /\ ProcOf[t] \in shared /\ gcpc = "off"

(* What a collector knows: the roots it has acknowledged, and those in the *)
(* files it has read.                                                      *)
RootsKnown ==
    /\ gcpc # "off" => \A t \in Threads :
          msg[t] \in {"received", "waiting", "acked"} \/ pc[t] = "record" => arg[t] \in tempRoots
    /\ \A p \in scanned : tempFile[p] \subseteq tempRoots
    /\ gcpc = "off" => scanned = {}
    /\ gcpc \in Sweeping => scanned = Procs

(* The threads of the server exist only while a collector runs.            *)
ServerRuns ==
    gcpc \in {"off", "locked", "unlock"} =>
        ~server /\ \A t \in Threads : msg[t] \notin {"received", "waiting"}

(* What a process works with is in its file.                               *)
UsesRecorded ==
    /\ \A t \in Threads :
          pc[t] \in {"release", "isvalid", "restore", "register"} => arg[t] \in tempFile[ProcOf[t]]
    /\ \A p \in Procs : uses[p] \subseteq tempFile[p]

(* The path that is being deleted is in nobody's file, and whoever asks    *)
(* for it waits.                                                           *)
DeletesUnused ==
    gcpc \in Deleting =>
        /\ pending = cur
        /\ \A p \in Procs : cur \notin tempFile[p]
        /\ \A t \in Threads : arg[t] = cur => pc[t] # "record" /\ msg[t] # "acked"
        /\ gcpc = "unlink" => cur \notin valid

StoreIntact == RootsHonoured /\ CreationUndisturbed /\ ValidOnDisk

IInv ==
    /\ TypeInv
    /\ LockKept /\ ServerRuns /\ RootsKnown /\ UsesRecorded /\ DeletesUnused /\ StoreIntact

(* A thread that has gc.lock keeps it, because no other thread of its      *)
(* process gives it back.                                                  *)
LEMMA StepKeepsLock ==
    ASSUME TypeInv, LockKept, OneThreadEach, [Next]_vars
    PROVE  LockKept'
<1> USE ConstantsAssumption DEF TypeInv, TypeOK, ClientTypeOK, LockKept
<1>1. ASSUME NEW t \in Threads, AddTempRoot(t) \/ ClientStep(t) PROVE LockKept'
  <2>1. gcpc' = gcpc
    BY <1>1, ClientsLeaveCollector DEF collector
  <2>2. CASE AddTempRoot(t) \/ Connect(t) \/ Send(t) \/ Disconnected(t) \/ GotAck(t) \/ IsValid(t) \/ RestorePath(t) \/ Register(t)
    <3>1. pc[t] \notin {"record", "release"}
      BY <2>2 DEF AddTempRoot, Connect, Send, Disconnected, GotAck, IsValid, RestorePath, Register
    <3>2. /\ \E label \in ClientLabels : pc' = [pc EXCEPT ![t] = label]
          /\ shared' = shared /\ acquired' = acquired
      BY <2>2 DEF AddTempRoot, Connect, Send, Disconnected, GotAck, IsValid, RestorePath, Register, Goto, ClientLabels
    <3> QED BY <2>1, <3>1, <3>2
  <2>3. CASE TryGCLock(t)
    BY <2>1, <2>3 DEF TryGCLock, Goto
  <2>4. CASE Record(t)
    BY <2>1, <2>4 DEF Record, Goto
  <2>5. CASE Release(t)
    BY <2>1, <2>5 DEF Release, Goto, OneThreadEach
  <2> QED BY <1>1, <2>2, <2>3, <2>4, <2>5 DEF ClientStep
<1>2. ASSUME NEW t \in Threads, ServerStep(t) PROVE LockKept'
  BY <1>2 DEF ServerStep, ServerReceive, ServerAck, collector
<1>3. ASSUME NEW p \in Procs, Exit(p) PROVE LockKept'
  BY <1>3 DEF Exit, collector
<1>4. CASE Collector
  <2>1. acquired = {}
    BY <1>4 DEF Collector, GCStep, StartServer, FindTempRoots, OpenStoreDir, NextEntry, EndOfDirectory, FoundAlive, FoundDead, SetPending, VisitEdges, TopoSort, SkipDead, KeepLateRoot, StartDelete, Invalidate, PathInUse, DeleteFromStore, ClosureDone, StopServer, GCUnlock, GCLock, LimitReached, GCKilled
  <2> QED BY <1>4, <2>1, CollectorLeavesClients
<1>5. CASE UNCHANGED vars
  BY <1>5 DEF vars, clients, collector
<1> QED BY <1>1, <1>2, <1>3, <1>4, <1>5 DEF Next, Collector

LEMMA StepKeepsUsesRecorded ==
    ASSUME TypeInv, UsesRecorded, [Next]_vars
    PROVE  UsesRecorded'
<1> USE ConstantsAssumption DEF TypeInv, TypeOK, ClientTypeOK, UsesRecorded
<1>1. ASSUME NEW t \in Threads, AddTempRoot(t) \/ ClientStep(t) PROVE UsesRecorded'
  <2>1. CASE AddTempRoot(t) \/ TryGCLock(t) \/ Connect(t)
    BY <2>1 DEF AddTempRoot, TryGCLock, Connect, Goto
  <2>2. CASE Send(t) \/ Disconnected(t) \/ GotAck(t)
    BY <2>2 DEF Send, Disconnected, GotAck, Goto
  <2>3. CASE Record(t) \/ Release(t)
    BY <2>3 DEF Record, Release, Goto
  <2>4. CASE IsValid(t) \/ RestorePath(t) \/ Register(t)
    BY <2>4 DEF IsValid, RestorePath, Register, Goto
  <2> QED BY <1>1, <2>1, <2>2, <2>3, <2>4 DEF ClientStep
<1>2. ASSUME NEW t \in Threads, ServerStep(t) PROVE UsesRecorded'
  BY <1>2 DEF ServerStep, ServerReceive, ServerAck
<1>3. ASSUME NEW p \in Procs, Exit(p) PROVE UsesRecorded'
  BY <1>3 DEF Exit
<1>4. CASE Collector
  BY <1>4, CollectorLeavesClients
<1>5. CASE UNCHANGED vars
  BY <1>5 DEF vars, clients
<1> QED BY <1>1, <1>2, <1>3, <1>4, <1>5 DEF Next, Collector

LEMMA StepKeepsServer ==
    ASSUME TypeInv, ServerRuns, [Next]_vars
    PROVE  ServerRuns'
<1> USE DEF TypeInv, TypeOK, ClientTypeOK, ServerRuns
<1>1. ASSUME NEW t \in Threads, AddTempRoot(t) \/ ClientStep(t) PROVE ServerRuns'
  <2>1. gcpc' = gcpc /\ server' = server
    BY <1>1, ClientsLeaveCollector DEF collector
  <2>2. msg' = msg \/ msg' = [msg EXCEPT ![t] = "sent"] \/ msg' = [msg EXCEPT ![t] = "none"]
    BY <1>1 DEF AddTempRoot, ClientStep, TryGCLock, Connect, Send, Disconnected, GotAck, Record, Release, IsValid, RestorePath, Register, sockets
  <2> QED BY <2>1, <2>2
<1>2. ASSUME NEW t \in Threads, ServerStep(t) PROVE ServerRuns'
  BY <1>2 DEF ServerStep, ServerReceive, ServerAck, collector
<1>3. ASSUME NEW p \in Procs, Exit(p) PROVE ServerRuns'
  BY <1>3 DEF Exit, collector
<1>4. CASE GCLock \/ GCUnlock
  BY <1>4 DEF GCLock, GCUnlock, clients, sockets
<1>5. CASE StopServer \/ GCKilled
  BY <1>5 DEF StopServer, GCKilled, SocketsDie
<1>6. CASE Collector /\ ~(GCLock \/ GCUnlock \/ StopServer \/ GCKilled)
  <2>1. gcpc' \notin {"off", "locked", "unlock"}
    BY <1>6 DEF Collector, GCStep, GCGoto, StartServer, FindTempRoots, OpenStoreDir, NextEntry, EndOfDirectory, FoundAlive, FoundDead, SetPending, VisitEdges, TopoSort, SkipDead, KeepLateRoot, StartDelete, Invalidate, PathInUse, DeleteFromStore, ClosureDone, LimitReached
  <2> QED BY <2>1
<1>7. CASE UNCHANGED vars
  BY <1>7 DEF vars, clients, sockets, collector
<1> QED BY <1>1, <1>2, <1>3, <1>4, <1>5, <1>6, <1>7 DEF Next, Collector

(* A collector that starts when nothing is unrecorded knows every root     *)
(* that a client may rely on.                                              *)
LEMMA StepKeepsRootsKnown ==
    ASSUME TypeInv, LockKept, ServerRuns, RootsKnown, [CalmNext]_vars
    PROVE  RootsKnown'
<1> USE ConstantsAssumption DEF TypeInv, TypeOK, ClientTypeOK, RootsKnown
<1>1. ASSUME NEW t \in Threads, AddTempRoot(t) \/ ClientStep(t) PROVE RootsKnown'
  <2>1. gcpc' = gcpc /\ scanned' = scanned /\ tempRoots' = tempRoots
    BY <1>1, ClientsLeaveCollector DEF collector
  <2>2. CASE AddTempRoot(t)
    BY <2>1, <2>2 DEF AddTempRoot, Goto, sockets, AwaitsAnswer
  <2>3. CASE TryGCLock(t) \/ Connect(t)
    BY <2>1, <2>3 DEF TryGCLock, Connect, Goto, sockets
  <2>4. CASE Send(t) \/ Disconnected(t) \/ GotAck(t)
    BY <2>1, <2>4 DEF Send, Disconnected, GotAck, Goto
  <2>5. CASE Record(t)
    <3>1. ProcOf[t] \in scanned => arg[t] \in tempRoots
      BY <2>5 DEF Record
    <3> QED BY <2>1, <2>5, <3>1 DEF Record, Goto, sockets
  <2>6. CASE Release(t) \/ IsValid(t) \/ RestorePath(t) \/ Register(t)
    BY <2>1, <2>6 DEF Release, IsValid, RestorePath, Register, Goto, sockets
  <2> QED BY <1>1, <2>2, <2>3, <2>4, <2>5, <2>6 DEF ClientStep
<1>2. ASSUME NEW t \in Threads, ServerStep(t) PROVE RootsKnown'
  BY <1>2 DEF ServerStep, ServerReceive, ServerAck, collector
<1>3. ASSUME NEW p \in Procs, Exit(p) PROVE RootsKnown'
  BY <1>3 DEF Exit, collector
<1>4. CASE Collector
  <2>1. /\ pc' = pc /\ arg' = arg /\ tempFile' = tempFile
        /\ \A t \in Threads : msg'[t] \in {"received", "waiting", "acked"} => msg[t] \in {"received", "waiting", "acked"}
    BY <1>4, CollectorLeavesClients, CollectorAnswers
  <2>2. CASE GCLock
    <3>1. \A t \in Threads : ~Unrecorded(t) /\ t \notin acquired
      <4>1. GCLock => \A t \in Threads : ~Unrecorded(t)
        BY <2>2 DEF CalmNext, GCLock, vars, collector, GCGoto
      <4> QED BY <2>2, <4>1 DEF GCLock, LockKept
    <3>2. \A t \in Threads : pc[t] # "record" /\ msg[t] # "acked"
      BY <3>1 DEF Unrecorded
    <3>3. \A t \in Threads : msg[t] \notin {"received", "waiting"}
      BY <2>2 DEF GCLock, ServerRuns
    <3> QED BY <2>1, <2>2, <3>2, <3>3 DEF GCLock, GCGoto, Sweeping
  <2>3. CASE FindTempRoots
    BY <2>1, <2>3 DEF FindTempRoots, Sweeping
  <2>4. CASE GCUnlock \/ GCKilled
    BY <2>1, <2>4 DEF GCUnlock, GCKilled, Forget, GCGoto, Sweeping
  <2>5. ASSUME tempRoots' = tempRoots, scanned' = scanned, gcpc # "off", gcpc' # "off",
               gcpc' \in Sweeping => gcpc \in Sweeping \/ scanned = Procs
        PROVE  RootsKnown'
    BY <2>1, <2>5
  <2>6. CASE StartServer \/ OpenStoreDir \/ NextEntry \/ EndOfDirectory \/ FoundAlive \/ FoundDead \/ SetPending \/ VisitEdges
    BY <2>5, <2>6 DEF StartServer, OpenStoreDir, NextEntry, EndOfDirectory, FoundAlive, FoundDead, SetPending, VisitEdges, GCGoto, Sweeping
  <2>7. CASE TopoSort \/ SkipDead \/ KeepLateRoot \/ StartDelete \/ Invalidate \/ PathInUse \/ DeleteFromStore
    BY <2>5, <2>7 DEF TopoSort, SkipDead, KeepLateRoot, StartDelete, Invalidate, PathInUse, DeleteFromStore, GCGoto, Sweeping
  <2>8. CASE LimitReached \/ ClosureDone \/ StopServer
    BY <2>5, <2>8 DEF LimitReached, ClosureDone, StopServer, GCGoto, Sweeping
  <2> QED BY <1>4, <2>2, <2>3, <2>4, <2>6, <2>7, <2>8 DEF Collector, GCStep
<1>5. CASE UNCHANGED vars
  BY <1>5 DEF vars, clients, sockets, collector
<1> QED BY <1>1, <1>2, <1>3, <1>4, <1>5 DEF CalmNext, Next, Collector

(* While a path is deleted no client gets an acknowledgement for it.       *)
LEMMA StepKeepsDeletesUnused ==
    ASSUME TypeInv, LockKept, RootsKnown, UsesRecorded, DeletesUnused, [Next]_vars
    PROVE  DeletesUnused'
<1> USE ConstantsAssumption DEF TypeInv, TypeOK, ClientTypeOK
<1>1. ASSUME NEW t \in Threads, AddTempRoot(t) \/ ClientStep(t), gcpc' \in Deleting PROVE DeletesUnused'
  <2>1. gcpc' = gcpc /\ pending' = pending /\ cur' = cur /\ gcpc # "off"
    BY <1>1, ClientsLeaveCollector DEF collector, search, Deleting
  <2>2. /\ pending = cur
        /\ \A p \in Procs : cur \notin tempFile[p]
        /\ \A u \in Threads : arg[u] = cur => pc[u] # "record" /\ msg[u] # "acked"
        /\ gcpc = "unlink" => cur \notin valid
    BY <1>1, <2>1 DEF DeletesUnused
  <2>3. CASE AddTempRoot(t)
    BY <2>1, <2>2, <2>3 DEF AddTempRoot, Goto, sockets, store, AwaitsAnswer, DeletesUnused
  <2>4. CASE TryGCLock(t) \/ Connect(t)
    BY <2>1, <2>2, <2>4 DEF TryGCLock, Connect, Goto, sockets, store, DeletesUnused
  <2>5. CASE Send(t) \/ Disconnected(t) \/ GotAck(t)
    BY <2>1, <2>2, <2>5 DEF Send, Disconnected, GotAck, Goto, store, DeletesUnused
  <2>6. CASE Record(t) \/ Release(t) \/ IsValid(t) \/ RestorePath(t)
    BY <2>1, <2>2, <2>6 DEF Record, Release, IsValid, RestorePath, Goto, sockets, store, DeletesUnused
  <2>7. CASE Register(t)
    <3>1. arg[t] # cur
      BY <2>2, <2>7 DEF Register, UsesRecorded
    <3> QED BY <2>1, <2>2, <2>7, <3>1 DEF Register, Goto, sockets, DeletesUnused
  <2> QED BY <1>1, <2>3, <2>4, <2>5, <2>6, <2>7 DEF ClientStep
<1>2. ASSUME NEW t \in Threads, ServerStep(t) PROVE DeletesUnused'
  BY <1>2 DEF ServerStep, ServerReceive, ServerAck, IsPending, collector, search, store, DeletesUnused
<1>3. ASSUME NEW p \in Procs, Exit(p) PROVE DeletesUnused'
  BY <1>3 DEF Exit, collector, search, store, DeletesUnused
<1>4. CASE StartDelete
  <2>1. PICK x \in rest \ dead : x \notin tempRoots /\ cur' = x /\ pending' = x
    BY <1>4 DEF StartDelete, BecameTempRoot
  <2>2. \A p \in Procs : x \notin tempFile[p]
    BY <1>4, <2>1 DEF StartDelete, RootsKnown, Sweeping
  <2>3. \A t \in Threads : arg[t] = x => pc[t] # "record" /\ msg[t] # "acked"
    BY <1>4, <2>1 DEF StartDelete, RootsKnown
  <2> QED BY <1>4, <2>1, <2>2, <2>3 DEF StartDelete, GCGoto, clients, sockets, DeletesUnused
<1>5. CASE Invalidate
  BY <1>5 DEF Invalidate, GCGoto, clients, sockets, search, DeletesUnused, Deleting
<1>6. CASE Collector /\ ~StartDelete /\ ~Invalidate
  <2>1. gcpc' \notin Deleting
    BY <1>6 DEF Collector, GCStep, GCGoto, Deleting, GCLock, StartServer, FindTempRoots, OpenStoreDir, NextEntry, EndOfDirectory, FoundAlive, FoundDead, SetPending, VisitEdges, TopoSort, SkipDead, KeepLateRoot, PathInUse, DeleteFromStore, LimitReached, ClosureDone, StopServer, GCUnlock, GCKilled
  <2> QED BY <2>1 DEF DeletesUnused
<1>7. CASE UNCHANGED vars
  BY <1>7 DEF vars, store, clients, sockets, collector, search, DeletesUnused
<1>8. gcpc' \notin Deleting => DeletesUnused'
  BY DEF DeletesUnused
<1> QED BY <1>1, <1>2, <1>3, <1>4, <1>5, <1>6, <1>7, <1>8 DEF Next, Collector

(* Only the path that is being deleted leaves the store, and it is in      *)
(* nobody's file.                                                          *)
LEMMA StepKeepsIntact ==
    ASSUME TypeInv, UsesRecorded, DeletesUnused, StoreIntact, [Next]_vars
    PROVE  StoreIntact'
<1> USE ConstantsAssumption DEF TypeInv, TypeOK, ClientTypeOK
<1> USE DEF StoreIntact, RootsHonoured, CreationUndisturbed, ValidOnDisk
<1>1. ASSUME NEW t \in Threads, AddTempRoot(t) \/ ClientStep(t) PROVE StoreIntact'
  <2>1. CASE AddTempRoot(t) \/ TryGCLock(t) \/ Connect(t) \/ Send(t) \/ Disconnected(t) \/ GotAck(t) \/ Record(t) \/ Release(t)
    <3>1. UNCHANGED <<store, uses>> /\ \E label \in ClientLabels \ {"register"} : pc' = [pc EXCEPT ![t] = label]
      BY <2>1 DEF AddTempRoot, TryGCLock, Connect, Send, Disconnected, GotAck, Record, Release, Goto, ClientLabels
    <3>2. \A u \in Threads \ {t} : arg'[u] = arg[u]
      BY <2>1 DEF AddTempRoot, TryGCLock, Connect, Send, Disconnected, GotAck, Record, Release
    <3> QED BY <3>1, <3>2 DEF store
  <2>2. CASE IsValid(t)
    BY <2>2 DEF IsValid, Goto, store
  <2>3. CASE RestorePath(t)
    BY <2>3 DEF RestorePath, Goto
  <2>4. CASE Register(t)
    BY <2>4 DEF Register, Goto
  <2> QED BY <1>1, <2>1, <2>2, <2>3, <2>4 DEF ClientStep
<1>2. ASSUME NEW t \in Threads, ServerStep(t) PROVE StoreIntact'
  BY <1>2 DEF ServerStep, ServerReceive, ServerAck, store
<1>3. ASSUME NEW p \in Procs, Exit(p) PROVE StoreIntact'
  BY <1>3 DEF Exit, store
<1>4. CASE Collector
  <2>1. pc' = pc /\ arg' = arg /\ uses' = uses
    BY <1>4, CollectorLeavesClients
  <2>2. \/ UNCHANGED store
        \/ Invalidate
        \/ DeleteFromStore
        \/ LimitReached
    BY <1>4 DEF Collector, GCStep, store, GCLock, StartServer, FindTempRoots, OpenStoreDir, NextEntry, EndOfDirectory, FoundAlive, FoundDead, SetPending, VisitEdges, TopoSort, SkipDead, KeepLateRoot, StartDelete, PathInUse, ClosureDone, StopServer, GCUnlock, GCKilled
  <2>3. ASSUME gcpc \in Deleting
        PROVE  /\ \A p \in Procs : cur \notin uses[p]
               /\ \A t \in Threads : pc[t] = "register" => arg[t] # cur
               /\ gcpc = "unlink" => cur \notin valid
    BY <2>3 DEF DeletesUnused, UsesRecorded
  <2>4. CASE Invalidate
    BY <2>1, <2>3, <2>4 DEF Invalidate, Deleting
  <2>5. CASE DeleteFromStore \/ LimitReached
    BY <2>1, <2>3, <2>5 DEF DeleteFromStore, LimitReached, Deleting
  <2>6. CASE UNCHANGED store
    BY <2>1, <2>6 DEF store
  <2> QED BY <2>2, <2>4, <2>5, <2>6
<1>5. CASE UNCHANGED vars
  BY <1>5 DEF vars, store, clients
<1> QED BY <1>1, <1>2, <1>3, <1>4, <1>5 DEF Next, Collector

LEMMA InitIInv ==
    ASSUME Init
    PROVE  IInv
<1>1. TypeInv
  BY InitTypes
<1>2. LockKept /\ ServerRuns /\ RootsKnown /\ UsesRecorded /\ DeletesUnused
  BY ConstantsAssumption DEF Init, LockKept, ServerRuns, RootsKnown, UsesRecorded, DeletesUnused, Sweeping, Deleting
<1>3. StoreIntact
  BY ConstantsAssumption DEF Init, StoreIntact, RootsHonoured, CreationUndisturbed, ValidOnDisk
<1> QED BY <1>1, <1>2, <1>3 DEF IInv

LEMMA StepKeepsIInv ==
    ASSUME OneThreadEach, IInv, [CalmNext]_vars
    PROVE  IInv'
<1>1. [Next]_vars
  BY DEF CalmNext
<1> QED BY <1>1, StepKeepsTypes, StepKeepsLock, StepKeepsServer, StepKeepsRootsKnown, StepKeepsUsesRecorded, StepKeepsDeletesUnused, StepKeepsIntact DEF IInv

LEMMA CalmIntact ==
    ASSUME OneThreadEach
    PROVE  CalmSpec => []StoreIntact
<1>1. Init => IInv
  BY InitIInv
<1>2. IInv /\ [CalmNext]_vars => IInv'
  BY StepKeepsIInv
<1>3. IInv => StoreIntact
  BY DEF IInv
<1> QED BY <1>1, <1>2, <1>3, PTL DEF CalmSpec

(* The protocol of temporary roots keeps its promise for any number of     *)
(* processes, paths and collector runs, client exits and killed            *)
(* collectors, if every process has one thread in addTempRoot and no       *)
(* collector takes gc.lock between an acknowledgement and its record in    *)
(* the file: what a process protected and uses is neither invalidated nor  *)
(* deleted.  Without either hypothesis it does not (the runs gc_threads    *)
(* and gc_twice).                                                          *)
THEOREM RootsHonouredHolds ==
    ASSUME OneThreadEach
    PROVE  CalmSpec => []RootsHonoured
<1>1. StoreIntact => RootsHonoured
  BY DEF StoreIntact
<1> QED BY <1>1, CalmIntact, PTL

(* Under the same hypotheses the files that a thread restores are not      *)
(* deleted before it registers them: Shared::pending makes its request     *)
(* wait for a deletion that has begun.                                     *)
THEOREM CreationUndisturbedHolds ==
    ASSUME OneThreadEach
    PROVE  CalmSpec => []CreationUndisturbed
<1>1. StoreIntact => CreationUndisturbed
  BY DEF StoreIntact
<1> QED BY <1>1, CalmIntact, PTL

(* And no valid path loses its files: between invalidatePathChecked and    *)
(* deleteFromStore nobody registers the path anew.                         *)
THEOREM ValidOnDiskHolds ==
    ASSUME OneThreadEach
    PROVE  CalmSpec => []ValidOnDisk
<1>1. StoreIntact => ValidOnDisk
  BY DEF StoreIntact
<1> QED BY <1>1, CalmIntact, PTL

-----------------------------------------------------------------------------
(* Before the first collection nobody has an acknowledgement.              *)
FirstIsCalm ==
    runs = 0 => gcpc = "off" /\ ~server /\ \A t \in Threads : ~Unrecorded(t) /\ msg[t] \in {"none", "sent"}

LEMMA StepKeepsFirstIsCalm ==
    ASSUME TypeInv, FirstIsCalm, [Next]_vars
    PROVE  FirstIsCalm'
<1> USE DEF TypeInv, TypeOK, ClientTypeOK, FirstIsCalm, Unrecorded
<1>1. ASSUME NEW t \in Threads, AddTempRoot(t) \/ ClientStep(t) PROVE FirstIsCalm'
  <2>1. runs' = runs /\ gcpc' = gcpc /\ server' = server
    BY <1>1, ClientsLeaveCollector DEF collector
  <2>2. CASE AddTempRoot(t) \/ TryGCLock(t) \/ Connect(t)
    BY <2>1, <2>2 DEF AddTempRoot, TryGCLock, Connect, Goto, sockets
  <2>3. CASE Send(t) \/ Disconnected(t) \/ GotAck(t)
    BY <2>1, <2>3 DEF Send, Disconnected, GotAck, Goto
  <2>4. CASE Record(t) \/ Release(t) \/ IsValid(t) \/ RestorePath(t) \/ Register(t)
    BY <2>1, <2>4 DEF Record, Release, IsValid, RestorePath, Register, Goto, sockets
  <2> QED BY <1>1, <2>2, <2>3, <2>4 DEF ClientStep
<1>2. ASSUME NEW t \in Threads, ServerStep(t) PROVE FirstIsCalm'
  BY <1>2 DEF ServerStep, ServerReceive, ServerAck, collector
<1>3. ASSUME NEW p \in Procs, Exit(p) PROVE FirstIsCalm'
  BY <1>3 DEF Exit, collector
<1>4. CASE GCLock
  <2>1. runs' # 0
    BY <1>4 DEF GCLock, CollectorTypeOK
  <2> QED BY <2>1
<1>5. CASE GCStep \/ LimitReached \/ GCKilled
  <2>1. gcpc # "off" /\ runs' = runs
    BY <1>5 DEF GCStep, StartServer, FindTempRoots, OpenStoreDir, NextEntry, EndOfDirectory, FoundAlive, FoundDead, SetPending, VisitEdges, TopoSort, SkipDead, KeepLateRoot, StartDelete, Invalidate, PathInUse, DeleteFromStore, ClosureDone, StopServer, GCUnlock, LimitReached, GCKilled
  <2> QED BY <2>1
<1>6. CASE UNCHANGED vars
  BY <1>6 DEF vars, clients, sockets, collector
<1> QED BY <1>1, <1>2, <1>3, <1>4, <1>5, <1>6 DEF Next

LEMMA OneCollectionIsCalm ==
    ASSUME MaxGC <= 1, IInv, FirstIsCalm, [Next]_vars
    PROVE  [CalmNext]_vars
<1>1. TypeInv
  BY DEF IInv
<1>2. GCLock => \A t \in Threads : ~Unrecorded(t)
  BY <1>1, ConstantsAssumption DEF GCLock, FirstIsCalm, TypeInv, TypeOK, CollectorTypeOK
<1> QED BY <1>2 DEF CalmNext

(* With one collection at most, as in the run gc_clients, the second       *)
(* hypothesis is not needed.                                               *)
THEOREM OneCollectionIntact ==
    ASSUME OneThreadEach, MaxGC <= 1
    PROVE  Spec => [](RootsHonoured /\ CreationUndisturbed /\ ValidOnDisk)
<1> DEFINE I == IInv /\ FirstIsCalm
<1>1. Init => I
  BY InitIInv DEF Init, FirstIsCalm, Unrecorded
<1>2. I /\ [Next]_vars => I'
  <2> SUFFICES ASSUME IInv, FirstIsCalm, [Next]_vars PROVE IInv' /\ FirstIsCalm'
    OBVIOUS
  <2>1. TypeInv
    BY DEF IInv
  <2>2. [CalmNext]_vars
    BY OneCollectionIsCalm
  <2> QED BY <2>1, <2>2, StepKeepsIInv, StepKeepsFirstIsCalm
<1>3. I => RootsHonoured /\ CreationUndisturbed /\ ValidOnDisk
  BY DEF IInv, StoreIntact
<1> QED BY <1>1, <1>2, <1>3, PTL DEF Spec

-----------------------------------------------------------------------------
(* What the permanent roots keep alive.                                    *)
Kept == UNION {Closure(x, InitValid) : x \in Roots \cap InitValid}

(* The closure of z leads to y.                                            *)
Needs(z, y) ==
    \/ y \in Refs[z]
    \/ KeepOutputs /\ Deriver[y] = z
    \/ KeepDerivations /\ Deriver[z] = y

(* The search from a kept path would lead back to its root: every visited  *)
(* path that is off the queue has its kept predecessors visited, in spite  *)
(* of a referrers cache that may be older than the database.               *)
SearchOK ==
    /\ todo \subseteq visited
    /\ (visited \ todo) \cap Roots \cap InitValid = {}
    /\ \A y \in (visited \ todo) \cap Kept, z \in Kept :
          Needs(z, y) => z \in visited \/ (gcpc = "visit" /\ y = cur)

KeptOK ==
    /\ Kept \subseteq valid \cap disk
    /\ gcpc \in Sweeping => Roots \subseteq roots
    /\ \A y \in Paths : cache[y] # {NoPath} => {z \in Kept : y \in Refs[z]} \subseteq cache[y]
    /\ Kept \cap dead = {}
    /\ gcpc \in {"bfs", "visit"} => SearchOK
    /\ gcpc = "visit" => cur \in visited \ todo
    /\ gcpc \in {"delete", "invalidate", "unlink"} => rest \subseteq visited /\ visited \cap Kept = {}
    /\ gcpc \in Deleting => cur \in visited

(* The members of Deps, one edge at a time.                                *)
LEMMA DepsMembers ==
    ASSUME NEW Y, NEW S, NEW w
    PROVE  w \in Deps(Y, S) <=>
              \/ \E z \in Y \cap S : w \in Refs[z]
              \/ KeepOutputs /\ w \in S /\ Deriver[w] \in Y \cap S
              \/ KeepDerivations /\ w \in S /\ \E z \in Y \cap S : w = Deriver[z]
  BY DEF Deps

LEMMA DepsEdges ==
    ASSUME NEW Y \in SUBSET Paths, NEW S \in SUBSET Paths, NEW w \in Deps(Y, S)
    PROVE  \E z \in Y : w \in Deps({z}, S) /\ Needs(z, w)
<1>1. CASE \E z \in Y \cap S : w \in Refs[z]
  <2>1. PICK z \in Y \cap S : w \in Refs[z]
    BY <1>1
  <2>2. w \in Deps({z}, S) /\ Needs(z, w)
    BY <2>1, DepsMembers DEF Needs
  <2> QED BY <2>1, <2>2
<1>2. CASE KeepOutputs /\ w \in S /\ Deriver[w] \in Y \cap S
  <2>1. w \in Deps({Deriver[w]}, S)
    BY <1>2, DepsMembers
  <2> QED BY <1>2, <2>1 DEF Needs
<1>3. CASE KeepDerivations /\ w \in S /\ \E z \in Y \cap S : w = Deriver[z]
  <2>1. PICK z \in Y \cap S : w = Deriver[z]
    BY <1>3
  <2>2. w \in Deps({z}, S)
    BY <1>3, <2>1, DepsMembers
  <2>3. Needs(z, w)
    BY <1>3, <2>1 DEF Needs
  <2> QED BY <2>2, <2>3
<1>4. \/ \E z \in Y \cap S : w \in Refs[z]
      \/ KeepOutputs /\ w \in S /\ Deriver[w] \in Y \cap S
      \/ KeepDerivations /\ w \in S /\ \E z \in Y \cap S : w = Deriver[z]
  BY DepsMembers, ConstantsAssumption
<1> QED BY <1>1, <1>2, <1>3, <1>4, Zenon

LEMMA DepsMonotone ==
    ASSUME NEW Y, NEW S, NEW z \in Y
    PROVE  Deps({z}, S) \subseteq Deps(Y, S)
  BY DEF Deps

LEMMA DepsInPaths ==
    ASSUME NEW Y \in SUBSET Paths, NEW S \in SUBSET Paths
    PROVE  Deps(Y, S) \subseteq Paths
<1> SUFFICES ASSUME NEW w \in Deps(Y, S) PROVE w \in Paths
  OBVIOUS
<1> QED BY ConstantsAssumption, DepsMembers

(* The closure contains its start and is closed.                           *)
LEMMA ClosureClosed ==
    ASSUME NEW x \in Paths, NEW S \in SUBSET Paths
    PROVE  /\ x \in Closure(x, S)
           /\ \A z \in Closure(x, S) : Deps({z}, S) \subseteq Closure(x, S)
<1>1. x \in Closure(x, S)
  BY DEF Closure
<1>2. ASSUME NEW z \in Closure(x, S), NEW w \in Deps({z}, S) PROVE w \in Closure(x, S)
  <2>1. z \in Paths /\ w \in Paths
    BY DepsInPaths DEF Closure
  <2>2. ASSUME NEW Y \in SUBSET Paths, x \in Y, Deps(Y, S) \subseteq Y PROVE w \in Y
    <3>1. z \in Y
      BY <2>2 DEF Closure
    <3> QED BY <2>2, <3>1, DepsMonotone
  <2> QED BY <2>1, <2>2 DEF Closure
<1> QED BY <1>1, <1>2

(* What is kept was valid from the start.                                  *)
LEMMA KeptValid == Kept \subseteq InitValid
<1> SUFFICES ASSUME NEW x \in Roots \cap InitValid, NEW y \in Closure(x, InitValid)
             PROVE  y \in InitValid
  BY DEF Kept
<1>1. InitValid \in SUBSET Paths
  BY ConstantsAssumption
<1>2. ASSUME NEW w \in Deps(InitValid, InitValid) PROVE w \in InitValid
  BY ConstantsAssumption, DepsMembers
<1> QED BY <1>1, <1>2 DEF Closure

(* A set that is closed towards the kept predecessors of its members and   *)
(* contains no root contains nothing that is kept.                         *)
LEMMA KeptSeparate ==
    ASSUME NEW V, V \cap Roots \cap InitValid = {},
           \A y \in V \cap Kept, z \in Kept : Needs(z, y) => z \in V
    PROVE  V \cap Kept = {}
<1> SUFFICES ASSUME NEW x \in Roots \cap InitValid, NEW y \in Closure(x, InitValid), y \in V
             PROVE  FALSE
  BY DEF Kept
<1>1. x \in Paths /\ InitValid \in SUBSET Paths
  BY ConstantsAssumption
<1> DEFINE C == Closure(x, InitValid)
           Y == C \ V
<1>2. C \subseteq Kept /\ C \subseteq Paths
  BY ClosureInPaths DEF Kept
<1>3. x \in Y /\ Y \in SUBSET Paths
  BY <1>1, <1>2, ClosureClosed
<1>4. ASSUME NEW w \in Deps(Y, InitValid) PROVE w \in Y
  <2>1. PICK z \in Y : w \in Deps({z}, InitValid) /\ Needs(z, w)
    BY <1>1, <1>3, DepsEdges
  <2>2. w \in C
    BY <1>1, <2>1, ClosureClosed
  <2>3. w \notin V
    BY <1>2, <2>1, <2>2
  <2> QED BY <2>2, <2>3
<1>5. y \in Y
  BY <1>3, <1>4 DEF Closure
<1> QED BY <1>5

LEMMA RootsAreKept == Roots \cap InitValid \subseteq Kept
  BY ConstantsAssumption, ClosureClosed DEF Kept

(* Steps that only add to the store, outside the search.                   *)
LEMMA GrowthKeepsKept ==
    ASSUME KeptOK, valid \subseteq valid', disk \subseteq disk', UNCHANGED <<gcpc, search, found>>
    PROVE  KeptOK'
  BY DEF KeptOK, SearchOK, search, found

(* A visited path leads to all its kept predecessors: the referrers in a   *)
(* cache entry include those that were valid from the start.               *)
LEMMA VisitKeepsKept ==
    ASSUME TypeInv, KeptOK, VisitEdges
    PROVE  KeptOK'
<1>1. /\ gcpc = "visit" /\ gcpc' = "bfs" /\ SearchOK /\ cur \in visited \ todo
      /\ UNCHANGED <<valid, disk, cur, roots, dead, rest>>
  BY DEF VisitEdges, GCGoto, store, KeptOK
<1>2. cache \in [Paths -> (SUBSET Paths) \cup {{NoPath}}] /\ cur \in Paths
  BY <1>1 DEF TypeInv, TypeOK, CollectorTypeOK
<1>3. CASE cur \notin valid
  <2>1. UNCHANGED <<visited, todo, cache>>
    BY <1>3 DEF VisitEdges
  <2>2. cur \notin Kept
    BY <1>3 DEF KeptOK
  <2> QED BY <1>1, <2>1, <2>2 DEF KeptOK, SearchOK, Sweeping, Deleting
<1>4. CASE cur \in valid
  <2> DEFINE E == Edges(cur, cache'[cur])
  <2>1. /\ cache' = [cache EXCEPT ![cur] = IF @ = {NoPath} THEN Referrers(cur) ELSE @]
        /\ visited' = visited \cup E
        /\ todo' = todo \cup (E \ visited)
    BY <1>4 DEF VisitEdges
  <2>2. \A z \in Kept : cur \in Refs[z] => z \in cache'[cur]
    BY <1>2, <2>1 DEF KeptOK, Referrers
  <2>3. \A y \in Paths : cache'[y] # {NoPath} => {z \in Kept : y \in Refs[z]} \subseteq cache'[y]
    BY <1>2, <2>1, <2>2 DEF KeptOK
  <2>4. ASSUME NEW z \in Kept, Needs(z, cur) PROVE z \in E
    <3>1. z \in valid
      BY DEF KeptOK
    <3>2. CASE cur \in Refs[z]
      BY <2>2, <3>2 DEF Edges
    <3>3. CASE KeepOutputs /\ Deriver[cur] = z
      BY <3>1, <3>3 DEF Edges
    <3>4. CASE KeepDerivations /\ Deriver[z] = cur
      BY <3>1, <3>4 DEF Edges, Outputs
    <3> QED BY <2>4, <3>2, <3>3, <3>4 DEF Needs
  <2> HIDE DEF E
  <2>5. todo' \subseteq visited' /\ visited' \ todo' \subseteq visited \ todo /\ visited \subseteq visited'
    BY <1>1, <2>1 DEF SearchOK
  <2>6. SearchOK'
    <3>1. ASSUME NEW y \in (visited' \ todo') \cap Kept, NEW z \in Kept, Needs(z, y)
          PROVE  z \in visited'
      <4>1. y \in (visited \ todo) \cap Kept
        BY <2>5
      <4>2. z \in visited \/ y = cur
        BY <1>1, <3>1, <4>1 DEF SearchOK
      <4> QED BY <2>1, <2>4, <2>5, <3>1, <4>2
    <3> QED BY <1>1, <2>5, <3>1 DEF SearchOK
  <2> QED BY <1>1, <2>3, <2>6 DEF KeptOK, Sweeping, Deleting
<1> QED BY <1>3, <1>4

(* The search, up to the point where the queue is empty and nothing kept   *)
(* has been visited.                                                       *)
LEMMA SearchKeepsKept ==
    ASSUME TypeInv, KeptOK, NextEntry \/ FoundAlive \/ FoundDead \/ SetPending \/ TopoSort
    PROVE  KeptOK'
<1> USE DEF KeptOK, Sweeping, Deleting
<1>1. CASE NextEntry
  <2>1. PICK x \in entries : visited' = {x} /\ todo' = {x}
    BY <1>1 DEF NextEntry
  <2>2. SearchOK'
    BY <2>1 DEF SearchOK
  <2> QED BY <1>1, <2>2 DEF NextEntry, GCGoto, store, found
<1>2. CASE FoundAlive
  BY <1>2 DEF FoundAlive, GCGoto, store, search
<1>3. CASE FoundDead
  <2>1. PICK x \in todo \cap dead : todo' = todo \ {x}
    BY <1>3 DEF FoundDead
  <2>2. x \notin Kept /\ x \notin Roots \cap InitValid
    BY <2>1, RootsAreKept
  <2>3. SearchOK'
    BY <1>3, <2>1, <2>2 DEF FoundDead, SearchOK
  <2> QED BY <1>3, <2>3 DEF FoundDead, store, found
<1>4. CASE SetPending
  <2>1. PICK x \in todo : x \notin roots /\ todo' = todo \ {x} /\ cur' = x
    BY <1>4 DEF SetPending
  <2>2. x \notin Roots /\ gcpc = "bfs" /\ gcpc' = "visit" /\ visited' = visited
    BY <1>4, <2>1 DEF SetPending, GCGoto
  <2>3. SearchOK' /\ cur' \in visited' \ todo'
    BY <2>1, <2>2 DEF SearchOK
  <2> QED BY <1>4, <2>3 DEF SetPending, GCGoto, store, found
<1>5. CASE TopoSort
  <2>1. SearchOK /\ gcpc = "bfs" /\ todo = {}
    BY <1>5 DEF TopoSort
  <2>2. visited \cap Kept = {}
    BY <2>1, KeptSeparate DEF SearchOK
  <2> QED BY <1>5, <2>2 DEF TopoSort, GCGoto, store, found
<1> QED BY <1>1, <1>2, <1>3, <1>4, <1>5

(* The deletion, which takes only what was visited.                        *)
LEMMA DeletionKeepsKept ==
    ASSUME TypeInv, KeptOK,
           \/ SkipDead \/ KeepLateRoot \/ StartDelete \/ Invalidate \/ PathInUse
           \/ DeleteFromStore \/ LimitReached \/ ClosureDone
    PROVE  KeptOK'
<1> USE DEF KeptOK, Sweeping, Deleting
<1>1. CASE SkipDead \/ PathInUse \/ ClosureDone
  BY <1>1 DEF SkipDead, PathInUse, ClosureDone, GCGoto, store, search, found
<1>2. CASE KeepLateRoot \/ StartDelete
  <2>1. PICK x \in rest : rest' = rest \ {x} /\ dead' = dead \cup {x} /\ (gcpc' \in Deleting => cur' = x)
    BY <1>2 DEF KeepLateRoot, StartDelete
  <2>2. gcpc = "delete" /\ gcpc' \in {"delete", "invalidate"} /\ UNCHANGED <<valid, disk, visited, roots, cache>>
    BY <1>2 DEF KeepLateRoot, StartDelete, GCGoto, store
  <2> QED BY <2>1, <2>2
<1>3. CASE Invalidate
  <2>1. cur \in visited /\ visited \cap Kept = {}
    BY <1>3 DEF Invalidate
  <2> QED BY <1>3, <2>1 DEF Invalidate, GCGoto, search, found
<1>4. CASE DeleteFromStore \/ LimitReached
  <2>1. cur \in visited /\ visited \cap Kept = {} /\ disk' = disk \ {cur} /\ UNCHANGED <<valid, roots, dead, search>>
    BY <1>4 DEF DeleteFromStore, LimitReached, found
  <2>2. \A y \in Paths : cache'[y] # {NoPath} => {z \in Kept : y \in Refs[z]} \subseteq cache'[y]
    BY <1>4 DEF DeleteFromStore, LimitReached, found, TypeInv, TypeOK, CollectorTypeOK
  <2>3. gcpc' \in {"delete", "limit"} /\ gcpc = "unlink"
    BY <1>4 DEF DeleteFromStore, LimitReached, GCGoto
  <2> QED BY <2>1, <2>2, <2>3 DEF search
<1> QED BY <1>1, <1>2, <1>3, <1>4

LEMMA StepKeepsKept ==
    ASSUME TypeInv, KeptOK, [Next]_vars
    PROVE  KeptOK'
<1>1. ASSUME NEW t \in Threads, AddTempRoot(t) \/ ClientStep(t) PROVE KeptOK'
  <2>1. UNCHANGED <<gcpc, search, found>>
    BY <1>1, ClientsLeaveCollector DEF collector
  <2>2. valid \subseteq valid' /\ disk \subseteq disk'
    BY <1>1 DEF store, AddTempRoot, ClientStep, TryGCLock, Connect, Send, Disconnected, GotAck, Record, Release, IsValid, RestorePath, Register
  <2> QED BY <2>1, <2>2, GrowthKeepsKept
<1>2. ASSUME NEW t \in Threads, ServerStep(t) PROVE KeptOK'
  BY <1>2, GrowthKeepsKept DEF ServerStep, ServerReceive, ServerAck, store, collector
<1>3. ASSUME NEW p \in Procs, Exit(p) PROVE KeptOK'
  BY <1>3, GrowthKeepsKept DEF Exit, store, collector
<1>4. CASE GCLock \/ StartServer \/ FindTempRoots \/ EndOfDirectory \/ StopServer
  <2>1. gcpc' \notin Sweeping /\ UNCHANGED <<store, search, dead, cache>>
    BY <1>4 DEF GCLock, StartServer, FindTempRoots, EndOfDirectory, StopServer, GCGoto, found, Sweeping
  <2> QED BY <2>1 DEF KeptOK, Sweeping, Deleting, store
<1>5. CASE OpenStoreDir
  BY <1>5 DEF OpenStoreDir, PermanentRoots, GCGoto, store, search, KeptOK, Deleting
<1>6. CASE GCUnlock \/ GCKilled
  BY <1>6 DEF GCUnlock, GCKilled, Forget, NoCache, GCGoto, store, KeptOK, Sweeping, Deleting
<1>7. CASE UNCHANGED vars
  BY <1>7, GrowthKeepsKept DEF vars, store, collector
<1> QED BY <1>1, <1>2, <1>3, <1>4, <1>5, <1>6, <1>7, VisitKeepsKept, SearchKeepsKept, DeletionKeepsKept DEF Next, GCStep

(* Nothing that a permanent root needs is ever collected, whatever the     *)
(* clients do, however many threads share a descriptor and however many    *)
(* collectors run or are killed: the search of the referrers of such a     *)
(* path always ends at the root, although it works on cached referrers.    *)
THEOREM PermanentRootsKeptHolds == Spec => []PermanentRootsKept
<1> DEFINE I == TypeInv /\ KeptOK
<1>1. Init => I
  <2> SUFFICES ASSUME Init PROVE KeptOK
    BY InitTypes
  <2>1. Kept \subseteq valid \cap disk
    BY KeptValid, ConstantsAssumption DEF Init
  <2> QED BY <2>1 DEF Init, NoCache, KeptOK, Sweeping, Deleting
<1>2. I /\ [Next]_vars => I'
  BY StepKeepsTypes, StepKeepsKept
<1>3. I => PermanentRootsKept
  BY DEF KeptOK, Kept, PermanentRootsKept
<1> QED BY <1>1, <1>2, <1>3, PTL DEF Spec

=============================================================================
