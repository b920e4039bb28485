-------------------------- MODULE GarbageCollector --------------------------
(***************************************************************************)
(* The garbage collector of a local store and the clients that run beside  *)
(* it (libstore/gc.cc, with LocalStore::addToStore and                     *)
(* invalidatePathChecked of libstore/local-store.cc).                      *)
(*                                                                         *)
(* A client protects a path with addTempRoot before it looks at it.  If no *)
(* collector runs, it holds gc.lock shared while it appends the path to    *)
(* its temporary-roots file; otherwise it sends the path to the            *)
(* collector's socket and waits for the acknowledgement.  The collector    *)
(* takes gc.lock exclusively, reads all roots, and deletes, per store      *)
(* entry, the closure of referrers if no root is in it.                    *)
(*                                                                         *)
(* A store path is identified with its hash part.  References are those of *)
(* the static relation Refs; a path is in the database (valid), has files  *)
(* in the store directory (disk), both, or neither.                        *)
(***************************************************************************)
EXTENDS Naturals, FiniteSets

CONSTANTS
    Threads,        \* threads that call addTempRoot and addToStore
    Procs,          \* processes, each with one LocalStore object
    ProcOf,         \* ProcOf[t]: the process of thread t
    Paths,          \* store paths
    Refs,           \* Refs[x]: the references of x
    Deriver,        \* Deriver[x]: the derivation that made x, or NoPath
    KeepOutputs,    \* the settings keep-outputs and keep-derivations
    KeepDerivations,
    Roots,          \* permanent roots
    InitValid,      \* valid at the start
    InitDisk,       \* present in the store directory at the start
    NoPath,
    MaxGC,          \* bound: number of collector runs
    MaxExits        \* bound: number of client processes that go away

ASSUME ConstantsAssumption ==
    /\ ProcOf \in [Threads -> Procs]
    /\ Refs \in [Paths -> SUBSET Paths]
    /\ Deriver \in [Paths -> Paths \cup {NoPath}]
    /\ NoPath \notin Paths
    /\ KeepOutputs \in BOOLEAN /\ KeepDerivations \in BOOLEAN
    /\ Roots \subseteq Paths
    /\ InitValid \subseteq InitDisk /\ InitDisk \subseteq Paths
    /\ \A x \in InitValid : Refs[x] \subseteq InitValid
    /\ MaxGC \in Nat /\ MaxExits \in Nat

VARIABLES
    \* the store
    valid,      \* the paths in the ValidPaths table
    disk,       \* the entries of the store directory
    \* the clients
    shared,     \* the processes whose _fdGCLock has gc.lock shared
    pc,         \* pc[t]: where thread t is
    arg,        \* arg[t]: the path it is working on
    acquired,   \* the threads whose FdLock got the lock
    sock,       \* sock[p]: the state of _fdRootsSocket
    sockMutex,  \* sockMutex[p]: the thread inside the Sync of _fdRootsSocket
    msg,        \* msg[t]: t's root on its way to the collector
    tempFile,   \* tempFile[p]: the contents of the temporary-roots file
    uses,       \* uses[p]: the paths p protected and then found valid or made
    exits,      \* number of processes that went away
    \* the collector: its place, number of runs, shared and local variables
    gcpc, runs,
    server,     \* the roots socket accepts connections
    scanned,    \* the files findTempRoots has read
    roots,
    tempRoots,  \* Shared::tempRoots
    pending,    \* Shared::pending
    entries,    \* directory entries still to come
    start,      \* the argument of maybeDeleteReferrersClosure
    visited, todo,
    cur,        \* the path being visited or deleted
    rest,       \* what is left of topoSortPaths(visited)
    sorted,     \* the visited paths whose references topoSortPaths saw
    alive, dead,
    cache       \* referrersCache; {NoPath} stands for a missing entry

store == <<valid, disk>>
sockets == <<sock, sockMutex, msg>>
clients == <<shared, pc, arg, acquired, sockets, tempFile, uses, exits>>
found == <<roots, alive, dead, cache>>
search == <<start, visited, todo, cur, rest, sorted>>
collector == <<gcpc, runs, server, scanned, tempRoots, pending, entries, search, found>>
vars == <<store, clients, collector>>

ClientLabels == {"idle", "gclock", "connect", "send", "await", "record",
                 "release", "isvalid", "restore", "register"}
GCLabels == {"off", "locked", "scan", "sweep", "bfs", "visit", "delete",
             "invalidate", "unlink", "stop", "limit", "unlock"}
MsgStates == {"none", "sent", "received", "waiting", "acked"}

NoCache == [x \in Paths |-> {NoPath}]

ClientTypeOK ==
    /\ shared \subseteq Procs
    /\ pc \in [Threads -> ClientLabels]
    /\ arg \in [Threads -> Paths \cup {NoPath}]
    /\ acquired \subseteq Threads
    /\ sock \in [Procs -> {"closed", "open", "dead"}]
    /\ sockMutex \in [Procs -> Threads \cup {NoPath}]
    /\ msg \in [Threads -> MsgStates]
    /\ tempFile \in [Procs -> SUBSET Paths]
    /\ uses \in [Procs -> SUBSET Paths]
    /\ exits \in 0..MaxExits

CollectorTypeOK ==
    /\ gcpc \in GCLabels /\ runs \in 0..MaxGC
    /\ server \in BOOLEAN /\ scanned \subseteq Procs
    /\ roots \subseteq Paths /\ tempRoots \subseteq Paths
    /\ pending \in Paths \cup {NoPath}
    /\ entries \subseteq Paths
    /\ start \in Paths \cup {NoPath} /\ cur \in Paths \cup {NoPath}
    /\ visited \subseteq Paths /\ todo \subseteq Paths
    /\ rest \subseteq Paths /\ sorted \subseteq Paths
    /\ alive \subseteq Paths /\ dead \subseteq Paths
    /\ cache \in [Paths -> (SUBSET Paths) \cup {{NoPath}}]

TypeOK ==
    /\ valid \subseteq Paths /\ disk \subseteq Paths
    /\ ClientTypeOK /\ CollectorTypeOK

Init ==
    /\ valid = InitValid /\ disk = InitDisk
    /\ shared = {} /\ acquired = {}
    /\ pc = [t \in Threads |-> "idle"]
    /\ arg = [t \in Threads |-> NoPath]
    /\ sock = [p \in Procs |-> "closed"]
    /\ sockMutex = [p \in Procs |-> NoPath]
    /\ msg = [t \in Threads |-> "none"]
    /\ tempFile = [p \in Procs |-> {}]
    /\ uses = [p \in Procs |-> {}]
    /\ exits = 0
    /\ gcpc = "off" /\ runs = 0 /\ server = FALSE
    /\ scanned = {} /\ tempRoots = {} /\ pending = NoPath /\ entries = {}
    /\ start = NoPath /\ visited = {} /\ todo = {} /\ cur = NoPath
    /\ rest = {} /\ sorted = {}
    /\ roots = {} /\ alive = {} /\ dead = {} /\ cache = NoCache

-----------------------------------------------------------------------------
(* The edges of the store's graphs. *)

Referrers(x) == {y \in valid : x \in Refs[y]}

(* Deriver stands for two relations of the database, the deriver field of  *)
(* a path and the outputs of a derivation, which are taken to agree.       *)
Outputs(x) == {y \in valid : Deriver[y] = x}

(* One step of computeFSClosure from Y over the valid paths S, with        *)
(* includeOutputs and includeDerivers set as in markAlive.  A path that is *)
(* not valid leads nowhere: markAlive catches InvalidPath.                 *)
Deps(Y, S) ==
    (UNION {Refs[y] : y \in Y \cap S})
    \cup {x \in S : KeepOutputs /\ Deriver[x] \in Y \cap S}
    \cup {x \in S : KeepDerivations /\ \E y \in Y \cap S : Deriver[y] = x}

(* computeFSClosure({x}): the least set with x that is closed under Deps.  *)
Closure(x, S) ==
    {y \in Paths : \A Y \in SUBSET Paths : x \in Y /\ Deps(Y, S) \subseteq Y => y \in Y}

(* Mutant: the deriver is followed without a look into the database.       *)
EdgesUnchecked(x, referrers) ==
    referrers
    \cup (IF KeepDerivations THEN Outputs(x) ELSE {})
    \cup (IF KeepOutputs THEN {Deriver[x]} ELSE {})

(* What the search goes on to from x: the cached referrers, the outputs    *)
(* with keep-derivations, the derivers with keep-outputs.                  *)
Edges(x, referrers) ==
    referrers
    \cup (IF KeepDerivations THEN Outputs(x) ELSE {})
    \cup (IF KeepOutputs THEN {Deriver[x]} \cap valid ELSE {})

-----------------------------------------------------------------------------
(* The clients.  addTempRoot(x) is called before x is used or made.        *)

Goto(t, label) == pc' = [pc EXCEPT ![t] = label]

AddTempRoot(t) ==
    /\ pc[t] = "idle"
    /\ \E x \in Paths \ uses[ProcOf[t]] : arg' = [arg EXCEPT ![t] = x]
    /\ Goto(t, "gclock")
    /\ UNCHANGED <<store, shared, acquired, sockets, tempFile, uses, exits, collector>>

(* FdLock gcLock(fd, ltRead, false).  The descriptor is shared by all      *)
(* threads of the process, and flock() grants it what it already has.      *)
TryGCLock(t) ==
    /\ pc[t] = "gclock"
    /\ \/ /\ gcpc = "off"
          /\ shared' = shared \cup {ProcOf[t]}
          /\ acquired' = acquired \cup {t}
          /\ Goto(t, "record")
       \/ /\ gcpc # "off"
          /\ Goto(t, "connect")
          /\ UNCHANGED <<shared, acquired>>
    /\ UNCHANGED <<store, arg, sockets, tempFile, uses, exits, collector>>

(* Lock the Sync of _fdRootsSocket and connect unless that was done before.*)
(* When the connection is refused, the call restarts.                      *)
Connect(t) ==
    LET p == ProcOf[t] IN
    /\ pc[t] = "connect"
    /\ sockMutex[p] = NoPath
    /\ \/ /\ sock[p] # "closed" \/ server
          /\ sock' = [sock EXCEPT ![p] = IF @ = "closed" THEN "open" ELSE @]
          /\ sockMutex' = [sockMutex EXCEPT ![p] = t]
          /\ Goto(t, "send")
       \/ /\ sock[p] = "closed" /\ ~server
          /\ Goto(t, "gclock")
          /\ UNCHANGED <<sock, sockMutex>>
    /\ UNCHANGED <<store, shared, arg, acquired, msg, tempFile, uses, exits, collector>>

(* writeFull(fdRootsSocket, path) *)
Send(t) ==
    /\ pc[t] = "send"
    /\ sock[ProcOf[t]] = "open"
    /\ msg' = [msg EXCEPT ![t] = "sent"]
    /\ Goto(t, "await")
    /\ UNCHANGED <<store, shared, arg, acquired, sock, sockMutex, tempFile, uses, exits, collector>>

(* EPIPE, ECONNRESET or end of file: the collector is gone, restart.       *)
Disconnected(t) ==
    LET p == ProcOf[t] IN
    /\ pc[t] \in {"send", "await"}
    /\ sock[p] = "dead" /\ msg[t] # "acked"
    /\ sock' = [sock EXCEPT ![p] = "closed"]
    /\ sockMutex' = [sockMutex EXCEPT ![p] = NoPath]
    /\ msg' = [msg EXCEPT ![t] = "none"]
    /\ Goto(t, "gclock")
    /\ UNCHANGED <<store, shared, arg, acquired, tempFile, uses, exits, collector>>

(* readFull(fdRootsSocket, &c, 1) *)
GotAck(t) ==
    /\ pc[t] = "await"
    /\ msg[t] = "acked"
    /\ sockMutex' = [sockMutex EXCEPT ![ProcOf[t]] = NoPath]
    /\ msg' = [msg EXCEPT ![t] = "none"]
    /\ Goto(t, "record")
    /\ UNCHANGED <<store, shared, arg, acquired, sock, tempFile, uses, exits, collector>>

(* writeFull(_fdTempRoots, path) *)
Record(t) ==
    /\ pc[t] = "record"
    /\ tempFile' = [tempFile EXCEPT ![ProcOf[t]] = @ \cup {arg[t]}]
    /\ Goto(t, "release")
    /\ UNCHANGED <<store, shared, arg, acquired, sockets, uses, exits, collector>>

(* ~FdLock: LOCK_UN on the descriptor if this call acquired the lock.      *)
Release(t) ==
    /\ pc[t] = "release"
    /\ shared' = IF t \in acquired THEN shared \ {ProcOf[t]} ELSE shared
    /\ acquired' = acquired \ {t}
    /\ Goto(t, "isvalid")
    /\ UNCHANGED <<store, arg, sockets, tempFile, uses, exits, collector>>

(* isValidPath after the root is in place.  A thread that finds the path   *)
(* missing makes it (addToStore) if it protects the references, and gives  *)
(* up otherwise.                                                           *)
IsValid(t) ==
    LET p == ProcOf[t]
        x == arg[t] IN
    /\ pc[t] = "isvalid"
    /\ \/ /\ x \in valid
          /\ uses' = [uses EXCEPT ![p] = @ \cup {x}]
          /\ Goto(t, "idle")
       \/ /\ x \notin valid
          /\ UNCHANGED uses
          /\ Goto(t, IF Refs[x] \subseteq uses[p] \cup {x} THEN "restore" ELSE "idle")
    /\ UNCHANGED <<store, shared, arg, acquired, sockets, tempFile, exits, collector>>

(* addToStore: the output lock admits one thread per path, which checks    *)
(* again, deletes what is there and restores the path from the archive.    *)
RestorePath(t) ==
    /\ pc[t] = "restore"
    /\ \A u \in Threads : ~(pc[u] = "register" /\ arg[u] = arg[t])
    /\ \/ /\ arg[t] \in valid
          /\ UNCHANGED disk
          /\ uses' = [uses EXCEPT ![ProcOf[t]] = @ \cup {arg[t]}]
          /\ Goto(t, "idle")
       \/ /\ arg[t] \notin valid
          /\ disk' = disk \cup {arg[t]}
          /\ UNCHANGED uses
          /\ Goto(t, "register")
    /\ UNCHANGED <<valid, shared, arg, acquired, sockets, tempFile, exits, collector>>

(* registerValidPath: the transaction fails if a reference is not valid.   *)
Register(t) ==
    LET x == arg[t] IN
    /\ pc[t] = "register"
    /\ \/ /\ Refs[x] \subseteq valid \cup {x}
          /\ valid' = valid \cup {x}
          /\ uses' = [uses EXCEPT ![ProcOf[t]] = @ \cup {x}]
       \/ /\ ~(Refs[x] \subseteq valid \cup {x})
          /\ UNCHANGED <<valid, uses>>
    /\ Goto(t, "idle")
    /\ UNCHANGED <<disk, shared, arg, acquired, sockets, tempFile, exits, collector>>

(* A process ends, at any point: its descriptors are closed, and the next  *)
(* collector removes its temporary-roots file without reading it.          *)
Exit(p) ==
    LET Mine(t) == ProcOf[t] = p IN
    /\ exits < MaxExits
    /\ exits' = exits + 1
    /\ shared' = shared \ {p}
    /\ acquired' = {t \in acquired : ~Mine(t)}
    /\ pc' = [t \in Threads |-> IF Mine(t) THEN "idle" ELSE pc[t]]
    /\ msg' = [t \in Threads |-> IF Mine(t) THEN "none" ELSE msg[t]]
    /\ sock' = [sock EXCEPT ![p] = "closed"]
    /\ sockMutex' = [sockMutex EXCEPT ![p] = NoPath]
    /\ tempFile' = [tempFile EXCEPT ![p] = {}]
    /\ uses' = [uses EXCEPT ![p] = {}]
    /\ UNCHANGED <<store, arg, collector>>

-----------------------------------------------------------------------------
(* The threads of the roots server. *)

(* readLine, then under the Shared mutex: tempRoots.emplace(hashPart).     *)
ServerReceive(t) ==
    /\ server
    /\ msg[t] = "sent"
    /\ tempRoots' = tempRoots \cup {arg[t]}
    /\ msg' = [msg EXCEPT ![t] = "received"]
    /\ UNCHANGED <<store, shared, pc, arg, acquired, sock, sockMutex, tempFile, uses, exits,
                   gcpc, runs, server, scanned, pending, entries, search, found>>

(* Mutant: the server acknowledges a root that is being deleted. *)
IsPendingNever(x) == FALSE

(* The path to be deleted is the client's: Shared::pending. *)
IsPending(x) == pending = x

(* while (pending == hashPart) wait(wakeup); then the acknowledgement.     *)
ServerAck(t) ==
    /\ server
    /\ msg[t] = "received"
    /\ msg' = [msg EXCEPT ![t] = IF IsPending(arg[t]) THEN "waiting" ELSE "acked"]
    /\ UNCHANGED <<store, shared, pc, arg, acquired, sock, sockMutex, tempFile, uses, exits,
                   collector>>

(* wakeup.notify_all(): every waiting thread looks at `pending` again.     *)
NotifyAll ==
    msg' = [t \in Threads |-> IF msg[t] = "waiting" THEN "received" ELSE msg[t]]

-----------------------------------------------------------------------------
(* The collector: collectGarbage with WholeStore and gcDeleteDead.         *)

GCGoto(label) == gcpc' = label

(* FdLock gcLock(fdGCLock, ltWrite, true) *)
GCLock ==
    /\ gcpc = "off"
    /\ runs < MaxGC
    /\ shared = {}
    /\ runs' = runs + 1
    /\ GCGoto("locked")
    /\ UNCHANGED <<store, clients, server, scanned, tempRoots, pending, entries, search, found>>

(* createUnixDomainSocket and the server thread. *)
StartServer ==
    /\ gcpc = "locked"
    /\ server' = TRUE
    /\ GCGoto("scan")
    /\ UNCHANGED <<store, clients, runs, scanned, tempRoots, pending, entries, search, found>>

(* findTempRoots reads one file after the other. *)
FindTempRoots ==
    /\ gcpc = "scan"
    /\ \E p \in Procs \ scanned :
          /\ scanned' = scanned \cup {p}
          /\ tempRoots' = tempRoots \cup tempFile[p]
          /\ roots' = roots \cup tempFile[p]
    /\ UNCHANGED <<store, clients, gcpc, runs, server, pending, entries, search, alive, dead, cache>>

(* Mutant: the permanent roots are not looked for. *)
PermanentRootsIgnored == {}

(* findRootsNoTemp: what the links below gcroots and profiles lead to.     *)
PermanentRoots == Roots

(* The roots are complete (the permanent ones cannot grow meanwhile), and  *)
(* the store directory is opened.                                          *)
OpenStoreDir ==
    /\ gcpc = "scan"
    /\ scanned = Procs
    /\ roots' = roots \cup PermanentRoots
    /\ entries' = disk
    /\ GCGoto("sweep")
    /\ UNCHANGED <<store, clients, runs, server, scanned, tempRoots, pending, search, alive, dead, cache>>

(* readdir: maybeDeleteReferrersClosure of the next entry. *)
NextEntry ==
    /\ gcpc = "sweep"
    /\ \E x \in entries :
          /\ entries' = entries \ {x}
          /\ start' = x
          /\ visited' = {x} /\ todo' = {x}
    /\ GCGoto("bfs")
    /\ UNCHANGED <<store, clients, runs, server, scanned, tempRoots, pending, cur, rest, sorted, found>>

EndOfDirectory ==
    /\ gcpc = "sweep"
    /\ entries = {}
    /\ GCGoto("stop")
    /\ UNCHANGED <<store, clients, runs, server, scanned, tempRoots, pending, entries, search, found>>

(* Mutant: the waiters are woken, but `pending` stays. *)
ReleasePendingKept ==
    /\ UNCHANGED pending
    /\ NotifyAll

(* `Finally releasePending` of maybeDeleteReferrersClosure. *)
ReleasePending ==
    /\ pending' = NoPath
    /\ NotifyAll

(* The search meets x, which is alive, a root or a temporary root: the     *)
(* closure of x (markAlive) and the start are alive, and nothing is        *)
(* deleted.                                                                *)
FoundAlive ==
    /\ gcpc = "bfs"
    /\ \E x \in todo :
          \/ /\ x \in alive
             /\ alive' = alive \cup {start}
          \/ /\ x \notin alive \cup dead
             /\ x \in roots \cup tempRoots
             /\ alive' = alive \cup {start} \cup Closure(x, valid)
    /\ ReleasePending
    /\ GCGoto("sweep")
    /\ UNCHANGED <<store, shared, pc, arg, acquired, sock, sockMutex, tempFile, uses, exits,
                   runs, server, scanned, tempRoots, entries, search, roots, dead, cache>>

(* The search meets a path deleted before. *)
FoundDead ==
    /\ gcpc = "bfs"
    /\ \E x \in (todo \cap dead) \ alive : todo' = todo \ {x}
    /\ UNCHANGED <<store, clients, gcpc, runs, server, scanned, tempRoots, pending, entries,
                   start, visited, cur, rest, sorted, found>>

(* None of those: under the Shared mutex, x becomes the pending path.      *)
SetPending ==
    /\ gcpc = "bfs"
    /\ \E x \in todo \ (alive \cup dead \cup roots \cup tempRoots) :
          /\ todo' = todo \ {x}
          /\ cur' = x
          /\ pending' = x
    /\ GCGoto("visit")
    /\ UNCHANGED <<store, clients, runs, server, scanned, tempRoots, entries,
                   start, visited, rest, sorted, found>>

(* A valid path leads to its referrers, cached from the first visit.       *)
VisitEdges ==
    /\ gcpc = "visit"
    /\ \/ /\ cur \notin valid
          /\ UNCHANGED <<visited, todo, cache>>
       \/ /\ cur \in valid
          /\ cache' = [cache EXCEPT ![cur] = IF @ = {NoPath} THEN Referrers(cur) ELSE @]
          /\ visited' = visited \cup Edges(cur, cache'[cur])
          /\ todo' = todo \cup (Edges(cur, cache'[cur]) \ visited)
    /\ GCGoto("bfs")
    /\ UNCHANGED <<store, clients, runs, server, scanned, tempRoots, pending, entries,
                   start, cur, rest, sorted, roots, alive, dead>>

(* The queue is empty: topoSortPaths(visited) reads the references of the  *)
(* visited paths that are valid now.                                       *)
TopoSort ==
    /\ gcpc = "bfs"
    /\ todo = {}
    /\ rest' = visited
    /\ sorted' = visited \cap valid
    /\ GCGoto("delete")
    /\ UNCHANGED <<store, clients, runs, server, scanned, tempRoots, pending, entries,
                   start, visited, todo, cur, found>>

(* Mutant: references are sorted before their referrers. *)
IsFirstReversed(x) == x \in rest /\ \A y \in (rest \cap sorted) \ {x} : y \notin Refs[x]

(* x comes next: referrers are sorted before what they refer to.           *)
IsFirst(x) == x \in rest /\ \A y \in (rest \cap sorted) \ {x} : x \notin Refs[y]

(* A path in `dead` is skipped.  *)
SkipDead ==
    /\ gcpc = "delete"
    /\ \E x \in rest \cap dead :
          /\ IsFirst(x)
          /\ rest' = rest \ {x}
    /\ UNCHANGED <<store, clients, gcpc, runs, server, scanned, tempRoots, pending, entries,
                   start, visited, todo, cur, sorted, found>>

(* Mutant: only the search looks at tempRoots. *)
BecameTempRootUnchecked(x) == FALSE

(* The second look at tempRoots, under the Shared mutex.                   *)
BecameTempRoot(x) == x \in tempRoots

(* A path that became a temporary root stays; markAlive.                   *)
KeepLateRoot ==
    /\ gcpc = "delete"
    /\ \E x \in rest \ dead :
          /\ IsFirst(x) /\ BecameTempRoot(x)
          /\ rest' = rest \ {x}
          /\ dead' = dead \cup {x}
          /\ alive' = alive \cup Closure(x, valid)
    /\ UNCHANGED <<store, clients, gcpc, runs, server, scanned, tempRoots, pending, entries,
                   start, visited, todo, cur, sorted, roots, cache>>

(* The path is to be deleted: it becomes the pending path again.           *)
StartDelete ==
    /\ gcpc = "delete"
    /\ \E x \in rest \ dead :
          /\ IsFirst(x) /\ ~BecameTempRoot(x)
          /\ rest' = rest \ {x}
          /\ dead' = dead \cup {x}
          /\ cur' = x
          /\ pending' = x
    /\ GCGoto("invalidate")
    /\ UNCHANGED <<store, clients, runs, server, scanned, tempRoots, entries,
                   start, visited, todo, sorted, roots, alive, cache>>

(* Mutant: invalidatePath without the check. *)
InUseUnchecked(x) == FALSE

(* Mutant: a path that refers to itself is taken to be in use. *)
InUseBySelf(x) == x \in valid /\ Referrers(x) # {}

(* invalidatePathChecked: the referrers that forbid the deletion.          *)
InUse(x) == x \in valid /\ Referrers(x) \ {x} # {}

(* invalidatePathChecked removes the path from the database...             *)
Invalidate ==
    /\ gcpc = "invalidate"
    /\ ~InUse(cur)
    /\ valid' = valid \ {cur}
    /\ GCGoto("unlink")
    /\ UNCHANGED <<disk, clients, runs, server, scanned, tempRoots, pending, entries, search, found>>

(* ... or throws PathInUse, which is reported as a bug and ignored.        *)
PathInUse ==
    /\ gcpc = "invalidate"
    /\ InUse(cur)
    /\ ReleasePending
    /\ GCGoto("delete")
    /\ UNCHANGED <<store, shared, pc, arg, acquired, sock, sockMutex, tempFile, uses, exits,
                   runs, server, scanned, tempRoots, entries, search, found>>

(* deleteFromStore, referrersCache.erase and `Finally resetPending`.       *)
DeleteFromStore ==
    /\ gcpc = "unlink"
    /\ disk' = disk \ {cur}
    /\ cache' = [cache EXCEPT ![cur] = {NoPath}]
    /\ ReleasePending
    /\ GCGoto("delete")
    /\ UNCHANGED <<valid, shared, pc, arg, acquired, sock, sockMutex, tempFile, uses, exits,
                   runs, server, scanned, tempRoots, entries, search, roots, alive, dead>>

(* deleteFromStore freed more than maxFreed: GCLimitReached ends the sweep.*)
LimitReached ==
    /\ gcpc = "unlink"
    /\ disk' = disk \ {cur}
    /\ ReleasePending
    /\ GCGoto("limit")
    /\ UNCHANGED <<valid, shared, pc, arg, acquired, sock, sockMutex, tempFile, uses, exits,
                   runs, server, scanned, tempRoots, entries, search, found>>

(* All visited paths are done: `Finally releasePending`.                   *)
ClosureDone ==
    /\ gcpc = "delete"
    /\ rest = {}
    /\ ReleasePending
    /\ GCGoto("sweep")
    /\ UNCHANGED <<store, shared, pc, arg, acquired, sock, sockMutex, tempFile, uses, exits,
                   runs, server, scanned, tempRoots, entries, search, found>>

(* What the end of the server means to a client: its socket is dead, and a *)
(* root without an acknowledgement never gets one.                         *)
SocketsDie ==
    /\ sock' = [p \in Procs |-> IF sock[p] = "open" THEN "dead" ELSE sock[p]]
    /\ msg' = [t \in Threads |-> IF msg[t] = "acked" THEN "acked" ELSE "none"]
    /\ server' = FALSE

(* `Finally stopServer`: notify_all lets every waiter look at `pending`    *)
(* again, and the server thread, which joins their threads, is joined ...  *)
StopServer ==
    /\ gcpc \in {"stop", "limit"}
    /\ \A t \in Threads : msg[t] \in {"received", "waiting"} => ~IsPending(arg[t])
    /\ SocketsDie
    /\ GCGoto("unlock")
    /\ UNCHANGED <<store, shared, pc, arg, acquired, sockMutex, tempFile, uses, exits,
                   runs, scanned, tempRoots, pending, entries, search, found>>

Forget ==
    /\ scanned' = {} /\ tempRoots' = {} /\ pending' = NoPath /\ entries' = {}
    /\ start' = NoPath /\ visited' = {} /\ todo' = {} /\ cur' = NoPath
    /\ rest' = {} /\ sorted' = {}
    /\ roots' = {} /\ alive' = {} /\ dead' = {} /\ cache' = NoCache

(* ... before the collector's own descriptor of gc.lock is closed, which   *)
(* gives the lock back.                                                    *)
GCUnlock ==
    /\ gcpc = "unlock"
    /\ Forget
    /\ GCGoto("off")
    /\ UNCHANGED <<store, clients, runs, server>>

(* The collector is killed. *)
GCKilled ==
    /\ gcpc \notin {"off", "unlock"}
    /\ SocketsDie
    /\ Forget
    /\ GCGoto("off")
    /\ UNCHANGED <<store, shared, pc, arg, acquired, sockMutex, tempFile, uses, exits, runs>>

-----------------------------------------------------------------------------
ClientStep(t) ==
    \/ TryGCLock(t) \/ Connect(t) \/ Send(t) \/ Disconnected(t) \/ GotAck(t)
    \/ Record(t) \/ Release(t) \/ IsValid(t) \/ RestorePath(t) \/ Register(t)

ServerStep(t) == ServerReceive(t) \/ ServerAck(t)

GCStep ==
    \/ StartServer \/ FindTempRoots \/ OpenStoreDir \/ NextEntry \/ EndOfDirectory
    \/ FoundAlive \/ FoundDead \/ SetPending \/ VisitEdges \/ TopoSort
    \/ SkipDead \/ KeepLateRoot \/ StartDelete \/ Invalidate \/ PathInUse
    \/ DeleteFromStore \/ ClosureDone \/ StopServer \/ GCUnlock

Next ==
    \/ \E t \in Threads : AddTempRoot(t) \/ ClientStep(t) \/ ServerStep(t)
    \/ \E p \in Procs : Exit(p)
    \/ GCLock \/ GCStep \/ LimitReached \/ GCKilled

Spec == Init /\ [][Next]_vars

(* Threads of clients, of the server and of the collector keep running;    *)
(* nobody has to call addTempRoot, start a collection, exit or be killed.  *)
Fairness ==
    /\ \A t \in Threads : WF_vars(ClientStep(t)) /\ WF_vars(ServerStep(t))
    /\ WF_vars(GCStep)

FairSpec == Spec /\ Fairness

(* A thread has the acknowledgement of a collector, but its root is not in *)
(* its file yet.                                                           *)
Unrecorded(t) == msg[t] = "acked" \/ (pc[t] = "record" /\ t \notin acquired)

(* The behaviours in which no collector takes gc.lock at such a moment:    *)
(* gc.lock does not keep it from that, see the run gc_twice.               *)
CalmNext == Next /\ (GCLock => \A t \in Threads : ~Unrecorded(t))

CalmSpec == Init /\ [][CalmNext]_vars

-----------------------------------------------------------------------------
(* A path that a live process protected with addTempRoot and then found    *)
(* valid, or made, stays in the database and on disk, whatever collectors  *)
(* run meanwhile ("Any new roots will be sent to our socket").             *)
RootsHonoured ==
    \A p \in Procs : uses[p] \subseteq valid \cap disk

(* What a thread is restoring under a temporary root is not deleted before *)
(* it is registered (the purpose of Shared::pending).                      *)
CreationUndisturbed ==
    \A t \in Threads : pc[t] = "register" => arg[t] \in disk

(* The references of a valid path are valid: collectors delete referrers   *)
(* first and in transactions, and registration checks the references.      *)
StoreClosed == \A x \in valid : Refs[x] \subseteq valid

(* A valid path is on disk: the collector removes it from the database     *)
(* first, and never deletes the files of a path that is valid again.       *)
ValidOnDisk == valid \subseteq disk

(* The closure of a permanent root, with its derivers and outputs if the   *)
(* settings say so, is never collected (findRootsNoTemp, markAlive).       *)
PermanentRootsKept ==
    \A x \in Roots \cap InitValid : Closure(x, InitValid) \subseteq valid \cap disk

(* What some root protects: the closure of the roots the collector knows.  *)
Protected == UNION {Closure(x, valid) : x \in roots \cup tempRoots}

(* A sweep that was not cut short leaves no garbage: whatever it saw in    *)
(* the directory and is still there is protected by a root, or was made    *)
(* anew by a client (which then has a root).                               *)
GarbageCollected ==
    gcpc = "stop" => disk \ entries \subseteq Protected \cup UNION {uses[p] : p \in Procs}

(* What the collector has been told about, and what it marked alive.       *)
AllRoots == roots \cup tempRoots
Seeds == AllRoots \cup alive
Spared == UNION {Closure(x, valid) : x \in Seeds}

(* Whatever keep-outputs and keep-derivations say, a sweep that was not    *)
(* cut short leaves, of what it read in the directory, only paths in the   *)
(* closure of a root or of a path that was marked alive; or paths whose    *)
(* temporary root it has missed (see the run gc_twice), made anew.         *)
OnlySparedLeft ==
    gcpc = "stop" => disk \ entries \subseteq Spared \cup UNION {tempFile[p] : p \in Procs}

(* addTempRoot returns: no acknowledgement is forgotten, no waiter of      *)
(* Shared::pending is left asleep, and the restarts come to an end.        *)
AddTempRootReturns ==
    \A t \in Threads : pc[t] = "gclock" ~> pc[t] \in {"idle", "isvalid"}

=============================================================================
