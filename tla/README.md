# Verification of Nix's store and build core

Nix keeps build results in a *store* that many unprivileged processes, builders
and garbage collectors use at the same time, with nothing between them but files,
locks, a SQLite database and one socket. The protocols that make this safe are
in a few files of `src/src/libstore`; they are where interleavings, crashes and
lost wake-ups matter and where a test hardly reaches. This project specifies
these protocols in TLA+, checks them with TLC on small instances, and proves the
central properties with TLAPS for all instances.

## 1. The system

### 1.1 Inventory

| component | state it keeps | operations | talks to | what is hard | what makes it correct |
|---|---|---|---|---|---|
| path locks (`pathlocks.cc`) | lock files, open descriptors, flocks | lockPaths, unlock, setDeletion | every writer of a store path | lock files are deleted while others wait on them; kills; EINTR | one owner per path, no deadlock, nothing left locked |
| temporary roots (`gc.cc`: addTempRoot, createTempRootsFile, findTempRoots) | per-process roots file, gc.lock, roots socket | add a root, read or remove the files | collector, all clients | a root must reach a collector that may start, run or stop at any moment | a protected path is never collected |
| collector (`gc.cc`: collectGarbage) | roots, alive, dead, pending, referrersCache | find roots, search referrers, delete closures, roots server | clients over the socket, database | deletion races with late roots and with re-creation | store closed under references, protected paths kept, garbage gone |
| automatic collection (`gc.cc`: autoGC) | gcRunning, gcFuture | start a collector thread, wait for it | collector | exceptions in the thread, waiters | at most one collector thread, waiters return |
| store database (`local-store.cc`) | ValidPaths, Refs, DerivationOutputs, path-info cache | register, invalidate, query, verify, add to store | SQLite, path locks, temporary roots | transactions of several processes, roll-back, caches | references of valid paths are valid; a valid path is on disk |
| SQLite access (`sqlite.cc`) | connection, transactions | retrySQLite, SQLiteTxn | database | busy retries | all-or-nothing updates |
| build scheduler (`build/worker.cc`, `build/goal.cc`) | goals, waitees and waiters, awake set, children, slots | make goals, wake, run, waitForInput | builders, substituters | lost wake-ups, slot accounting, dead goals | every goal ends; the loop never runs dry; limits respected |
| goals (`build/*-goal.cc`) | one coroutine per goal | substitute, build, resolve | scheduler, path locks, store | retry after a wait, someone else built it meanwhile | result registered once, locks released |
| builders (`unix/build/*.cc`) | sandbox, child process, output | start, register outputs | scheduler, database | kernel facilities | - |
| build users (`unix/user-lock.cc`) | uid pool lock files | acquire, release | builders | exhaustion | one build per uid |
| remote builds (`nix/build-remote`) | per-machine slot locks | accept, upload, build, download | build hook | many hooks and machines | slot limits |
| daemon and worker protocol (`daemon.cc`, `remote-store.cc`, `worker-protocol*.cc`) | connection, versions, tunnelled logger | operations over a socket | clients | framing, interruption | answers match requests |
| substituters (`binary-cache-store.cc`, `nar-info*.cc`) | narinfo caches | query, download, upload | goals, file transfers | negative caches | - |
| file transfers (`filetransfer.cc`) | queue, active handles, buffers | download, retry, pause, unpause, stop | curl, callers, signals | two mutexes, a thread that may stop at any time, partial downloads | the sink gets the file, the callback comes once, every call ends |
| thread pool (`thread-pool.cc`) | pending and active items, workers | enqueue, process, shutdown, processGraph | store copies, closures | items enqueue items, exceptions, quiescence | dependencies first, each node once, the call ends |
| store optimiser (`optimise-store.cc`) | `.links` | hard-link equal files | collector | race with link removal | contents unchanged |
| profiles and permanent roots (`profiles.cc`, `indirect-root-store.cc`) | generation links | create, switch, delete generations | collector | crash between links | current generation kept |
| overlay store (`local-overlay-store.cc`) | lower and upper store | merge queries, delete | local store | whiteouts | - |
| utilities (`libutil`) | pools, signals, LRU caches | - | all | cancellation, quiescence | - |
| evaluator (`libexpr`), fetchers, flakes, CLI (`libfetchers`, `libflake`, `libcmd`, `nix`) | values, caches, lock files | evaluation and commands | store | mostly sequential | language semantics |

### 1.2 How the parts interact

A process that wants to use or make a store path first calls **addTempRoot**:
either no collector runs, then it holds `gc.lock` shared while it appends the
path to its own temporary-roots file; or one does, then it sends the path to the
collector's socket and waits for the acknowledgement, which the collector delays
while that very path is being deleted. Then it looks whether the path is valid.
If not, it takes the **path lock**, looks again, writes the files and registers
the path in the **database** in one transaction, which fails unless all
references are valid. The **collector** holds `gc.lock` exclusively, reads
permanent roots and temporary-roots files, and for every directory entry searches
the referrers; if no root is among them it deletes what it visited, referrers
first, each in a transaction that fails if a valid path still refers to it. A
**build** is a graph of goals run by one thread (the Worker): a goal that needs a
slot, a child's output, a lock or another goal suspends and is woken by it.
Copies between stores walk the closure with **processGraph** on a thread pool, and
what comes from a binary cache is a **download** into a sink: the calling thread
takes data from a buffer that the one curl thread fills.

### 1.3 Hard behaviour

Interleaving of processes and of threads of one process that share descriptors
and sockets; kills between two steps (unlink and token, files and registration,
database and files); waiting that must end (acknowledgements, slots, goals);
values read before a lock or a transaction and used after it (validity, cached
referrers, the path-info cache). `PROJECT.json` lists these hazards with
the line where each bites and the property that would catch it.

## 2. The modules

| module | models | extends / used by |
|---|---|---|
| `PathLocks` | `unix/pathlocks.cc`: lock files that are removed by their holders | `MCPathLocks`, `PathLocksProofs` |
| `TempRootsFile` | `gc.cc`: one temporary-roots file between its owner and a collector | `MCTempRootsFile`, `TempRootsFileProofs` |
| `GarbageCollector` | `gc.cc`: addTempRoot, the roots server and collectGarbage, with addToStore and invalidatePathChecked of `local-store.cc` | `MCGarbageCollector`, `GarbageCollectorProofs`, and `GarbageSweepProofs`, which extends the latter |
| `Worker` | `build/worker.cc`, `build/goal.cc` and the goals | `MCWorker`, `WorkerProofs` |
| `ThreadPool` | `thread-pool.cc`: workers, process(), shutdown() | `ProcessGraph` |
| `ProcessGraph` | `thread-pool.hh`: processGraph and its work items | extends `ThreadPool`; `MCProcessGraph`, `ProcessGraphProofs` |
| `GraphWalk` | `thread-pool.hh`: what processGraph promises (abstract) | implemented by `ProcessGraph` |
| `FileTransfer` | `filetransfer.cc`: download() into a sink, the worker thread, retries, pausing, interrupts | `MCFileTransfer`, `FileTransferProofs` |

`MC…` modules only define the constants of the instances; `…Proofs` modules hold
theorems and nothing else. Operators whose comment starts with "Mutant" are the
seeded mistakes that each property is known to catch (`PROJECT.json`, `mutants`);
no specification uses them. `PROJECT.json`, `map`, gives the source lines of each
definition.

### 2.1 PathLocks

A member of `Procs` is one `PathLocks` object with the thread that uses it. The
file system is `dir` (name to inode), `stale` (the inodes with the token "d") and
`flock` (who has an inode locked); the object's state is where it is (`pc`), the
paths it still has to lock (`todo`), the descriptor it is busy with (`cur`) and the
map `fds`. Each system call that others can observe is a step: `OpenLockFile`,
`TryLock`/`BlockedLock`, the `fstat` of `CheckStale`, and in `unlock()` the unlink
(`UnlockNext`), the token (`WriteToken`) and the `CloseLock`. Inodes are reused as
soon as nothing refers to them. Two events that break the protocol are not steps of
`Spec` but of `EINTRSpec` and `KillSpec`: a blocking `flock()` that fails with `EINTR`
without an interrupt request, and a kill between the unlink and the token. All other
kills are steps of `Spec`.

### 2.2 TempRootsFile

One file name, the processes that own it one after the other (`PidReused`), and
the collectors that look at it. `createTempRootsFile` is `PathExists`,
`UnlinkStale`, `OpenFile`, `LockFile`, `CheckSize`; `findTempRoots` is `GCOpen`,
`GCTryLock`, `GCUnlink`, `GCWriteToken`, `GCClose`.

### 2.3 GarbageCollector

Store: `valid` (the ValidPaths table) and `disk` (directory entries), with a fixed
reference relation `Refs`. Clients: the program counter of each thread through
`addTempRoot` (`TryGCLock`, `Connect`, `Send`, `Disconnected`, `GotAck`, `Record`,
`Release`) and `addToStore` (`IsValid`, `RestorePath`, `Register`), the descriptor
of `gc.lock` and the socket, which the threads of a process share, and the
temporary-roots file. The roots server: `msg[t]` follows one root from the client
to its acknowledgement; `IsPending` is the condition under which the server delays
it. Collector: the variables of `collectGarbage` under their names, one step for
each iteration of the search and for each step of a deletion that others can see
(`SetPending`, `Invalidate`, `DeleteFromStore`). A collector can reach its limit or be
killed, and a client can exit at any step. `uses[p]` is a history variable: what
the process relies on. What the collector keeps with a live path is a closure
(`Closure`), defined as the least set that contains the path and, with each path, what
`computeFSClosure` enqueues for it (`Deps`): references, and outputs or derivers if the
settings keep them. `CalmSpec` has the behaviours of `Spec` in which no collector takes
`gc.lock` while a client has an acknowledgement that it has not yet written to its file;
it is the hypothesis of some theorems, not of any run. Simplifications: one function
`Deriver` stands for both the deriver field of an output and the outputs of a derivation,
which the database keeps apart; the collector releases `gc.lock` by closing its own
descriptor (`GCUnlock`); and as `computeFSClosure` throws for an invalid path, `markAlive`
then adds that path alone (`Closure` follows edges of valid paths only).

### 2.4 Worker

Goals are constants with a kind, a path and dependencies; `pc[g]` is the place
where the coroutine continues, `"none"` when there is no such object. One thread
runs: `StartRound` takes the snapshot `awake2`, `Work` resumes its members in
order, and the labelled steps of a goal are what it does between two points where
something else could happen. `Await`, `AmDone` and `Destroy` are `Goal::await`,
`Goal::amDone` and the destructor; a dropped goal is one that no `shared_ptr` leads
to any more (`Reachable`, the least set with the top-level goals and the goals of the
round that contains the waitees of its members). A substitution runs in a thread (`thread`, `queue`,
`pipe`), a build in a child (`children`, `exited`). Another process may take the output
lock of a path, build it, or fail to. The trampoline and the resolution goal are
folded into the derivation goal, as they only wait for other goals; that the resolution
goal owns the goals of its inputs until it ends, also after a wait that was cut short
(`derivation-resolution-goal.cc:34`), is lost by this.

### 2.5 ThreadPool, ProcessGraph and GraphWalk

`ThreadPool` has the pool's `State` (pending items, active count, the first exception,
`quit`) and the loop of `doWork`, which the calling thread runs in `process()` beside
the workers; a condition variable is the set of threads that wait on it. What an item
does is left to the user of the pool. `ProcessGraph` is that user: an item looks its
node up, asks for its edges, links itself to the dependencies that are left (`refs`) or
processes the node, and then visits its referrers under the lock of the graph and submits the ones that
have become ready. Either callback may throw. `GraphWalk` is the contract: a node is
processed once and after its dependencies, no node is in progress when the call ends,
and it ends by returning with all nodes done, by the exception of a callback, or by
the report of an incomplete walk, which only a cycle can cause. The refinement
`ImplementsGraphWalk` maps the threads inside `processNode` to the nodes in progress.

### 2.6 FileTransfer

The file is a sequence of chunks, so that what the sink has received can be compared
with it. A call of `download()` is a thread with its own `State` (`data`, `quit`,
`statePaused`, `result`); `pc[t] = "unpausing"` is the one place where it holds the mutex
of that state while it waits for another. A `TransferItem` has the fields of the
source; `place[t]` says who owns it: the queue, the map of active items, nobody.
The worker thread is curl's callbacks (`HeaderCallback`, and `WriteCallback` with what it
calls, `FinalSink` and the `DataCallback` of `download()`), the end of a
transfer (`FinishOk`, `FinishFailed`, `Retry`, then `Erase`), and one `Round` of its loop, in
which it takes new items and requests to unpause, followed by an `Unpause` for each of
these. `Resume` is `unpause()`: `curl_easy_pause`, which in the settings with `flushes` may
run the write callback for data that curl has kept, and only then `paused = false`. An interrupt lets the signal thread
call `quit()`, which holds `state_` while it destroys the items of the queue
(`BeginQuit`, `PopIncoming`, `EndQuit`); the worker thread sees the interrupt at the head
of its loop, destroys its active items and calls `quit()` itself. curl is external: it
delivers chunks in order from the offset that was asked for unless it is paused, and
may fail at any time, also a paused transfer (an HTTP/2 connection that is lost takes
its paused streams with it). The server says anew in each response whether it accepts
ranges; a file that it has in encoded form only arrives as garbage when a request
with an offset, for which decoding is not asked for, is made.

## 3. The runs

| run | shows |
|---|---|
| `pathlocks` | two objects, two paths: mutual exclusion, lock files removed only by their holder, no circular wait, nothing left locked, every wait ends |
| `pathlocks_eintr` | *violation*: an interrupted `flock()` is taken for success |
| `temproots_file` | three owners of a name, three scans: the roots of the first stay visible, every creation ends |
| `gc_clients` | two clients beside a collector: roots honoured, half-made paths left alone, valid paths on disk, no garbage left |
| `gc_live` | a client beside two collectors, three paths with a self-reference, a deriver and outputs: a permanent root keeps its closure, a sweep leaves only what it had reason to spare, addTempRoot returns |
| `gc_threads` | *violation*: threads share the lock descriptor, one unlocks it for both |
| `gc_twice` | *violation*: after one collector's acknowledgement a second one misses the root |
| `worker_goals` | two derivations with shared inputs, failures, a competing process: section 3.2 |
| `worker_stuck` | *violation*: the goal woken for a slot does not need it, and the others sleep on |
| `process_graph` | up to three threads, four graphs, callbacks that throw: processGraph implements `GraphWalk` and ends |
| `file_transfer` | downloads with pausing, retries, interrupts, throwing sinks, data handed over while resuming: the sink gets the file, one callback, a bounded buffer, no pause forgotten, every call ends (with one named exception) |
| `file_transfer_interrupt` | *violation*: pausing, a retry and an interrupt together, two threads wait for each other's mutex |

### 3.1 Bounds

*PathLocks*: three inodes for two paths and two objects, so that an unlinked inode is
open while its name stands for another, and inodes are reused. Processes
call `lockPaths` again and again without a bound. *TempRootsFile*: `Owners` = 3 and
`MaxScans` = 3, so that a collector may be inside a scan when the file changes hands.
*GarbageCollector*: `MaxGC` is the number of collectors, `MaxExits` that of client
processes that go away. Two paths, one referring to the other, are enough for each
order of protecting, deleting and re-creating a path, its reference or its referrer;
`gc_live` has the larger graph with one client, both keep settings and two collectors in
a row; `OnlySparedLeft` there excepts paths whose root the second collector has missed, as
`gc_twice` shows it can. In `gc_clients` there is one
collector and each process has one thread: with two of either, `RootsHonoured` is
false, which `gc_twice` and `gc_threads` show. *Worker*: seven goals; the settings
of the run are three combinations of keep-going, fallback and slot limits (among
them `max-substitution-jobs = 0`); one substituter, one build user. Two goals
compete for a slot, which is the largest number for which `NeverStuck` holds:
with three, `worker_stuck` violates it. *ProcessGraph*: four nodes
give a diamond, whose top waits for two nodes and whose bottom wakes two; both orders
of enqueueing it, a cycle and a fan are tried, with three threads of which workers are
started one by one as items come. *FileTransfer*: `Settings` are records of what may happen,
chosen in the initial state. Three chunks with a buffer of one pause a transfer and go
on after it; five chunks let the bound of the buffer be exceeded if pausing failed;
three attempts resume a resumed transfer; a queue of one (`MaxQueue`) lets the second
download wait for the first. Pausing, retries and interrupts occur in pairs; all three
together are `file_transfer_interrupt`. One setting lets curl hand over data from inside
`curl_easy_pause`, with two attempts and five chunks (section 4). Sinks throw only where nothing is paused: a
paused transfer of a sink that has thrown is never resumed and would keep the one
place in the queue (a FIXME in `download()`). Every action of all specifications is taken
in the passing runs.

### 3.2 What the Worker's properties mean

`NeverStuck` is the assertion `!awake.empty()` of `run()`; `OneResumer` says that a
suspended goal is on exactly one list that can resume it, which is what the
assertions of `Goal::work` and `Goal::await` rely on; `SlotsRespected` relates the
counters to the children and the limits however goals end; `KeepGoingClean` is the
set of assertions after the loop; `InputsValid` is the closure invariant at the
moment of a copy or a build; `ResultsTrue` is about the exit codes that
`Store::buildPaths` reads after `run()`: a success means a valid path, and with
`--keep-going` no goal that was asked for is left without a result; `RunReturns` says
the loop ends.

### 3.3 Fairness

*PathLocks*: weak fairness of every thread, which includes that callers unlock what
they hold, and strong fairness of `flock()`: a waiter that finds the lock free again
and again gets it (kernels queue waiters). *TempRootsFile*: weak fairness of the
creating process and of a scan that has started. *GarbageCollector*: weak fairness
of client, server and collector threads; nobody has to start a collection, exit or be
killed. *Worker*: weak fairness of the scheduler's thread, of the threads and builders
as a whole (one of them makes progress as long as one can), and of the other
process's build. The poll interval passing is part of the scheduler's step.
*ProcessGraph*: weak fairness of the caller and of every thread; callbacks return or throw.
*FileTransfer*: weak fairness of callers, of the embargo (time passes) and of the signal
thread; strong fairness of the worker's loop, whose mutex is free again and again, and
of curl's progress with each transfer that is not paused: `connect-timeout` and
`stalled-download-timeout` end what makes none. A paused transfer need not make any.

`CHECK_DEADLOCK FALSE` is used where the system may stop: a bounded number of
collectors has run, or the loop of the Worker has ended.

## 4. What the violations show

* `lockPaths` ignores the result of the blocking `lockFile`, which is false after
  `EINTR` (`unix/pathlocks.cc:100`).
* All threads of a store share the descriptor of `gc.lock` (`gc.cc:105`), so the
  first `FdLock` to be destroyed unlocks it for all.
* Between the acknowledgement and the write to the temporary-roots file no lock is
  held (`gc.cc:138`); a collector that starts then never learns of the root.
* `childTerminated` wakes one waiter (`build/worker.cc:254`); a building goal that was
  woken starts over and may find its path built by someone else, or locked, and the
  free slot is not passed on.
* `download()` calls `unpauseTransfer`, and so locks `state_`, under its own mutex
  (`filetransfer.cc:1446`), while `quit()` under `state_` destroys items whose callbacks
  lock the download (`filetransfer.cc:1007`, `1415`). An interrupt while a paused transfer
  waits for its retry makes the two wait for each other for good.

Known without a run of their own: `deleteLockFile` unlinks before it writes the token
(`unix/pathlocks.cc:32`), and a process that dies in between leaves its waiters with an
unlinked file that looks current; `KillSpec` with the constants of `PathLocksEINTR.cfg`
violates `MutualExclusion` in this way.

`unpause()` resets `paused` after `curl_easy_pause` (`filetransfer.cc:579`), although
"Unpausing may invoke callbacks to flush all buffers" (`filetransfer.cc:1149`). Such a
write callback still sees `paused` and stops curl again; then `paused` becomes false, each
later `unpause()` is a no-op, curl has no timeout for a paused transfer, and `download()`
waits for good unless the connection fails. The run `file_transfer` contains this
behaviour (the setting with `flushes`). It is the one exception that `DownloadEnds` and
`NoPauseForgotten` name: `PausedAgain`, an active transfer that curl has paused and whose
item does not know it. Without the exception TLC reports the hang as a violation of either
property; with it, everything else that makes a transfer hang is still found, in this
setting too.

`TempRootsFile` has one more that no run states: a collector that has locked the
file of a dead process removes it by name (`gc.cc:197`), which may by then be the
file of a new process with the same id. `RootsVisible` is therefore stated for the
first owner of a name.

## 5. What is proved

Each theorem holds for every value of the constants that meets the named assumptions
of the module (`ASSUME`): sets of processes, threads, paths, goals, transfers and
graphs of any size, any reference and dependency relation, any limits and any number of
collections, attempts and exits.

| theorem | statement | further hypotheses |
|---|---|---|
| `PathLocksProofs!TypeCorrect` | `Spec => []TypeOK` | - |
| `PathLocksProofs!MutualExclusionHolds` | `Spec => []MutualExclusion` | the two faults are not in `Spec` |
| `PathLocksProofs!RemovalByOwnerHolds` | `Spec => RemovalByOwner` | the same |
| `PathLocksProofs!NothingLeftBehindHolds` | `Spec => []NothingLeftBehind` | the same |
| `PathLocksProofs!NoCircularWaitHolds` | `Spec => []NoCircularWait` | the same |
| `TempRootsFileProofs!RootsVisibleHolds` | `Spec => []RootsVisible` | - |
| `GarbageCollectorProofs!TypeCorrect` | `Spec => []TypeOK` | - |
| `GarbageCollectorProofs!StoreClosedHolds` | `Spec => []StoreClosed` | - |
| `GarbageCollectorProofs!PermanentRootsKeptHolds` | `Spec => []PermanentRootsKept` | - |
| `GarbageCollectorProofs!RootsHonouredHolds` | `CalmSpec => []RootsHonoured` | `OneThreadEach` |
| `GarbageCollectorProofs!CreationUndisturbedHolds` | `CalmSpec => []CreationUndisturbed` | `OneThreadEach` |
| `GarbageCollectorProofs!ValidOnDiskHolds` | `CalmSpec => []ValidOnDisk` | `OneThreadEach` |
| `GarbageCollectorProofs!OneCollectionIntact` | `Spec =>` these three | `OneThreadEach`, `MaxGC <= 1` |
| `GarbageSweepProofs!SparedForReason` | `CalmSpec => []NothingElseLeft /\ MarkedForReason` | `OneThreadEach` |
| `GarbageSweepProofs!GarbageCollectedHolds` | `CalmSpec => []GarbageCollected` | `OneThreadEach`, `ReferencesOnly` |
| `GarbageSweepProofs!OneCollectionThorough` | `Spec => []GarbageCollected` | `OneThreadEach`, `ReferencesOnly`, `MaxGC <= 1` |
| `WorkerProofs!TypeCorrect` | `Spec => []TypeOK` | - |
| `WorkerProofs!SlotsRespectedHolds` | `Spec => []SlotsRespected` | - |
| `WorkerProofs!OneResumerHolds` | `Spec => []OneResumer` | - |
| `WorkerProofs!InputsValidHolds` | `Spec => []InputsValid` | - |
| `WorkerProofs!KeepGoingCleanHolds` | `Spec => []KeepGoingClean` | - |
| `WorkerProofs!ResultsTrueHolds` | `Spec => []ResultsTrue` | - |
| `WorkerProofs!StuckOnlyForSlots` | `Spec => []StuckForSlot` | `Acyclic` |
| `WorkerProofs!NeverStuckWithSlots` | `Spec => []NeverStuck` | `Acyclic`, `EnoughSlots` |
| `ProcessGraphProofs!TypeCorrect` | `Spec => []TypeOK` | - |
| `ProcessGraphProofs!ImplementsGraphWalkHolds` | `Spec => ImplementsGraphWalk` | - |
| `FileTransferProofs!TypeCorrect` | `Spec => []TypeOK` | - |
| `FileTransferProofs!CalledBackOnceHolds` | `Spec => []CalledBackOnce` | - |
| `FileTransferProofs!SinkGetsFileHolds` | `Spec => []SinkGetsFile` | - |
| `FileTransferProofs!BufferBoundedHolds` | `Spec => []BufferBounded` | - |
| `FileTransferProofs!NoPauseForgottenHolds` | `Spec => []NoPauseForgotten` | - |

### 5.1 PathLocks and TempRootsFile

*Mutual exclusion* is not inductive: it does not say why the file of a holder is
the one a newcomer would open. `IInv` adds that a holder's file is the named one, is
locked by it and carries no token (`HeldOK`); that between unlink and token the
remover still has the flock (`TokenOK`), so that nobody can reach the `fstat` in that
window; that a file being locked is named, carries the token, or is about to get it
(`LockingOK`); and that whoever is past `flock()` has the lock (`CheckOK`), which is the
conjunct that `EINTR` breaks, as a kill in the window breaks `LockingOK`. The action
property about removals follows from `HeldOK`: the only step that takes a name from a
file is the unlink of a holder.

*Nothing left behind*: every flock belongs to an open descriptor of its owner
(`FlockOK`), and outside `lockPaths` and `unlock` there is none. *No circular wait* is
the argument of ordered locking, but for files instead of paths: what a process has is
below what it still wants (`SortedOK`), and while any name or descriptor refers to a file
it is the lock file of one path only (`OnePathOK`), so that a wait for a removed file
that is still open counts as a wait for its path.

*Visible roots*: the collector and the owner exclude each other by the flock on the
inode, and the name stands for the inode the collector opened until it unlinks it
(`CollectorOK`); the owner finds either its own named, empty file or the token
(`OwnerOK`). Both are conditional on `owner = 1`.

### 5.2 GarbageCollector

*Closed store*: `StoreClosed` is inductive. Only two transactions write the table
(`WhoWritesValid`); one adds a path with its references, the other removes one
without referrers.

*Roots honoured, creation undisturbed, valid on disk* are one inductive invariant with:
a thread that got `gc.lock` keeps it until its root is in the file (`LockKept`); a
collector that sweeps knows all roots in files and all that it acknowledged
(`RootsKnown`); its server threads exist only while it runs (`ServerRuns`); what a process
works with is in its file (`UsesRecorded`); and the path that is being deleted is in
nobody's file, while whoever asks for it waits (`DeletesUnused`). `LockKept` fails if two
threads share the descriptor, hence the hypothesis `OneThreadEach`; `RootsKnown` fails
if a collector starts between an acknowledgement and the write to the file, hence
`CalmSpec`. Both hypotheses are necessary, as `gc_threads` and `gc_twice` show. With one
collection at most the second one is free (`OneCollectionIntact`): before it nobody can
have an acknowledgement (`FirstIsCalm`).

*Permanent roots* need neither hypothesis. What they keep (`Kept`, the union of their
closures) is valid from the start and stays so; a search that has visited a kept path
has visited, or has still in its queue, what leads to it (`SearchOK`), and so reaches the
root before it can end with a deletion. The referrers cache may be older than the
database, but it never misses a referrer that is kept.

*A thorough sweep* (`GarbageSweepProofs`) is the opposite direction: what the collector
has read in the directory and left there, it left for a reason. The reason has to survive
everything that clients and the collector do afterwards, so the invariant is not about
closures as `markAlive` computes them but about `Held`: what the roots and the paths
marked alive reach through *references*. The collector cannot take a path out of `Held`,
because `invalidatePathChecked` refuses a path with a valid referrer; only the path it is
about to decide on is excepted (`Decided`), for a root may have arrived for it after the
last check. `Judged` says that whatever is in `dead` or has been read is gone, held, or
in hand at this moment. To pass from one call of `maybeDeleteReferrersClosure` to the next it
needs: the cached referrers are valid or were deleted since, and miss only what
clients made since, which has a root (`CacheOK`); a path off the search's queue is dead
or has its referrers visited (`VisitedOK`); the search can stop only at a path whose
closure contains its start (`LeadsToStart`), which is why keeping the start is then
right; after the search every visited path is sorted, deleted or made anew (`RestOK`);
and a path that reaches `invalidatePathChecked` has only held referrers, so that a refusal
leaves it held (`CurOK`). TLC checked these on instances with the two settings off and on
before they were proved.

From this `SparedForReason` follows for every setting: what is left is in the closure of a
root or of a path marked alive (`NothingElseLeft`, which is the run's `OnlySparedLeft`
without its exception: under the two hypotheses no root is missed), and each mark was
justified when it was made.
`GarbageCollected` itself says more, that the reason is a root *at the end*. That needs
`AliveLive`, every path marked alive stays in the closure of a root, and this is true only
if the closure follows nothing but references (`ReferencesOnly`: `keep-outputs` and
`keep-derivations` off, as in the run `gc_clients`). With `keep-derivations`, the default, TLC
finds this behaviour with a path `b`, its deriver `d` and a reference `a` of `d`: while `b`
and `d` are in the list to be deleted, a client makes `b` a temporary root. `markAlive` marks
`b`, `d` and `a`; but the deletion loop goes on to `d`, nothing refers to `d`, and it is
deleted. When the sweep comes to `a`, it finds it marked alive and keeps it until the next
collection, although no root leads to it any more. With `keep-outputs` the same happens with a derivation and its output. This costs
disk space for one round and breaks no promise of the settings to a root that was
there when the collection started, so it is stated as a hypothesis and not as a
finding.

### 5.3 Worker

The steps of a goal are first grouped by what they do to the scheduler (lemmas
`GoalSteps`, `Steps`: a goal ends, awaits, yields, queries, waits for a slot or a lock,
starts or finishes a child, is destroyed). *Types and slots* are one invariant: labels fit
to the kind of goal (`KindsOK`), a goal has a child exactly while it copies or builds
(`ChildrenOK`), and each counter is the number of children of its kind (`SlotsOK`); typing
alone is not inductive, because a counter could be decremented at zero.

*One resumer* follows from `SchedulerOK`: a goal is on one list at most and the list fits
to its label (`ListsOK`); one that exists is on some list, waits for goals or has a builder
(`NoneForgotten`); `waitingForCompletion` holds exactly the goals whose thread is busy or
that are in the waker's queue (`ThreadsOK`); waitees and waiters agree except for dropped
goals (`LinksOK`); and only dropped goals wait for dropped goals (`DoomedOK`), which is
what makes it safe that a destructor tells nobody.

*Valid inputs* (`InputsOK`): a goal that waits for its references or inputs either knows of
a failure, or each of them is valid or still waited for. A goal says that it
succeeded only with its path valid; a wait that is cut short comes with a failure.
*Nothing left over* (`AllWanted`): with `--keep-going` every goal is reachable from a
top-level goal that is not done, and none is dropped. *True results* (`ResultsOK`) need
both: a goal succeeds because it saw its path valid, made it so, or because its
building goal did (`InputsOK`); and without dropped goals a top-level goal can only go
away through `amDone`. Without `--keep-going` the second half does not hold: a failure
leaves other goals busy, which `buildPaths` counts as failed.

*Never stuck* is false in general (`worker_stuck`). `StuckOnlyForSlots` shows that the queue
for slots is the only cause: if goals wait only for goals that exist (`WaitsOK`) and form no
cycle, the lowest goal that exists is queued for a slot or something is expected.
`Acyclic` is a hypothesis about the derivations and references, which are acyclic except
through a collision of hashes. `EnoughSlots` (a slot for each goal that may ask for one)
leaves the queue empty.

### 5.4 ProcessGraph

The inductive invariant says where threads are and what they hold (`ControlOK`), why the
pool quits (`QuitOK`: the exception of a callback is kept, or nothing is left), that a
linked node misses only dependencies that are left, that those it does not miss are
processed, and that the thread in the loop over referrers has still to visit those that
miss its node (`LinksOK`), that no node is in two of
the places "to be submitted", "queued", "in the hands of a thread", "waiting" (`PlacesOK`),
and that without an exception none is in no place (`NoneLost`). The refinement mapping
sends the threads inside `processNode` to the nodes in progress; each step is then a
step of `GraphWalk` or a stutter, and the ways to end follow from `QuitOK` and `NoneLost`.
The liveness part of the refinement is left to TLC (`ProcessGraphEnds`).

### 5.5 FileTransfer

`LifeOK` says that an item is called back when it leaves the queue and the active items
for good, and that curl's position and `writtenToSink` agree; `EncodedOK` that an encoded
file that has been started is not resumed; `DeliveredOK` that what was delivered is in the
sink, in the hands of the caller and in the buffer, in this order. The bound on the
buffer is a potential argument (`ExcessOK`): the chunks above the limit plus the occasions
to exceed it once more (started unpaused, a request to unpause on its way) never exceed
the number of attempts so far. `PausedOK` carries `NoPauseForgotten`: in whatever
queue a paused item is, its caller has the pause on record (`statePaused`) or a request
is in one of the two lists; a new round finds the list of the last one empty, so that no
request is overwritten; and curl is paused only if the item knows it, unless data may come
while it is resumed. The assumption `tries > 0` costs nothing: a first attempt is made
with 0 as with 1.

### 5.6 Only model-checked

Liveness (`WaitersProceed`, `CreationEnds`, `AddTempRootReturns`, `RunReturns`,
`ProcessGraphEnds`, `DownloadEnds`), which is out of the prover's reach; and `NeverStuck` for a number of slots below the number of goals, where
it depends on how many goals compete. TLC has also checked each of the inductive
invariants above on instances like those of the runs before it was proved.

## 6. Not modelled

Listed with reasons in `PROJECT.json`, `components`. In short: the evaluator, fetchers,
flakes and the command line (sequential, language semantics and I/O); sandboxes and
other kernel facilities; serialisation; deletion of given paths and report-only modes
of the collector; build hooks, check and repair mode, and content-addressed outputs;
`max-jobs = 0`; failing disks (also a lock file that cannot be unlinked, which
`pathlocks.cc:32` ignores); the error of a build with a missing source while substitution
is disabled (`derivation-building-goal.cc:167`), the post-build hook between registration
and unlock (`:1077`) and exceptions other than `BuildError` in a build; downloads that end
without the file (304, or a write error with an expected ETag, `filetransfer.cc:763`).
Atomic transactions of SQLite are taken as given.

Hazards of these parts that no module reaches and `PROJECT.json` does not list:
`writeFull` of the deletion token fails on a full disk (`pathlocks.cc:33`); a client
thread of the roots server ends before its `std::thread` is in `connections`
(`gc.cc:503`); `createTempDirInStore` creates and locks in two steps (`gc.cc:556`); the
link count of a `.links` entry is read before `optimisePath` links to it (`gc.cc:843`);
threads that wait for an automatic collection that throws (`gc.cc:955`); a time-out
pushed after the end of file of the same child (`goal.cc:38`); two processes that
promote their shared lock for a schema upgrade (`local-store.cc:268`).

## 7. Plan

Done: the modules of section 2. Next, in this order:

1. Theorems: the refinement of the temporary-roots file by a
   specification with several owners; action properties of `Worker` and of
   `FileTransfer`.
2. `PathInfoCache`: `queryPathInfo`, `registerValidPaths` and `invalidatePath` of several
   threads, with roll-back, where a cached path may not be valid.
3. `Worker`: a larger instance for goals that are dropped after they were woken, and
   for a path that is substituted and built at the same time (`cleanup()` joins in the
   scheduler's thread); the event queue of a goal with timeout and end of file; the
   build hook with its child outside the slots.
4. `AutoGC` (flag, future, exception), the connections map of the roots server,
   `createTempDirInStore`, `.links` against the optimiser.
5. `Pool` (limit), remote-build slots, build users, profiles, schema upgrade with the
   promotion of the lock.
