------------------------------ MODULE PathLocks ------------------------------
(***************************************************************************)
(* The lock files `<path>.lock` by which processes exclude one another     *)
(* from a store path (libstore/unix/pathlocks.cc).  A lock is an flock()   *)
(* on an open lock file.  The holder may remove the file when it is done,  *)
(* so a name can stand for a different file later on: a process that was   *)
(* waiting for the old file recognises it by the token "d" that the        *)
(* remover writes after the unlink.                                        *)
(*                                                                         *)
(* A member of Procs is one PathLocks object and the thread that uses it.  *)
(* Every open() makes an open file description of its own, so flock()      *)
(* excludes two PathLocks of one process as it does those of two           *)
(* processes.  Files are identified by inodes; an inode that no name and   *)
(* no descriptor refers to is free and may be reused by the kernel.        *)
(***************************************************************************)
EXTENDS Naturals

CONSTANTS
    Procs,      \* the PathLocks objects
    Paths,      \* the paths to lock, numbers in the order of std::set
    Inodes,     \* identities of lock files
    NoFile,     \* no inode: a missing file, a closed descriptor
    NoProc      \* no process: an unlocked file

ASSUME PathsAssumption == Paths \subseteq Nat
ASSUME NoFileAssumption == NoFile \notin Inodes
ASSUME NoProcAssumption == NoProc \notin Procs

VARIABLES
    dir,        \* dir[path]: the inode that `<path>.lock` names
    stale,      \* the inodes of files that are not empty (st_size # 0)
    flock,      \* flock[i]: who has the exclusive lock on the file
    pc,         \* pc[p]: where p is in lockPaths or unlock
    todo,       \* todo[p]: the paths lockPaths has still to lock
    at,         \* at[p]: the path p is locking or releasing
    cur,        \* cur[p]: the inode of the local descriptor `fd`
    fds,        \* fds[p][path]: the inode of the descriptor kept in `fds`
    waiting,    \* those whose lockPaths was called with `wait`
    deletePaths \* those whose member deletePaths is true

vars == <<dir, stale, flock, pc, todo, at, cur, fds, waiting, deletePaths>>
files == <<dir, stale, flock>>

Labels == {"idle", "open", "trylock", "block", "check", "held",
           "unlock", "token", "close"}

NoFds == [path \in Paths |-> NoFile]

TypeOK ==
    /\ dir \in [Paths -> Inodes \cup {NoFile}]
    /\ stale \subseteq Inodes
    /\ flock \in [Inodes -> Procs \cup {NoProc}]
    /\ pc \in [Procs -> Labels]
    /\ todo \in [Procs -> SUBSET Paths]
    /\ at \in [Procs -> Paths \cup {NoFile}]
    /\ cur \in [Procs -> Inodes \cup {NoFile}]
    /\ fds \in [Procs -> [Paths -> Inodes \cup {NoFile}]]
    /\ waiting \subseteq Procs
    /\ deletePaths \subseteq Procs

Init ==
    /\ dir = NoFds
    /\ stale = {}
    /\ flock = [i \in Inodes |-> NoProc]
    /\ pc = [p \in Procs |-> "idle"]
    /\ todo = [p \in Procs |-> {}]
    /\ at = [p \in Procs |-> NoFile]
    /\ cur = [p \in Procs |-> NoFile]
    /\ fds = [p \in Procs |-> NoFds]
    /\ waiting = {}
    /\ deletePaths = {}

(* Mutant: the paths are locked in whatever order a hash table has them. *)
IsNextUnordered(path, S) == path \in S

(* `path` comes next when a std::set is iterated from the rest S. *)
IsNext(path, S) == path \in S /\ \A other \in S : path <= other

(* An inode nothing refers to: the kernel may give it to a new file. *)
Free(i) ==
    /\ \A path \in Paths : dir[path] # i
    /\ \A p \in Procs : cur[p] # i /\ \A path \in Paths : fds[p][path] # i

(* Mutant: the descriptor stays open. *)
ClosedNever(lk, p, i) == lk

(* close(): an flock goes with the last descriptor of its description. *)
Closed(lk, p, i) ==
    [j \in Inodes |-> IF j = i /\ lk[j] = p THEN NoProc ELSE lk[j]]

(* Mutant: whoever gets the flock takes the file for the current one. *)
IsStaleUnchecked(i) == FALSE

(* st.st_size != 0 on the open descriptor: the file was removed. *)
IsStale(i) == i \in stale

(* Mutant: the loop visits paths that lockPaths never came to. *)
KeptAll(p) == Paths

(* The entries of `fds`. *)
Kept(p) == {path \in Paths : fds[p][path] # NoFile}

-----------------------------------------------------------------------------
(* lockPaths(paths, waitMsg, wait): the call, with its assert(fds.empty()). *)
LockPaths(p) ==
    /\ pc[p] = "idle"
    /\ fds[p] = NoFds
    /\ \E paths \in SUBSET Paths \ {{}} : todo' = [todo EXCEPT ![p] = paths]
    /\ waiting' \in {waiting, waiting \cup {p}}
    /\ pc' = [pc EXCEPT ![p] = "open"]
    /\ UNCHANGED <<files, at, cur, fds, deletePaths>>

(* fd = openLockFile(lockPath, true): the descriptor of a previous, stale  *)
(* round is closed once the new one is open.                               *)
OpenLockFile(p) ==
    /\ pc[p] = "open"
    /\ \E path \in todo[p], i \in Inodes :
          /\ IsNext(path, todo[p])
          /\ \/ dir[path] = i /\ UNCHANGED <<dir, stale>>
             \/ /\ dir[path] = NoFile
                /\ Free(i)
                /\ dir' = [dir EXCEPT ![path] = i]
                /\ stale' = stale \ {i}
          /\ at' = [at EXCEPT ![p] = path]
          /\ flock' = Closed(flock, p, cur[p])
          /\ cur' = [cur EXCEPT ![p] = i]
    /\ pc' = [pc EXCEPT ![p] = "trylock"]
    /\ UNCHANGED <<todo, fds, waiting, deletePaths>>

(* lockFile(fd, ltWrite, false) *)
TryLock(p) ==
    /\ pc[p] = "trylock"
    /\ flock[cur[p]] = NoProc
    /\ flock' = [flock EXCEPT ![cur[p]] = p]
    /\ pc' = [pc EXCEPT ![p] = "check"]
    /\ UNCHANGED <<dir, stale, todo, at, cur, fds, waiting, deletePaths>>

(* The try fails: with `wait` go and block, otherwise unlock() what was    *)
(* locked so far and return false.                                         *)
TryLockFails(p) ==
    /\ pc[p] = "trylock"
    /\ flock[cur[p]] # NoProc
    /\ \/ p \in waiting /\ pc' = [pc EXCEPT ![p] = "block"] /\ UNCHANGED <<todo, cur>>
       \/ /\ p \notin waiting
          /\ pc' = [pc EXCEPT ![p] = "unlock"]
          /\ todo' = [todo EXCEPT ![p] = {}]
          /\ cur' = [cur EXCEPT ![p] = NoFile]
    /\ UNCHANGED <<files, at, fds, waiting, deletePaths>>

(* lockFile(fd, ltWrite, true): flock() returns when the lock is free. *)
BlockedLock(p) ==
    /\ pc[p] = "block"
    /\ flock[cur[p]] = NoProc
    /\ flock' = [flock EXCEPT ![cur[p]] = p]
    /\ pc' = [pc EXCEPT ![p] = "check"]
    /\ UNCHANGED <<dir, stale, todo, at, cur, fds, waiting, deletePaths>>

(* flock() fails with EINTR while the process is not being interrupted     *)
(* (a handler installed without SA_RESTART ran): lockFile returns false    *)
(* and lockPaths goes on without looking at the result.                    *)
BlockedEINTR(p) ==
    /\ pc[p] = "block"
    /\ pc' = [pc EXCEPT ![p] = "check"]
    /\ UNCHANGED <<files, todo, at, cur, fds, waiting, deletePaths>>

(* fstat: an empty file is the one the name stands for, and the descriptor *)
(* moves to `fds`; any other has been removed, and the round is repeated.  *)
CheckStale(p) ==
    /\ pc[p] = "check"
    /\ \/ /\ IsStale(cur[p])
          /\ pc' = [pc EXCEPT ![p] = "open"]
          /\ UNCHANGED <<todo, cur, fds>>
       \/ /\ ~IsStale(cur[p])
          /\ fds' = [fds EXCEPT ![p][at[p]] = cur[p]]
          /\ cur' = [cur EXCEPT ![p] = NoFile]
          /\ todo' = [todo EXCEPT ![p] = @ \ {at[p]}]
          /\ pc' = [pc EXCEPT ![p] = IF todo[p] = {at[p]} THEN "held" ELSE "open"]
    /\ UNCHANGED <<files, at, waiting, deletePaths>>

(* checkInterrupt() throws at the head of the loop or in a blocked flock():*)
(* `fd` is closed and the destructor of PathLocks unlocks the rest.        *)
Interrupted(p) ==
    /\ pc[p] \in {"open", "block"}
    /\ pc' = [pc EXCEPT ![p] = "unlock"]
    /\ todo' = [todo EXCEPT ![p] = {}]
    /\ flock' = Closed(flock, p, cur[p])
    /\ cur' = [cur EXCEPT ![p] = NoFile]
    /\ UNCHANGED <<dir, stale, at, fds, waiting, deletePaths>>

-----------------------------------------------------------------------------
(* setDeletion(true): callers do so before the final unlock(). *)
SetDeletion(p) ==
    /\ pc[p] = "held"
    /\ deletePaths' = deletePaths \cup {p}
    /\ UNCHANGED <<files, pc, todo, at, cur, fds, waiting>>

(* unlock() of a caller that is done, or of the destructor. *)
Unlock(p) ==
    /\ pc[p] = "held"
    /\ pc' = [pc EXCEPT ![p] = "unlock"]
    /\ UNCHANGED <<files, todo, at, cur, fds, waiting, deletePaths>>

(* One turn of unlock()'s loop: deleteLockFile starts with tryUnlink.  It  *)
(* may fail, which the code ignores; that failure (a directory that cannot *)
(* be written) is left out.                                                *)
UnlockNext(p) ==
    /\ pc[p] = "unlock"
    /\ \E path \in Paths :
          /\ IsNext(path, Kept(p))
          /\ at' = [at EXCEPT ![p] = path]
          /\ \/ /\ p \in deletePaths
                /\ dir' = [dir EXCEPT ![path] = NoFile]
                /\ pc' = [pc EXCEPT ![p] = "token"]
             \/ /\ p \notin deletePaths
                /\ UNCHANGED dir
                /\ pc' = [pc EXCEPT ![p] = "close"]
    /\ UNCHANGED <<stale, flock, todo, cur, fds, waiting, deletePaths>>

(* deleteLockFile: writeFull(desc, "d"). *)
WriteToken(p) ==
    /\ pc[p] = "token"
    /\ stale' = stale \cup {fds[p][at[p]]}
    /\ pc' = [pc EXCEPT ![p] = "close"]
    /\ UNCHANGED <<dir, flock, todo, at, cur, fds, waiting, deletePaths>>

(* close(i.first) *)
CloseLock(p) ==
    /\ pc[p] = "close"
    /\ flock' = Closed(flock, p, fds[p][at[p]])
    /\ fds' = [fds EXCEPT ![p][at[p]] = NoFile]
    /\ pc' = [pc EXCEPT ![p] = "unlock"]
    /\ UNCHANGED <<dir, stale, todo, at, cur, waiting, deletePaths>>

(* fds.clear() and the return.  The next user of this identity is a new    *)
(* PathLocks, whose constructor sets deletePaths to false.                 *)
UnlockDone(p) ==
    /\ pc[p] = "unlock"
    /\ fds[p] = NoFds
    /\ pc' = [pc EXCEPT ![p] = "idle"]
    /\ at' = [at EXCEPT ![p] = NoFile]
    /\ deletePaths' = deletePaths \ {p}
    /\ waiting' = waiting \ {p}
    /\ UNCHANGED <<files, todo, cur, fds>>

-----------------------------------------------------------------------------
(* The kernel closes the descriptors of a process that is killed. *)
Killed(p) ==
    /\ flock' = [i \in Inodes |-> IF flock[i] = p THEN NoProc ELSE flock[i]]
    /\ pc' = [pc EXCEPT ![p] = "idle"]
    /\ todo' = [todo EXCEPT ![p] = {}]
    /\ at' = [at EXCEPT ![p] = NoFile]
    /\ cur' = [cur EXCEPT ![p] = NoFile]
    /\ fds' = [fds EXCEPT ![p] = NoFds]
    /\ deletePaths' = deletePaths \ {p}
    /\ waiting' = waiting \ {p}
    /\ UNCHANGED <<dir, stale>>

(* A kill, and a kill in the one place where it does harm: between the     *)
(* unlink and the token.                                                   *)
Kill(p) == pc[p] \notin {"idle", "token"} /\ Killed(p)

KillInside(p) == pc[p] = "token" /\ Killed(p)

Step(p) ==
    \/ OpenLockFile(p)
    \/ TryLock(p)
    \/ TryLockFails(p)
    \/ BlockedLock(p)
    \/ CheckStale(p)
    \/ Unlock(p)
    \/ UnlockNext(p)
    \/ WriteToken(p)
    \/ CloseLock(p)
    \/ UnlockDone(p)

Next ==
    \E p \in Procs :
        \/ LockPaths(p)
        \/ Step(p)
        \/ Interrupted(p)
        \/ SetDeletion(p)
        \/ Kill(p)

Spec == Init /\ [][Next]_vars

(* The same with one of the two faults. *)
EINTRSpec == Init /\ [][Next \/ \E p \in Procs : BlockedEINTR(p)]_vars
KillSpec == Init /\ [][Next \/ \E p \in Procs : KillInside(p)]_vars

(* Every thread keeps running, and flock() grants a lock to each waiter    *)
(* that finds it free again and again.                                     *)
Fairness ==
    \A p \in Procs : WF_vars(Step(p)) /\ SF_vars(TryLock(p)) /\ SF_vars(BlockedLock(p))

FairSpec == Spec /\ Fairness

-----------------------------------------------------------------------------
(* p acts as the owner of `path`: from the moment lockPaths keeps the      *)
(* descriptor until unlock() removes the file or closes the descriptor.    *)
Holds(p, path) ==
    /\ fds[p][path] # NoFile
    /\ ~(pc[p] \in {"token", "close"} /\ at[p] = path)

(* Two lockPaths never own the same path at once, whichever of them        *)
(* removes lock files, dies, or was waiting on a file that went away       *)
(* ("Have to be careful not to introduce races", deleteLockFile).          *)
MutualExclusion ==
    \A p, q \in Procs, path \in Paths :
        Holds(p, path) /\ Holds(q, path) => p = q

(* p waits for a lock that q has. *)
WaitsFor(p, q) == pc[p] = "block" /\ flock[cur[p]] = q

(* No two or three processes wait for one another in a circle: "Acquire    *)
(* the lock for each path in sorted order. This ensures that locks are     *)
(* always acquired in the same order, thus preventing deadlocks."          *)
NoCircularWait ==
    \A p, q, r \in Procs :
        ~(WaitsFor(p, q) /\ (WaitsFor(q, p) \/ (WaitsFor(q, r) /\ WaitsFor(r, p))))

(* A lockPaths that returned false, threw, or was unlocked has given back  *)
(* every lock it took on the way ("release all other locks").              *)
NothingLeftBehind ==
    \A p \in Procs : pc[p] = "idle" => \A i \in Inodes : flock[i] # p

(* Whoever starts to wait gets all its locks or is stopped by an interrupt *)
(* or a kill; here the wait ends, in one of those ways.                    *)
WaitersProceed == \A p \in Procs : pc[p] = "block" ~> pc[p] # "block"

(* A lock file disappears only in the unlock() of the process that has the *)
(* flock on that very file: nobody's file is removed from under its lock.  *)
RemovalByOwner ==
    [][\A path \in Paths :
          dir[path] # NoFile /\ dir'[path] # dir[path] =>
             \E p \in Procs :
                /\ pc[p] = "unlock" /\ pc'[p] = "token" /\ at'[p] = path
                /\ flock[dir[path]] = p]_vars

=============================================================================
