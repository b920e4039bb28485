---------------------------- MODULE TempRootsFile ----------------------------
(***************************************************************************)
(* The temporary-roots file of one LocalStore: how createTempRootsFile     *)
(* makes and locks it while findTempRoots of a collector reads the files   *)
(* of live processes and removes those of dead ones (libstore/gc.cc).  The *)
(* file is named after process id and a counter, so its owner's            *)
(* successor under that name is a process that got the same id.            *)
(***************************************************************************)
EXTENDS Naturals

CONSTANTS
    Inodes,     \* identities of files
    None,       \* no file
    Owners,     \* number of processes that have the name in turn
    MaxScans    \* bound: number of times a collector looks at the name

ASSUME TempRootsFileAssumption ==
    None \notin Inodes /\ Owners \in Nat \ {0} /\ MaxScans \in Nat

VARIABLES
    name,       \* the inode that fnTempRoots names
    size,       \* size[i]: "empty", "roots" (written by the owner) or "token"
    flock,      \* flock[i]: who has the file locked
    pc,         \* where the owner is in createTempRootsFile
    fd,         \* the inode of its *fdTempRoots
    owner,      \* number of the owner
    gpc,        \* where the collector is in findTempRoots
    gfd,        \* the inode of its descriptor
    scans       \* number of scans

vars == <<name, size, flock, pc, fd, owner, gpc, gfd, scans>>

TypeOK ==
    /\ name \in Inodes \cup {None}
    /\ size \in [Inodes -> {"empty", "roots", "token"}]
    /\ flock \in [Inodes -> {"none", "owner", "gc"}]
    /\ pc \in {"exists", "unlink", "open", "lock", "check", "ready", "dead"}
    /\ fd \in Inodes \cup {None}
    /\ owner \in 1..Owners
    /\ gpc \in {"idle", "trylock", "unlink", "token", "close"}
    /\ gfd \in Inodes \cup {None}
    /\ scans \in 0..MaxScans

Init ==
    /\ name = None
    /\ size = [i \in Inodes |-> "empty"]
    /\ flock = [i \in Inodes |-> "none"]
    /\ pc = "exists" /\ fd = None /\ owner = 1
    /\ gpc = "idle" /\ gfd = None /\ scans = 0

(* The locks after `who` has closed a descriptor of file i. *)
Closed(who, i) ==
    [j \in Inodes |-> IF j = i /\ flock[j] = who THEN "none" ELSE flock[j]]

-----------------------------------------------------------------------------
(* createTempRootsFile *)

(* Mutant: a file that is there already is kept. *)
KeepExisting ==
    /\ pc = "exists"
    /\ pc' = "open"
    /\ UNCHANGED <<name, size, flock, fd, owner, gpc, gfd, scans>>

(* if (pathExists(fnTempRoots)) *)
PathExists ==
    /\ pc = "exists"
    /\ pc' = IF name = None THEN "open" ELSE "unlink"
    /\ UNCHANGED <<name, size, flock, fd, owner, gpc, gfd, scans>>

(* tryUnlink(fnTempRoots): "The file is stale". *)
UnlinkStale ==
    /\ pc = "unlink"
    /\ name' = None
    /\ pc' = "open"
    /\ UNCHANGED <<size, flock, fd, owner, gpc, gfd, scans>>

(* *fdTempRoots = openLockFile(fnTempRoots, true) closes the old one.      *)
OpenFile ==
    /\ pc = "open"
    /\ \E i \in Inodes :
          /\ fd' = i
          /\ \/ name = i /\ UNCHANGED <<name, size>>
             \/ /\ name = None /\ i \notin {fd, gfd}
                /\ name' = i
                /\ size' = [size EXCEPT ![i] = "empty"]
    /\ flock' = Closed("owner", fd)
    /\ pc' = "lock"
    /\ UNCHANGED <<owner, gpc, gfd, scans>>

(* lockFile(fd, ltWrite, true) *)
LockFile ==
    /\ pc = "lock"
    /\ flock[fd] = "none"
    /\ flock' = [flock EXCEPT ![fd] = "owner"]
    /\ pc' = "check"
    /\ UNCHANGED <<name, size, fd, owner, gpc, gfd, scans>>

(* Mutant: the size is not looked at. *)
InTheWayIgnored(i) == FALSE

(* "Check whether the garbage collector didn't get in our way." *)
InTheWay(i) == size[i] # "empty"

CheckSize ==
    /\ pc = "check"
    /\ pc' = IF InTheWay(fd) THEN "exists" ELSE "ready"
    /\ UNCHANGED <<name, size, flock, fd, owner, gpc, gfd, scans>>

(* addTempRoot: a root is appended to the file. *)
WriteRoot ==
    /\ pc = "ready"
    /\ size' = [size EXCEPT ![fd] = "roots"]
    /\ UNCHANGED <<name, flock, pc, fd, owner, gpc, gfd, scans>>

(* The process ends or is killed; the file stays behind.                   *)
OwnerDies ==
    /\ pc # "dead"
    /\ flock' = Closed("owner", fd)
    /\ fd' = None
    /\ pc' = "dead"
    /\ UNCHANGED <<name, size, owner, gpc, gfd, scans>>

(* A new process has the same id. *)
PidReused ==
    /\ pc = "dead"
    /\ owner < Owners
    /\ owner' = owner + 1
    /\ pc' = "exists"
    /\ UNCHANGED <<name, size, flock, fd, gpc, gfd, scans>>

-----------------------------------------------------------------------------
(* findTempRoots, for this one directory entry *)

(* open(path, O_RDWR): nothing to do when the file is gone.                *)
GCOpen ==
    /\ gpc = "idle"
    /\ scans < MaxScans
    /\ name # None
    /\ scans' = scans + 1
    /\ gfd' = name
    /\ gpc' = "trylock"
    /\ UNCHANGED <<name, size, flock, pc, fd, owner>>

(* lockFile(fd, ltWrite, false): "This can only succeed if the owning      *)
(* process has died."                                                      *)
OwnerGone(i) == flock[i] = "none"

(* With the lock the file is removed, without it the roots are read.       *)
GCTryLock ==
    /\ gpc = "trylock"
    /\ \/ /\ OwnerGone(gfd)
          /\ flock' = [flock EXCEPT ![gfd] = "gc"]
          /\ gpc' = "unlink"
       \/ /\ ~OwnerGone(gfd)
          /\ gpc' = "close"
          /\ UNCHANGED flock
    /\ UNCHANGED <<name, size, pc, fd, owner, gfd, scans>>

(* tryUnlink(path), by name *)
GCUnlink ==
    /\ gpc = "unlink"
    /\ name' = None
    /\ gpc' = "token"
    /\ UNCHANGED <<size, flock, pc, fd, owner, gfd, scans>>

(* writeFull(fd, "d") *)
GCWriteToken ==
    /\ gpc = "token"
    /\ size' = [size EXCEPT ![gfd] = "token"]
    /\ gpc' = "close"
    /\ UNCHANGED <<name, flock, pc, fd, owner, gfd, scans>>

GCClose ==
    /\ gpc = "close"
    /\ flock' = Closed("gc", gfd)
    /\ gfd' = None
    /\ gpc' = "idle"
    /\ UNCHANGED <<name, size, pc, fd, owner, scans>>

-----------------------------------------------------------------------------
Create == PathExists \/ UnlinkStale \/ OpenFile \/ LockFile \/ CheckSize

Scan == GCTryLock \/ GCUnlink \/ GCWriteToken \/ GCClose

Next == Create \/ WriteRoot \/ OwnerDies \/ PidReused \/ GCOpen \/ Scan

(* Both processes keep running until they are killed. *)
Spec == Init /\ [][Next]_vars /\ WF_vars(Create) /\ WF_vars(Scan)

-----------------------------------------------------------------------------
(* The roots of the first process with the name are in the file that the   *)
(* next collector will open, from the moment createTempRootsFile returns.  *)
(* A later process with the same id can lose its file to a collector that  *)
(* is still removing, by name, the one of its predecessor.                 *)
RootsVisible == owner = 1 /\ pc = "ready" => name = fd

(* createTempRootsFile ends unless the process dies, although up to        *)
(* MaxScans collectors get in the way and make it start over.              *)
CreationEnds == pc = "exists" ~> pc \in {"ready", "dead"}
=============================================================================
