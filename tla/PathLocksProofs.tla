--------------------------- MODULE PathLocksProofs ---------------------------
(* Proofs about the lock-file protocol of PathLocks, for any processes,    *)
(* paths and inodes.                                                       *)
EXTENDS PathLocks, TLAPS

-----------------------------------------------------------------------------
(* What a holder relies on: its file is the one the name stands for, it    *)
(* has the flock on it, and the file is empty.                             *)
HeldOK ==
    \A p \in Procs, path \in Paths :
        Holds(p, path) =>
            /\ dir[path] = fds[p][path]
            /\ flock[fds[p][path]] = p
            /\ fds[p][path] \notin stale

(* Between the unlink and the token the remover still has the flock, and   *)
(* no name stands for the file.                                            *)
TokenOK ==
    \A p \in Procs : pc[p] = "token" =>
        /\ at[p] \in Paths
        /\ fds[p][at[p]] \in Inodes
        /\ flock[fds[p][at[p]]] = p
        /\ \A path \in Paths : dir[path] # fds[p][at[p]]

(* A file about to be closed is still named or carries the token.          *)
CloseOK ==
    \A p \in Procs : pc[p] = "close" =>
        /\ at[p] \in Paths
        /\ fds[p][at[p]] \in Inodes
        /\ flock[fds[p][at[p]]] = p
        /\ dir[at[p]] = fds[p][at[p]] \/ fds[p][at[p]] \in stale

(* A file being locked is still named, carries the token, or is about to   *)
(* get it from the process that has its flock.                             *)
LockingOK ==
    \A p \in Procs : pc[p] \in {"trylock", "block", "check"} =>
        /\ at[p] \in todo[p]
        /\ cur[p] \in Inodes
        /\ \/ dir[at[p]] = cur[p]
           \/ cur[p] \in stale
           \/ \E q \in Procs : pc[q] = "token" /\ fds[q][at[q]] = cur[p]

(* Past a successful flock() the lock is ours; this is what EINTR breaks.  *)
CheckOK == \A p \in Procs : pc[p] = "check" => flock[cur[p]] = p

(* A round is repeated only for a file that carries the token, and `fd` is *)
(* closed outside lockPaths.                                               *)
OpenOK ==
    \A p \in Procs :
        /\ pc[p] = "open" /\ cur[p] # NoFile => cur[p] \in stale
        /\ pc[p] \in {"idle", "held", "unlock", "token", "close"} => cur[p] = NoFile

(* One file has one name, and a path is locked at most once.               *)
NamesOK ==
    /\ \A x, y \in Paths : dir[x] = dir[y] /\ dir[x] # NoFile => x = y
    /\ \A p \in Procs, path \in Paths : path \in todo[p] => fds[p][path] = NoFile
    /\ \A p \in Procs : pc[p] = "idle" => fds[p] = NoFds

IInv ==
    TypeOK /\ HeldOK /\ TokenOK /\ CloseOK /\ LockingOK /\ CheckOK /\ OpenOK /\ NamesOK

-----------------------------------------------------------------------------
(* A file that gets the token is open; this is all that typing needs.      *)
TypeInv ==
    /\ TypeOK
    /\ \A p \in Procs : pc[p] = "token" => at[p] \in Paths /\ fds[p][at[p]] \in Inodes

(* Every variable keeps its type in every step of the protocol (lockPaths, *)
(* unlock, deleteLockFile).                                                *)
THEOREM TypeCorrect == Spec => []TypeOK
<1>1. Init => TypeInv
  BY DEF Init, TypeInv, TypeOK, NoFds, Labels
<1>2. TypeInv /\ [Next]_vars => TypeInv'
  <2> SUFFICES ASSUME TypeInv, [Next]_vars PROVE TypeInv'
    OBVIOUS
  <2>1. ASSUME NEW p \in Procs, LockPaths(p) \/ Step(p) \/ Interrupted(p) \/ SetDeletion(p) \/ Kill(p)
        PROVE TypeInv'
    <3>1. CASE LockPaths(p)
      BY <3>1 DEF LockPaths, TypeInv, TypeOK, Labels, files, NoFds, Closed
    <3>2. CASE OpenLockFile(p)
      <4>1. PICK path \in todo[p], i \in Inodes : OpenLockFile(p)!2!(path, i)
        BY <3>2 DEF OpenLockFile
      <4>2. path \in Paths
        BY DEF TypeInv, TypeOK
      <4>3. dir' \in [Paths -> Inodes \cup {NoFile}] /\ stale' \subseteq Inodes
        BY <4>1, <4>2 DEF TypeInv, TypeOK
      <4>4. flock' \in [Inodes -> Procs \cup {NoProc}]
        BY <4>1 DEF TypeInv, TypeOK, Closed
      <4>5. at' \in [Procs -> Paths \cup {NoFile}] /\ cur' \in [Procs -> Inodes \cup {NoFile}]
        BY <4>1, <4>2 DEF TypeInv, TypeOK
      <4> QED
        BY <3>2, <4>3, <4>4, <4>5 DEF OpenLockFile, TypeInv, TypeOK, Labels
    <3>3. CASE TryLock(p)
      BY <3>3 DEF TryLock, TypeInv, TypeOK, Labels, files, NoFds, Closed
    <3>4. CASE TryLockFails(p)
      BY ZenonT(30), <3>4 DEF TryLockFails, TypeInv, TypeOK, Labels, files, NoFds, Closed
    <3>5. CASE BlockedLock(p)
      BY <3>5 DEF BlockedLock, TypeInv, TypeOK, Labels, files, NoFds, Closed
    <3>7. CASE CheckStale(p)
      <4>1. CASE cur[p] \in stale
        BY <3>7, <4>1 DEF CheckStale, IsStale, TypeInv, TypeOK, Labels, files
      <4>2. CASE cur[p] \notin stale
        <5>1. fds' \in [Procs -> [Paths -> Inodes \cup {NoFile}]]
          <6>1. fds' = [fds EXCEPT ![p] = [fds[p] EXCEPT ![at[p]] = cur[p]]]
            BY <3>7, <4>2 DEF CheckStale, IsStale
          <6>2. [fds[p] EXCEPT ![at[p]] = cur[p]] \in [Paths -> Inodes \cup {NoFile}]
            BY DEF TypeInv, TypeOK
          <6> QED BY <6>1, <6>2 DEF TypeInv, TypeOK
        <5>2. pc' \in [Procs -> Labels]
          BY <3>7, <4>2 DEF CheckStale, IsStale, TypeInv, TypeOK, Labels
        <5>3. todo' \in [Procs -> SUBSET Paths]
          BY <3>7, <4>2 DEF CheckStale, IsStale, TypeInv, TypeOK
        <5>4. \A q \in Procs : pc'[q] = "token" => fds'[q] = fds[q] /\ pc[q] = "token"
          BY <3>7, <4>2 DEF CheckStale, IsStale, TypeInv, TypeOK
        <5> QED
          BY <3>7, <4>2, <5>1, <5>2, <5>3, <5>4 DEF CheckStale, IsStale, TypeInv, TypeOK, files
      <4> QED BY <4>1, <4>2
    <3>8. CASE Interrupted(p)
      BY <3>8 DEF Interrupted, TypeInv, TypeOK, Labels, files, NoFds, Closed
    <3>9. CASE SetDeletion(p)
      BY <3>9 DEF SetDeletion, TypeInv, TypeOK, Labels, files, NoFds, Closed
    <3>10. CASE Unlock(p)
      BY <3>10 DEF Unlock, TypeInv, TypeOK, Labels, files, NoFds, Closed
    <3>11. CASE UnlockNext(p)
      <4>1. PICK path \in Paths : UnlockNext(p)!2!(path)
        BY <3>11 DEF UnlockNext
      <4>2. fds[p][path] \in Inodes
        BY <4>1 DEF TypeInv, TypeOK, IsNext, Kept
      <4>3. CASE p \in deletePaths
        BY <3>11, <4>1, <4>2, <4>3 DEF UnlockNext, TypeInv, TypeOK, Labels
      <4>4. CASE p \notin deletePaths
        BY <3>11, <4>1, <4>2, <4>4 DEF UnlockNext, TypeInv, TypeOK, Labels
      <4> QED BY <4>3, <4>4
    <3>12. CASE WriteToken(p)
      BY <3>12 DEF WriteToken, TypeInv, TypeOK, Labels, files, NoFds, Closed
    <3>13. CASE CloseLock(p)
      BY <3>13 DEF CloseLock, TypeInv, TypeOK, Labels, files, NoFds, Closed
    <3>14. CASE UnlockDone(p)
      BY <3>14 DEF UnlockDone, TypeInv, TypeOK, Labels, files, NoFds, Closed
    <3>15. CASE Kill(p)
      BY <3>15 DEF Kill, Killed, TypeInv, TypeOK, Labels, files, NoFds, Closed
    <3> QED BY <2>1, <3>1, <3>2, <3>3, <3>4, <3>5, <3>7, <3>8, <3>9, <3>10, <3>11, <3>12, <3>13, <3>14, <3>15 DEF Step
  <2>2. CASE UNCHANGED vars
    BY <2>2 DEF vars, TypeInv, TypeOK
  <2> QED BY <2>1, <2>2 DEF Next
<1>3. TypeInv => TypeOK
  BY DEF TypeInv
<1> QED BY <1>1, <1>2, <1>3, PTL DEF Spec

-----------------------------------------------------------------------------
(* One step of the protocol without faults keeps the inductive invariant.  *)
LEMMA StepKeepsIInv ==
    ASSUME IInv, TypeOK', [Next]_vars
    PROVE  IInv'
<1> USE NoFileAssumption, NoProcAssumption DEF IInv, TypeOK, Holds
<1>1. ASSUME NEW p \in Procs, LockPaths(p) \/ Step(p) \/ Interrupted(p) \/ SetDeletion(p) \/ Kill(p)
      PROVE IInv'
  <2>1. CASE LockPaths(p)
    BY <2>1 DEF LockPaths, NoFds, files, HeldOK, TokenOK, CloseOK, LockingOK, CheckOK, OpenOK, NamesOK
  <2>2. CASE OpenLockFile(p)
    <3> PICK path \in todo[p], i \in Inodes : OpenLockFile(p)!2!(path, i)
      BY <2>2 DEF OpenLockFile
    <3>a. path \in Paths /\ fds[p][path] = NoFile
      BY DEF NamesOK
    <3>b. pc' = [pc EXCEPT ![p] = "trylock"] /\ UNCHANGED <<todo, fds>> /\ pc[p] = "open"
      BY <2>2 DEF OpenLockFile
    <3>1. HeldOK'
      BY <3>a, <3>b DEF Closed, Free, HeldOK, TokenOK, OpenOK
    <3>2. TokenOK'
      BY <3>a, <3>b DEF Closed, Free, HeldOK, TokenOK, OpenOK
    <3>3. CloseOK'
      BY <3>a, <3>b DEF Free, Closed, CloseOK
    <3>4. LockingOK'
      <4>1. dir'[path] = i
        BY <3>a
      <4>2. ASSUME NEW q \in Procs, q # p, pc[q] \in {"trylock", "block", "check"}
            PROVE  dir[at[q]] = cur[q] => dir'[at[q]] = cur[q]
        BY <3>a, <4>2 DEF LockingOK
      <4>3. ASSUME NEW q \in Procs, q # p, cur[q] \in stale
            PROVE  cur[q] \in stale'
        BY <4>3 DEF Free
      <4> QED BY <3>a, <3>b, <4>1, <4>2, <4>3 DEF LockingOK
    <3>5. CheckOK'
      BY <3>b DEF Closed, CheckOK, LockingOK
    <3>6. OpenOK'
      BY <3>b DEF Free, OpenOK
    <3>7. NamesOK'
      BY <3>a, <3>b DEF Free, NamesOK
    <3> QED BY <3>1, <3>2, <3>3, <3>4, <3>5, <3>6, <3>7
  <2>3. CASE TryLock(p)
    BY <2>3 DEF TryLock, files, HeldOK, TokenOK, CloseOK, LockingOK, CheckOK, OpenOK, NamesOK
  <2>4. CASE TryLockFails(p)
    <3>1. CASE p \in waiting
      BY <2>4, <3>1 DEF TryLockFails, files, HeldOK, TokenOK, CloseOK, LockingOK, CheckOK, OpenOK, NamesOK
    <3>2. CASE p \notin waiting
      <4>a. /\ pc[p] = "trylock" /\ pc' = [pc EXCEPT ![p] = "unlock"]
            /\ todo' = [todo EXCEPT ![p] = {}] /\ cur' = [cur EXCEPT ![p] = NoFile]
            /\ UNCHANGED <<dir, stale, flock, at, fds>>
        BY <2>4, <3>2 DEF TryLockFails, files
      <4>1. HeldOK' /\ TokenOK' /\ CloseOK'
        BY <4>a DEF HeldOK, TokenOK, CloseOK
      <4>2. LockingOK'
        BY <4>a DEF LockingOK
      <4>3. CheckOK' /\ OpenOK' /\ NamesOK'
        BY <4>a DEF CheckOK, OpenOK, NamesOK
      <4> QED BY <4>1, <4>2, <4>3
    <3> QED BY <3>1, <3>2
  <2>5. CASE BlockedLock(p)
    BY <2>5 DEF BlockedLock, files, HeldOK, TokenOK, CloseOK, LockingOK, CheckOK, OpenOK, NamesOK
  <2>7. CASE CheckStale(p)
    <3>1. CASE cur[p] \in stale
      BY <2>7, <3>1 DEF CheckStale, IsStale, files, HeldOK, TokenOK, CloseOK, LockingOK, CheckOK, OpenOK, NamesOK
    <3>2. CASE cur[p] \notin stale
      <4>a. /\ at[p] \in Paths /\ at[p] \in todo[p] /\ fds[p][at[p]] = NoFile
            /\ cur[p] \in Inodes /\ flock[cur[p]] = p /\ dir[at[p]] = cur[p]
        BY <2>7, <3>2 DEF CheckStale, IsStale, LockingOK, CheckOK, NamesOK, TokenOK
      <4>b. /\ pc[p] = "check" /\ pc'[p] \in {"held", "open"} /\ cur'[p] = NoFile
            /\ fds'[p] = [fds[p] EXCEPT ![at[p]] = cur[p]]
            /\ todo'[p] = todo[p] \ {at[p]}
            /\ UNCHANGED <<dir, stale, flock, at>>
        BY <2>7, <3>2 DEF CheckStale, IsStale, files
      <4>c. \A q \in Procs : q # p =>
               pc'[q] = pc[q] /\ cur'[q] = cur[q] /\ fds'[q] = fds[q] /\ todo'[q] = todo[q]
        BY <2>7, <3>2 DEF CheckStale, IsStale
      <4>1. HeldOK'
        BY SMTT(30), <3>2, <4>a, <4>b, <4>c DEF HeldOK
      <4>2. TokenOK' /\ CloseOK'
        BY <4>b, <4>c DEF TokenOK, CloseOK
      <4>3. LockingOK'
        <5> SUFFICES ASSUME NEW q \in Procs, pc'[q] \in {"trylock", "block", "check"}
                     PROVE  /\ at'[q] \in todo'[q] /\ cur'[q] \in Inodes
                            /\ \/ dir'[at'[q]] = cur'[q]
                               \/ cur'[q] \in stale'
                               \/ \E r \in Procs : pc'[r] = "token" /\ fds'[r][at'[r]] = cur'[q]
          BY DEF LockingOK
        <5>1. q # p /\ pc[q] \in {"trylock", "block", "check"}
          BY <4>b, <4>c
        <5>2. \A r \in Procs : pc[r] = "token" => pc'[r] = "token" /\ fds'[r] = fds[r]
          BY <4>b, <4>c
        <5> QED BY <4>b, <4>c, <5>1, <5>2 DEF LockingOK
      <4>4. CheckOK'
        BY <4>b, <4>c DEF CheckOK
      <4>5. OpenOK'
        BY <4>b, <4>c DEF OpenOK
      <4>6. NamesOK'
        <5>1. \A q \in Procs : pc'[q] = "idle" => pc[q] = "idle" /\ fds'[q] = fds[q]
          BY <4>b, <4>c
        <5>2. ASSUME NEW q \in Procs, NEW path \in Paths, path \in todo'[q]
              PROVE  fds'[q][path] = NoFile
          <6>1. CASE q = p
            BY <4>a, <4>b, <5>2, <6>1 DEF NamesOK
          <6>2. CASE q # p
            BY <4>c, <5>2, <6>2 DEF NamesOK
          <6> QED BY <6>1, <6>2
        <5> QED BY <4>b, <5>1, <5>2 DEF NamesOK
      <4> QED BY <4>1, <4>2, <4>3, <4>4, <4>5, <4>6
    <3> QED BY <3>1, <3>2
  <2>8. CASE Interrupted(p)
    <3>1. HeldOK'
      BY <2>8 DEF Interrupted, Closed, files, HeldOK, TokenOK, CloseOK, LockingOK, CheckOK, OpenOK, NamesOK
    <3>2. TokenOK'
      BY <2>8 DEF Interrupted, Closed, files, HeldOK, TokenOK, CloseOK, LockingOK, CheckOK, OpenOK, NamesOK
    <3>3. CloseOK'
      BY <2>8 DEF Interrupted, Closed, files, HeldOK, TokenOK, CloseOK, LockingOK, CheckOK, OpenOK, NamesOK
    <3>4. LockingOK'
      BY SMTT(30), <2>8 DEF Interrupted, Closed, files, HeldOK, TokenOK, CloseOK, LockingOK, CheckOK, OpenOK, NamesOK
    <3>5. CheckOK'
      BY <2>8 DEF Interrupted, Closed, files, HeldOK, TokenOK, CloseOK, LockingOK, CheckOK, OpenOK, NamesOK
    <3>6. OpenOK'
      BY <2>8 DEF Interrupted, Closed, files, HeldOK, TokenOK, CloseOK, LockingOK, CheckOK, OpenOK, NamesOK
    <3>7. NamesOK'
      BY <2>8 DEF Interrupted, Closed, files, HeldOK, TokenOK, CloseOK, LockingOK, CheckOK, OpenOK, NamesOK
    <3> QED BY <3>1, <3>2, <3>3, <3>4, <3>5, <3>6, <3>7
  <2>9. CASE SetDeletion(p)
    BY <2>9 DEF SetDeletion, files, HeldOK, TokenOK, CloseOK, LockingOK, CheckOK, OpenOK, NamesOK
  <2>10. CASE Unlock(p)
    BY <2>10 DEF Unlock, files, HeldOK, TokenOK, CloseOK, LockingOK, CheckOK, OpenOK, NamesOK
  <2>11. CASE UnlockNext(p)
    <3>p. PICK path \in Paths : UnlockNext(p)!2!(path)
      BY <2>11 DEF UnlockNext
    <3>a. fds[p][path] \in Inodes /\ dir[path] = fds[p][path] /\ flock[dir[path]] = p
      BY <2>11, <3>p DEF UnlockNext, IsNext, Kept, HeldOK
    <3>b. pc[p] = "unlock" /\ UNCHANGED <<stale, flock, todo, cur, fds>> /\ at'[p] = path
      BY <2>11, <3>p DEF UnlockNext
    <3>c. \A q \in Procs : q # p => pc'[q] = pc[q] /\ at'[q] = at[q]
      BY <3>p
    <3>1. CASE p \in deletePaths
      <4>a. pc'[p] = "token" /\ dir'[path] = NoFile /\ \A x \in Paths : x # path => dir'[x] = dir[x]
        BY <3>p, <3>1
      <4>1. HeldOK'
        BY <3>a, <3>b, <3>c, <4>a DEF HeldOK
      <4>2. TokenOK'
        <5>1. ASSUME NEW x \in Paths PROVE dir'[x] # fds[p][path]
          <6>1. x # path => dir[x] # dir[path]
            BY <3>a DEF NamesOK
          <6> QED BY <3>a, <4>a, <6>1
        <5>2. \A q \in Procs : pc'[q] = "token" /\ q # p =>
                 /\ at'[q] \in Paths /\ fds[q][at'[q]] \in Inodes
                 /\ flock[fds[q][at'[q]]] = q
                 /\ \A x \in Paths : dir'[x] # fds[q][at'[q]]
          BY <3>c, <4>a DEF TokenOK
        <5> QED BY <3>a, <3>b, <4>a, <5>1, <5>2 DEF TokenOK
      <4>3. CloseOK'
        <5> SUFFICES ASSUME NEW q \in Procs, pc'[q] = "close"
                     PROVE  /\ at'[q] \in Paths /\ fds'[q][at'[q]] \in Inodes
                            /\ flock'[fds'[q][at'[q]]] = q
                            /\ dir'[at'[q]] = fds'[q][at'[q]] \/ fds'[q][at'[q]] \in stale'
          BY DEF CloseOK
        <5>1. q # p
          BY <4>a
        <5>2. dir[at[q]] = fds[q][at[q]] /\ at[q] = path => fds[q][at[q]] \in stale
          BY <3>a, <3>c, <5>1 DEF CloseOK
        <5> QED BY <3>b, <3>c, <4>a, <5>1, <5>2 DEF CloseOK
      <4>4. LockingOK'
        <5> SUFFICES ASSUME NEW q \in Procs, pc'[q] \in {"trylock", "block", "check"}
                     PROVE  /\ at'[q] \in todo'[q] /\ cur'[q] \in Inodes
                            /\ \/ dir'[at'[q]] = cur'[q]
                               \/ cur'[q] \in stale'
                               \/ \E r \in Procs : pc'[r] = "token" /\ fds'[r][at'[r]] = cur'[q]
          BY DEF LockingOK
        <5>1. q # p /\ pc[q] \in {"trylock", "block", "check"} /\ at'[q] = at[q] /\ at[q] \in Paths
          BY <3>c, <4>a DEF LockingOK
        <5>2. \A r \in Procs : pc[r] = "token" => pc'[r] = "token" /\ at'[r] = at[r]
          BY <3>b, <3>c
        <5>3. CASE at[q] = path /\ dir[path] = cur[q]
          <6>1. pc'[p] = "token" /\ fds'[p][at'[p]] = cur'[q]
            BY <3>a, <3>b, <4>a, <5>3
          <6>2. at[q] \in todo[q] /\ cur[q] \in Inodes
            BY <5>1 DEF LockingOK
          <6> QED BY <3>b, <5>1, <6>1, <6>2
        <5>4. CASE ~(at[q] = path /\ dir[path] = cur[q])
          <6>1. dir[at[q]] = cur[q] => dir'[at[q]] = cur[q]
            BY <4>a, <5>1, <5>4
          <6>2. \A r \in Procs : pc[r] = "token" /\ fds[r][at[r]] = cur[q] =>
                   pc'[r] = "token" /\ fds'[r][at'[r]] = cur'[q]
            BY <3>b, <5>2
          <6> QED BY <3>b, <5>1, <6>1, <6>2 DEF LockingOK
        <5> QED BY <5>3, <5>4
      <4>5. CheckOK' /\ OpenOK'
        BY <3>b, <3>c, <4>a DEF CheckOK, OpenOK
      <4>6. NamesOK'
        <5>1. \A q \in Procs : pc'[q] = "idle" => pc[q] = "idle"
          BY <3>c, <4>a
        <5> QED BY <3>b, <4>a, <5>1 DEF NamesOK
      <4> QED BY <4>1, <4>2, <4>3, <4>4, <4>5, <4>6
    <3>2. CASE p \notin deletePaths
      <4>a. pc'[p] = "close" /\ dir' = dir
        BY <3>p, <3>2
      <4>0. HeldOK'
        BY <3>b, <3>c, <4>a DEF HeldOK
      <4>1. TokenOK'
        BY <3>b, <3>c, <4>a DEF TokenOK
      <4>2. CloseOK'
        BY <3>a, <3>b, <3>c, <4>a DEF CloseOK
      <4>3. LockingOK'
        <5>1. \A q \in Procs : pc[q] = "token" => pc'[q] = "token" /\ at'[q] = at[q]
          BY <3>b, <3>c
        <5>2. \A q \in Procs : pc'[q] \in {"trylock", "block", "check"} => pc[q] = pc'[q] /\ at'[q] = at[q]
          BY <3>c, <4>a
        <5> QED BY <3>b, <4>a, <5>1, <5>2 DEF LockingOK
      <4>4. CheckOK' /\ OpenOK'
        BY <3>b, <3>c, <4>a DEF CheckOK, OpenOK
      <4>5. NamesOK'
        BY <3>b, <3>c, <4>a DEF NamesOK
      <4> QED BY <4>0, <4>1, <4>2, <4>3, <4>4, <4>5
    <3> QED BY <3>1, <3>2
  <2>12. CASE WriteToken(p)
    <3>1. HeldOK'
      BY <2>12 DEF WriteToken, files, HeldOK, TokenOK, CloseOK, LockingOK, CheckOK, OpenOK, NamesOK
    <3>2. TokenOK'
      BY <2>12 DEF WriteToken, files, HeldOK, TokenOK, CloseOK, LockingOK, CheckOK, OpenOK, NamesOK
    <3>3. CloseOK'
      BY <2>12 DEF WriteToken, files, HeldOK, TokenOK, CloseOK, LockingOK, CheckOK, OpenOK, NamesOK
    <3>4. LockingOK'
      BY <2>12 DEF WriteToken, files, HeldOK, TokenOK, CloseOK, LockingOK, CheckOK, OpenOK, NamesOK
    <3>5. CheckOK'
      BY <2>12 DEF WriteToken, files, HeldOK, TokenOK, CloseOK, LockingOK, CheckOK, OpenOK, NamesOK
    <3>6. OpenOK'
      BY <2>12 DEF WriteToken, files, HeldOK, TokenOK, CloseOK, LockingOK, CheckOK, OpenOK, NamesOK
    <3>7. NamesOK'
      BY <2>12 DEF WriteToken, files, HeldOK, TokenOK, CloseOK, LockingOK, CheckOK, OpenOK, NamesOK
    <3> QED BY <3>1, <3>2, <3>3, <3>4, <3>5, <3>6, <3>7
  <2>13. CASE CloseLock(p)
    <3>1. HeldOK'
      BY <2>13 DEF CloseLock, Closed, files, HeldOK, TokenOK, CloseOK, LockingOK, CheckOK, OpenOK, NamesOK
    <3>2. TokenOK'
      BY <2>13 DEF CloseLock, Closed, files, HeldOK, TokenOK, CloseOK, LockingOK, CheckOK, OpenOK, NamesOK
    <3>3. CloseOK'
      BY <2>13 DEF CloseLock, Closed, files, HeldOK, TokenOK, CloseOK, LockingOK, CheckOK, OpenOK, NamesOK
    <3>4. LockingOK'
      BY <2>13 DEF CloseLock, Closed, files, HeldOK, TokenOK, CloseOK, LockingOK, CheckOK, OpenOK, NamesOK
    <3>5. CheckOK'
      BY <2>13 DEF CloseLock, Closed, files, HeldOK, TokenOK, CloseOK, LockingOK, CheckOK, OpenOK, NamesOK
    <3>6. OpenOK'
      BY <2>13 DEF CloseLock, Closed, files, HeldOK, TokenOK, CloseOK, LockingOK, CheckOK, OpenOK, NamesOK
    <3>7. NamesOK'
      BY <2>13 DEF CloseLock, Closed, files, HeldOK, TokenOK, CloseOK, LockingOK, CheckOK, OpenOK, NamesOK
    <3> QED BY <3>1, <3>2, <3>3, <3>4, <3>5, <3>6, <3>7
  <2>14. CASE UnlockDone(p)
    <3>a. /\ pc[p] = "unlock" /\ fds[p] = NoFds /\ pc' = [pc EXCEPT ![p] = "idle"]
          /\ at' = [at EXCEPT ![p] = NoFile]
          /\ UNCHANGED <<dir, stale, flock, todo, cur, fds>>
      BY <2>14 DEF UnlockDone, files
    <3>1. HeldOK'
      BY <3>a DEF HeldOK
    <3>2. TokenOK' /\ CloseOK'
      BY <3>a DEF TokenOK, CloseOK
    <3>3. LockingOK'
      BY <3>a DEF LockingOK
    <3>4. CheckOK' /\ OpenOK'
      BY <3>a DEF CheckOK, OpenOK
    <3>5. NamesOK'
      BY <3>a DEF NamesOK
    <3> QED BY <3>1, <3>2, <3>3, <3>4, <3>5
  <2>15. CASE Kill(p)
    <3>1. HeldOK'
      BY <2>15 DEF Kill, Killed, NoFds, files, HeldOK, TokenOK, CloseOK, LockingOK, CheckOK, OpenOK, NamesOK
    <3>2. TokenOK'
      BY <2>15 DEF Kill, Killed, NoFds, files, HeldOK, TokenOK, CloseOK, LockingOK, CheckOK, OpenOK, NamesOK
    <3>3. CloseOK'
      BY <2>15 DEF Kill, Killed, NoFds, files, HeldOK, TokenOK, CloseOK, LockingOK, CheckOK, OpenOK, NamesOK
    <3>4. LockingOK'
      BY <2>15 DEF Kill, Killed, NoFds, files, HeldOK, TokenOK, CloseOK, LockingOK, CheckOK, OpenOK, NamesOK
    <3>5. CheckOK'
      BY <2>15 DEF Kill, Killed, NoFds, files, HeldOK, TokenOK, CloseOK, LockingOK, CheckOK, OpenOK, NamesOK
    <3>6. OpenOK'
      BY <2>15 DEF Kill, Killed, NoFds, files, HeldOK, TokenOK, CloseOK, LockingOK, CheckOK, OpenOK, NamesOK
    <3>7. NamesOK'
      BY <2>15 DEF Kill, Killed, NoFds, files, HeldOK, TokenOK, CloseOK, LockingOK, CheckOK, OpenOK, NamesOK
    <3> QED BY <3>1, <3>2, <3>3, <3>4, <3>5, <3>6, <3>7
  <2> QED BY <1>1, <2>1, <2>2, <2>3, <2>4, <2>5, <2>7, <2>8, <2>9, <2>10, <2>11, <2>12, <2>13, <2>14, <2>15 DEF Step
<1>2. CASE UNCHANGED vars
  BY <1>2 DEF vars, IInv, TypeOK, Holds, HeldOK, TokenOK, CloseOK, LockingOK, CheckOK, OpenOK, NamesOK
<1> QED BY <1>1, <1>2 DEF Next

(* Two lockPaths never own the same path at once: for any number of        *)
(* processes, paths and lock files, as long as no flock() is interrupted   *)
(* and no process dies between the unlink and the token of deleteLockFile. *)
THEOREM MutualExclusionHolds == Spec => []MutualExclusion
<1>1. Init => IInv
  BY NoFileAssumption DEF Init, IInv, TypeOK, NoFds, Labels, Holds, HeldOK, TokenOK, CloseOK, LockingOK, CheckOK, OpenOK, NamesOK
<1>2. IInv /\ TypeOK' /\ [Next]_vars => IInv'
  BY StepKeepsIInv
<1>3. IInv => MutualExclusion
  BY DEF IInv, HeldOK, MutualExclusion
<1> QED BY <1>1, <1>2, <1>3, TypeCorrect, PTL DEF Spec

-----------------------------------------------------------------------------
(* A name that stood for a file stands for another one, or for none, only  *)
(* after the tryUnlink of deleteLockFile.                                  *)
LEMMA WhoRemovesNames ==
    ASSUME TypeOK, [Next]_vars,
           NEW path \in Paths, dir[path] # NoFile, dir'[path] # dir[path]
    PROVE  \E p \in Procs : UnlockNext(p) /\ at'[p] = path /\ pc'[p] = "token"
<1>1. CASE UNCHANGED vars
  BY <1>1 DEF vars, files
<1>2. ASSUME NEW p \in Procs, OpenLockFile(p) PROVE dir'[path] = dir[path]
  BY <1>2 DEF OpenLockFile, TypeOK
<1>3. ASSUME NEW p \in Procs, UnlockNext(p)
      PROVE  at'[p] = path /\ pc'[p] = "token"
  <2>1. PICK x \in Paths :
            /\ at' = [at EXCEPT ![p] = x]
            /\ \/ dir' = [dir EXCEPT ![x] = NoFile] /\ pc' = [pc EXCEPT ![p] = "token"]
               \/ UNCHANGED dir
    BY <1>3 DEF UnlockNext
  <2>2. x = path /\ pc' = [pc EXCEPT ![p] = "token"]
    BY <2>1 DEF TypeOK
  <2> QED BY <2>1, <2>2 DEF TypeOK
<1>4. ASSUME NEW p \in Procs,
             \/ LockPaths(p) \/ TryLock(p) \/ TryLockFails(p) \/ BlockedLock(p)
             \/ CheckStale(p) \/ Unlock(p) \/ WriteToken(p) \/ CloseLock(p) \/ UnlockDone(p)
             \/ Interrupted(p) \/ SetDeletion(p) \/ Kill(p)
      PROVE  dir' = dir
  BY <1>4 DEF LockPaths, TryLock, TryLockFails, BlockedLock, CheckStale, Unlock, WriteToken, CloseLock, UnlockDone, Interrupted, SetDeletion, Kill, Killed, files
<1> QED BY <1>1, <1>2, <1>3, <1>4 DEF Next, Step

(* deleteLockFile removes a lock file only while its caller has the flock  *)
(* on that very file, for any number of processes, paths and lock files    *)
(* and without the two faults.                                             *)
THEOREM RemovalByOwnerHolds == Spec => RemovalByOwner
<1>1. Init => IInv
  BY NoFileAssumption DEF Init, IInv, TypeOK, NoFds, Labels, Holds, HeldOK, TokenOK, CloseOK, LockingOK, CheckOK, OpenOK, NamesOK
<1>2. IInv /\ TypeOK' /\ [Next]_vars => IInv'
  BY StepKeepsIInv
<1>3. ASSUME IInv, [Next]_vars,
             NEW path \in Paths, dir[path] # NoFile, dir'[path] # dir[path]
      PROVE  \E p \in Procs :
                /\ pc[p] = "unlock" /\ pc'[p] = "token" /\ at'[p] = path
                /\ flock[dir[path]] = p
  <2>1. PICK p \in Procs : UnlockNext(p) /\ at'[p] = path /\ pc'[p] = "token"
    BY <1>3, WhoRemovesNames DEF IInv
  <2>2. pc[p] = "unlock" /\ fds[p][path] # NoFile
    BY <1>3, <2>1 DEF UnlockNext, IsNext, Kept, IInv, TypeOK
  <2>3. Holds(p, path)
    BY <2>2 DEF Holds
  <2>4. flock[dir[path]] = p
    BY <1>3, <2>3 DEF IInv, HeldOK
  <2> QED BY <2>1, <2>2, <2>4
<1>4. IInv /\ [Next]_vars =>
        [\A path \in Paths :
          dir[path] # NoFile /\ dir'[path] # dir[path] =>
             \E p \in Procs :
                /\ pc[p] = "unlock" /\ pc'[p] = "token" /\ at'[p] = path
                /\ flock[dir[path]] = p]_vars
  BY <1>3
<1> QED BY <1>1, <1>2, <1>4, TypeCorrect, PTL DEF Spec, RemovalByOwner

-----------------------------------------------------------------------------
(* A lock belongs to an open descriptor: `fd` past a flock(), or one of    *)
(* `fds`.                                                                  *)
FlockOK ==
    \A p \in Procs, i \in Inodes : flock[i] = p =>
        \/ pc[p] \in {"check", "open"} /\ cur[p] = i
        \/ \E path \in Paths : fds[p][path] = i

(* A name or a descriptor refers to file i as the lock file of path x.     *)
Refers(i, x) ==
    \/ dir[x] = i
    \/ \E p \in Procs : cur[p] = i /\ at[p] = x
    \/ \E p \in Procs : fds[p][x] = i

(* While anything refers to a file it is the lock file of one path: an     *)
(* inode is reused only when its last name and descriptor are gone.        *)
OnePathOK ==
    \A i \in Inodes, x, y \in Paths : Refers(i, x) /\ Refers(i, y) => x = y

(* lockPaths works upwards: what it has is below what it still wants, and  *)
(* it is at the lowest path that it wants.                                 *)
SortedOK ==
    \A p \in Procs :
        /\ \A x \in Paths, y \in todo[p] : fds[p][x] # NoFile => x < y
        /\ cur[p] # NoFile => IsNext(at[p], todo[p])

OrderInv == FlockOK /\ OnePathOK /\ SortedOK

(* One step of the protocol keeps the order of the locks.                  *)
LEMMA StepKeepsOrder ==
    ASSUME IInv, OrderInv, IInv', [Next]_vars
    PROVE  OrderInv'
<1> USE NoFileAssumption, NoProcAssumption, PathsAssumption DEF IInv, OrderInv, TypeOK
<1>1. ASSUME NEW p \in Procs, LockPaths(p) \/ Step(p) \/ Interrupted(p) \/ SetDeletion(p) \/ Kill(p)
      PROVE OrderInv'
  <2>1. CASE LockPaths(p)
    <3>1. FlockOK'
      BY <2>1 DEF LockPaths, files, FlockOK
    <3>2. OnePathOK'
      <4>1. \A i \in Inodes, x \in Paths : Refers(i, x)' => Refers(i, x)
        BY <2>1 DEF Refers, LockPaths, files
      <4> QED BY <4>1 DEF OnePathOK
    <3>3. SortedOK'
      BY <2>1 DEF LockPaths, files, NoFds, SortedOK, OpenOK
    <3> QED BY <3>1, <3>2, <3>3
  <2>2. CASE OpenLockFile(p)
    <3> PICK path \in todo[p], i \in Inodes : OpenLockFile(p)!2!(path, i)
      BY <2>2 DEF OpenLockFile
    <3>a. pc' = [pc EXCEPT ![p] = "trylock"] /\ UNCHANGED <<todo, fds>> /\ pc[p] = "open"
      BY <2>2 DEF OpenLockFile
    <3>b. path \in Paths /\ at'[p] = path /\ cur'[p] = i /\ dir'[path] = i
      OBVIOUS
    <3>c. \A q \in Procs : q # p => at'[q] = at[q] /\ cur'[q] = cur[q] /\ pc'[q] = pc[q]
      BY <3>a
    <3>1. FlockOK'
      BY <3>a, <3>b, <3>c DEF FlockOK, Closed
    <3>2. OnePathOK'
      <4>1. \A x \in Paths : Refers(i, x) => x = path
        <5>1. CASE dir[path] = i
          BY <3>b, <5>1 DEF OnePathOK, Refers
        <5>2. CASE Free(i)
          BY <3>b, <5>2 DEF Free, Refers
        <5> QED BY <5>1, <5>2
      <4>2. \A j \in Inodes, x \in Paths :
               Refers(j, x)' => Refers(j, x) \/ (j = i /\ x = path)
        BY <3>a, <3>b, <3>c DEF Refers
      <4> QED BY <4>1, <4>2 DEF OnePathOK
    <3>3. SortedOK'
      BY <3>a, <3>b, <3>c DEF SortedOK, IsNext
    <3> QED BY <3>1, <3>2, <3>3
  <2>3. CASE TryLock(p) \/ BlockedLock(p)
    <3>1. FlockOK'
      BY <2>3 DEF TryLock, BlockedLock, FlockOK
    <3>2. OnePathOK'
      <4>1. \A i \in Inodes, x \in Paths : Refers(i, x)' => Refers(i, x)
        BY <2>3 DEF Refers, TryLock, BlockedLock
      <4> QED BY <4>1 DEF OnePathOK
    <3>3. SortedOK'
      BY <2>3 DEF TryLock, BlockedLock, SortedOK, IsNext
    <3> QED BY <3>1, <3>2, <3>3
  <2>4. CASE TryLockFails(p)
    <3>a. /\ pc[p] = "trylock" /\ pc'[p] \in {"block", "unlock"}
          /\ cur'[p] \in {cur[p], NoFile} /\ todo'[p] \in {todo[p], {}}
          /\ cur'[p] # NoFile => todo'[p] = todo[p]
          /\ UNCHANGED <<dir, flock, at, fds>>
          /\ \A q \in Procs : q # p => pc'[q] = pc[q] /\ cur'[q] = cur[q] /\ todo'[q] = todo[q]
      <4>1. CASE p \in waiting
        BY <2>4, <4>1 DEF TryLockFails, files
      <4>2. CASE p \notin waiting
        BY <2>4, <4>2 DEF TryLockFails, files
      <4> QED BY <4>1, <4>2
    <3>1. FlockOK'
      BY <3>a DEF FlockOK
    <3>2. OnePathOK'
      <4>1. \A i \in Inodes, x \in Paths : Refers(i, x)' => Refers(i, x)
        BY <3>a DEF Refers
      <4> QED BY <4>1 DEF OnePathOK
    <3>3. SortedOK'
      BY <3>a DEF SortedOK, IsNext
    <3> QED BY <3>1, <3>2, <3>3
  <2>5. CASE CheckStale(p)
    <3>1. CASE cur[p] \in stale
      BY <2>5, <3>1 DEF CheckStale, IsStale, files, FlockOK, OnePathOK, Refers, SortedOK, IsNext
    <3>2. CASE cur[p] \notin stale
      <4>a. at[p] \in Paths /\ at[p] \in todo[p] /\ cur[p] \in Inodes /\ fds[p][at[p]] = NoFile
        <5>1. at[p] \in todo[p] /\ cur[p] \in Inodes
          BY <2>5 DEF CheckStale, LockingOK
        <5> QED BY <5>1 DEF NamesOK
      <4>b. /\ cur'[p] = NoFile /\ fds'[p] = [fds[p] EXCEPT ![at[p]] = cur[p]]
            /\ todo'[p] = todo[p] \ {at[p]} /\ pc[p] = "check"
            /\ UNCHANGED <<dir, flock, at>>
        BY <2>5, <3>2 DEF CheckStale, IsStale, files
      <4>c. \A q \in Procs : q # p =>
               pc'[q] = pc[q] /\ cur'[q] = cur[q] /\ fds'[q] = fds[q] /\ todo'[q] = todo[q]
        BY <2>5, <3>2 DEF CheckStale, IsStale
      <4>d. /\ fds'[p][at[p]] = cur[p]
            /\ \A x \in Paths : x # at[p] => fds'[p][x] = fds[p][x]
        BY <4>a, <4>b
      <4>1. FlockOK'
        <5> SUFFICES ASSUME NEW q \in Procs, NEW j \in Inodes, flock[j] = q
                     PROVE  \/ pc'[q] \in {"check", "open"} /\ cur'[q] = j
                            \/ \E x \in Paths : fds'[q][x] = j
          BY <4>b DEF FlockOK
        <5>1. CASE q # p
          BY <4>c, <5>1 DEF FlockOK
        <5>2. CASE q = p /\ cur[p] = j
          BY <4>a, <4>d, <5>2
        <5>3. CASE q = p /\ cur[p] # j
          <6>1. PICK x \in Paths : fds[p][x] = j
            BY <5>3 DEF FlockOK
          <6>2. fds'[p][x] = j
            BY <4>a, <4>d, <6>1
          <6> QED BY <5>3, <6>2
        <5> QED BY <5>1, <5>2, <5>3
      <4>2. OnePathOK'
        <5>1. ASSUME NEW i \in Inodes, NEW x \in Paths, Refers(i, x)'
              PROVE  Refers(i, x)
          <6>1. CASE \E q \in Procs : fds'[q][x] = i
            <7>1. PICK q \in Procs : fds'[q][x] = i
              BY <6>1
            <7>2. fds[q][x] = i \/ (q = p /\ x = at[p] /\ cur[p] = i)
              BY <4>a, <4>c, <4>d, <7>1
            <7> QED BY <7>2 DEF Refers
          <6>2. CASE ~ \E q \in Procs : fds'[q][x] = i
            BY <4>b, <4>c, <5>1, <6>2 DEF Refers
          <6> QED BY <6>1, <6>2
        <5> QED BY <5>1 DEF OnePathOK
      <4>3. SortedOK'
        <5>1. ASSUME NEW x \in Paths, NEW y \in todo'[p], fds'[p][x] # NoFile
              PROVE  x < y
          <6>1. y \in todo[p] /\ y # at[p] /\ at[p] <= y
            BY <4>a, <4>b DEF SortedOK, IsNext
          <6>2. CASE x = at[p]
            <7>1. x \in Nat /\ y \in Nat /\ x <= y /\ x # y
              BY <4>a, <6>1, <6>2
            <7> HIDE DEF IInv, OrderInv, TypeOK
            <7> QED BY <7>1
          <6>3. CASE x # at[p]
            BY <4>d, <5>1, <6>1, <6>3 DEF SortedOK
          <6> QED BY <6>2, <6>3
        <5> QED BY <4>b, <4>c, <5>1 DEF SortedOK
      <4> QED BY <4>1, <4>2, <4>3
    <3> QED BY <3>1, <3>2
  <2>6. CASE Interrupted(p)
    <3>a. /\ pc[p] \in {"open", "block"} /\ todo'[p] = {} /\ cur'[p] = NoFile
          /\ flock' = Closed(flock, p, cur[p])
          /\ UNCHANGED <<dir, at, fds>>
          /\ \A q \in Procs : q # p => pc'[q] = pc[q] /\ cur'[q] = cur[q] /\ todo'[q] = todo[q]
      BY <2>6 DEF Interrupted
    <3>1. FlockOK'
      BY <3>a DEF FlockOK, Closed
    <3>2. OnePathOK'
      <4>1. \A i \in Inodes, x \in Paths : Refers(i, x)' => Refers(i, x)
        BY <3>a DEF Refers
      <4> QED BY <4>1 DEF OnePathOK
    <3>3. SortedOK'
      BY <3>a DEF SortedOK
    <3> QED BY <3>1, <3>2, <3>3
  <2>7. CASE SetDeletion(p) \/ Unlock(p) \/ WriteToken(p)
    <3>a. /\ UNCHANGED <<dir, flock, todo, at, cur, fds>>
          /\ pc[p] \notin {"check", "open"}
          /\ \A q \in Procs : q # p => pc'[q] = pc[q]
      BY <2>7 DEF SetDeletion, Unlock, WriteToken, files
    <3>1. FlockOK'
      BY <3>a DEF FlockOK
    <3>2. OnePathOK'
      <4>1. \A i \in Inodes, x \in Paths : Refers(i, x)' => Refers(i, x)
        BY <3>a DEF Refers
      <4> QED BY <4>1 DEF OnePathOK
    <3>3. SortedOK'
      BY <3>a DEF SortedOK, IsNext
    <3> QED BY <3>1, <3>2, <3>3
  <2>8. CASE UnlockNext(p)
    <3>a. /\ UNCHANGED <<flock, todo, cur, fds>> /\ pc[p] = "unlock" /\ cur[p] = NoFile
          /\ \A q \in Procs : q # p => pc'[q] = pc[q] /\ at'[q] = at[q]
          /\ \A x \in Paths : dir'[x] \in {dir[x], NoFile}
      BY <2>8 DEF UnlockNext, OpenOK
    <3>1. FlockOK'
      BY <3>a DEF FlockOK
    <3>2. OnePathOK'
      <4>1. \A i \in Inodes, x \in Paths : Refers(i, x)' => Refers(i, x)
        BY <3>a DEF Refers
      <4> QED BY <4>1 DEF OnePathOK
    <3>3. SortedOK'
      BY <3>a DEF SortedOK
    <3> QED BY <3>1, <3>2, <3>3
  <2>9. CASE CloseLock(p)
    <3>a. /\ pc[p] = "close" /\ cur[p] = NoFile /\ at[p] \in Paths
          /\ flock' = Closed(flock, p, fds[p][at[p]])
          /\ fds'[p] = [fds[p] EXCEPT ![at[p]] = NoFile]
          /\ UNCHANGED <<dir, at, todo, cur>>
          /\ \A q \in Procs : q # p => pc'[q] = pc[q] /\ fds'[q] = fds[q]
      BY <2>9 DEF CloseLock, OpenOK, CloseOK
    <3>1. FlockOK'
      <4> SUFFICES ASSUME NEW q \in Procs, NEW j \in Inodes, flock'[j] = q
                   PROVE  \/ pc'[q] \in {"check", "open"} /\ cur'[q] = j
                          \/ \E x \in Paths : fds'[q][x] = j
        BY DEF FlockOK
      <4>1. flock[j] = q /\ (q = p => j # fds[p][at[p]])
        BY <3>a DEF Closed
      <4>2. CASE q # p
        BY <3>a, <4>1, <4>2 DEF FlockOK
      <4>3. CASE q = p
        <5>1. PICK x \in Paths : fds[p][x] = j
          BY <3>a, <4>1, <4>3 DEF FlockOK
        <5>2. fds'[p][x] = j
          BY <3>a, <4>1, <4>3, <5>1
        <5> QED BY <4>3, <5>2
      <4> QED BY <4>2, <4>3
    <3>2. \A q \in Procs, x \in Paths : fds'[q][x] # NoFile => fds'[q][x] = fds[q][x]
      BY SMTT(30), <3>a
    <3>3. OnePathOK'
      <4>1. \A i \in Inodes, x \in Paths : Refers(i, x)' => Refers(i, x)
        BY <3>a, <3>2 DEF Refers
      <4> QED BY <4>1 DEF OnePathOK
    <3>4. SortedOK'
      BY <3>a, <3>2 DEF SortedOK
    <3> QED BY <3>1, <3>3, <3>4
  <2>10. CASE UnlockDone(p)
    <3>a. /\ pc[p] = "unlock" /\ cur[p] = NoFile
          /\ UNCHANGED <<dir, flock, todo, cur, fds>>
          /\ \A q \in Procs : q # p => pc'[q] = pc[q] /\ at'[q] = at[q]
      BY <2>10 DEF UnlockDone, files, OpenOK
    <3>1. FlockOK'
      BY <3>a DEF FlockOK
    <3>2. OnePathOK'
      <4>1. \A i \in Inodes, x \in Paths : Refers(i, x)' => Refers(i, x)
        BY <3>a DEF Refers
      <4> QED BY <4>1 DEF OnePathOK
    <3>3. SortedOK'
      BY <3>a DEF SortedOK
    <3> QED BY <3>1, <3>2, <3>3
  <2>11. CASE Kill(p)
    <3>a. /\ cur'[p] = NoFile /\ fds'[p] = NoFds /\ todo'[p] = {} /\ dir' = dir
          /\ \A i \in Inodes : flock'[i] # p /\ flock'[i] \in {flock[i], NoProc}
          /\ \A q \in Procs : q # p => /\ pc'[q] = pc[q] /\ cur'[q] = cur[q] /\ at'[q] = at[q]
                                       /\ fds'[q] = fds[q] /\ todo'[q] = todo[q]
      BY <2>11 DEF Kill, Killed
    <3>1. FlockOK'
      BY <3>a DEF FlockOK
    <3>2. OnePathOK'
      <4>1. \A i \in Inodes, x \in Paths : Refers(i, x)' => Refers(i, x)
        BY <3>a DEF Refers, NoFds
      <4> QED BY <4>1 DEF OnePathOK
    <3>3. SortedOK'
      BY <3>a DEF SortedOK
    <3> QED BY <3>1, <3>2, <3>3
  <2> QED BY <1>1, <2>1, <2>2, <2>3, <2>4, <2>5, <2>6, <2>7, <2>8, <2>9, <2>10, <2>11 DEF Step
<1>2. CASE UNCHANGED vars
  <2>1. FlockOK' /\ SortedOK'
    BY <1>2 DEF vars, FlockOK, SortedOK, IsNext
  <2>2. \A i \in Inodes, x \in Paths : Refers(i, x)' => Refers(i, x)
    BY <1>2 DEF vars, Refers
  <2> QED BY <2>1, <2>2 DEF OnePathOK
<1> QED BY <1>1, <1>2 DEF Next

(* Both invariants hold in every reachable state.                          *)
LEMMA InvariantsHold == Spec => [](IInv /\ OrderInv)
<1>1. Init => IInv /\ OrderInv
  BY NoFileAssumption, NoProcAssumption DEF Init, IInv, TypeOK, NoFds, Labels, Holds, HeldOK, TokenOK, CloseOK, LockingOK, CheckOK, OpenOK, NamesOK, OrderInv, FlockOK, OnePathOK, Refers, SortedOK
<1>2. IInv /\ TypeOK' /\ [Next]_vars => IInv'
  BY StepKeepsIInv
<1>3. IInv /\ OrderInv /\ IInv' /\ [Next]_vars => OrderInv'
  BY StepKeepsOrder
<1> QED BY <1>1, <1>2, <1>3, TypeCorrect, PTL DEF Spec

(* Whoever is back from lockPaths with false or an exception, or from      *)
(* unlock(), has no lock on any lock file, current or removed.             *)
THEOREM NothingLeftBehindHolds == Spec => []NothingLeftBehind
<1>1. IInv /\ OrderInv => NothingLeftBehind
  BY NoFileAssumption DEF IInv, OrderInv, TypeOK, NamesOK, NoFds, FlockOK, NothingLeftBehind
<1> QED BY <1>1, InvariantsHold, PTL

(* Somebody who waits for a process that waits itself is at a lower path;  *)
(* so there is no circle of any length.                                    *)
LEMMA WaitsUpwards ==
    ASSUME IInv, OrderInv, NEW p \in Procs, NEW q \in Procs, WaitsFor(p, q), pc[q] = "block"
    PROVE  at[p] \in Nat /\ at[q] \in Nat /\ at[p] < at[q]
<1>1. cur[p] \in Inodes /\ cur[q] \in Inodes /\ at[p] \in Paths /\ at[q] \in todo[q]
  BY DEF IInv, LockingOK, TypeOK, WaitsFor
<1>2. PICK x \in Paths : fds[q][x] = cur[p]
  BY <1>1 DEF OrderInv, FlockOK, WaitsFor
<1>3. x = at[p]
  BY <1>1, <1>2 DEF OrderInv, OnePathOK, Refers
<1>4. at[p] < at[q]
  BY <1>1, <1>2, <1>3, NoFileAssumption DEF OrderInv, SortedOK
<1> QED BY <1>1, <1>4, PathsAssumption DEF IInv, TypeOK

(* The sorted order of lockPaths excludes a deadlock, although lock files  *)
(* are removed and re-created while processes wait for them.               *)
THEOREM NoCircularWaitHolds == Spec => []NoCircularWait
<1>1. IInv /\ OrderInv => NoCircularWait
  <2> SUFFICES ASSUME IInv, OrderInv, NEW p \in Procs, NEW q \in Procs, NEW r \in Procs,
                      WaitsFor(p, q), WaitsFor(q, p) \/ (WaitsFor(q, r) /\ WaitsFor(r, p))
               PROVE  FALSE
    BY DEF NoCircularWait
  <2>1. at[p] \in Nat /\ at[q] \in Nat /\ at[p] < at[q]
    BY WaitsUpwards DEF WaitsFor
  <2>2. CASE WaitsFor(q, p)
    <3>1. at[q] < at[p]
      BY <2>2, WaitsUpwards DEF WaitsFor
    <3> QED BY <2>1, <3>1
  <2>3. CASE WaitsFor(q, r) /\ WaitsFor(r, p)
    <3>1. at[r] \in Nat /\ at[q] < at[r]
      BY <2>3, WaitsUpwards DEF WaitsFor
    <3>2. at[r] < at[p]
      BY <2>3, WaitsUpwards DEF WaitsFor
    <3> QED BY <2>1, <3>1, <3>2
  <2> QED BY <2>2, <2>3
<1> QED BY <1>1, InvariantsHold, PTL

=============================================================================
