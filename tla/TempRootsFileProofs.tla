------------------------- MODULE TempRootsFileProofs -------------------------
(* The temporary-roots file is never lost to a collector as long as the    *)
(* file name is not taken over by a second process.                        *)
EXTENDS TempRootsFile, TLAPS

(* A collector that has not unlinked yet has the file the name stands for; *)
(* after the unlink nothing gives the name back to that file.              *)
CollectorOK ==
    /\ gpc \in {"trylock", "unlink"} => gfd \in Inodes /\ name = gfd
    /\ gpc \in {"unlink", "token"} => gfd \in Inodes /\ flock[gfd] = "gc"
    /\ gpc = "token" => name # gfd
    /\ gpc = "idle" => gfd = None

(* The file being locked is the named, empty one, or it was unlinked and   *)
(* has the token, or is about to get it from the collector that locked it. *)
OwnerOK ==
    /\ pc # "unlink"
    /\ pc \in {"exists", "open"} => name = None
    /\ pc \in {"lock", "check"} =>
          /\ fd \in Inodes
          /\ \/ name = fd /\ size[fd] = "empty"
             \/ name = None /\ size[fd] = "token"
             \/ name = None /\ pc = "lock" /\ gpc = "token" /\ gfd = fd
    /\ pc \in {"check", "ready"} => flock[fd] = "owner"
    /\ pc = "ready" => fd \in Inodes /\ name = fd

(* Both parts hold until a second process takes the name over.             *)
IInv == TypeOK /\ (owner = 1 => CollectorOK /\ OwnerOK)

(* createTempRootsFile and findTempRoots keep the inductive invariant.     *)
LEMMA StepKeepsIInv ==
    ASSUME IInv, [Next]_vars
    PROVE  IInv'
<1> USE TempRootsFileAssumption DEF IInv, TypeOK, CollectorOK, OwnerOK
<1>1. CASE PathExists
  BY <1>1 DEF PathExists
<1>2. CASE UnlinkStale
  BY <1>2 DEF UnlinkStale
<1>3. CASE OpenFile
  BY <1>3 DEF OpenFile, Closed
<1>4. CASE LockFile
  BY <1>4 DEF LockFile
<1>5. CASE CheckSize
  BY <1>5 DEF CheckSize, InTheWay
<1>6. CASE WriteRoot
  BY <1>6 DEF WriteRoot
<1>7. CASE OwnerDies
  BY <1>7 DEF OwnerDies, Closed
<1>8. CASE PidReused
  BY <1>8 DEF PidReused
<1>9. CASE GCOpen
  BY <1>9 DEF GCOpen
<1>10. CASE GCTryLock
  BY <1>10 DEF GCTryLock, OwnerGone
<1>11. CASE GCUnlink
  BY <1>11 DEF GCUnlink
<1>12. CASE GCWriteToken
  BY <1>12 DEF GCWriteToken
<1>13. CASE GCClose
  BY <1>13 DEF GCClose, Closed
<1>14. CASE UNCHANGED vars
  BY <1>14 DEF vars
<1> QED BY <1>1, <1>2, <1>3, <1>4, <1>5, <1>6, <1>7, <1>8, <1>9, <1>10, <1>11, <1>12, <1>13, <1>14
        DEF Next, Create, Scan

(* "It won't delete the file after we get a lock": while the process that  *)
(* made the file is the only one with that name, its roots stay where the  *)
(* next collector looks for them, for any number of scans.                 *)
THEOREM RootsVisibleHolds ==
    Spec => []RootsVisible
<1>1. Init => IInv
  BY TempRootsFileAssumption DEF Init, IInv, TypeOK, CollectorOK, OwnerOK
<1>2. IInv /\ [Next]_vars => IInv'
  BY StepKeepsIInv
<1>3. IInv => RootsVisible
  BY DEF IInv, OwnerOK, RootsVisible
<1> QED BY <1>1, <1>2, <1>3, PTL DEF Spec
=============================================================================
