------------------------- MODULE GarbageSweepProofs -------------------------
(* A sweep is thorough: proof that the collector leaves nothing behind     *)
(* without a reason, for any processes, paths, references, settings and    *)
(* number of collector runs.                                               *)
EXTENDS GarbageCollectorProofs

Searching == {"bfs", "visit"}
Removing == {"delete", "invalidate", "unlink"}

(* The references only of a path, as invalidatePathChecked sees them: the  *)
(* deletion of a referenced path fails, that of a deriver does not.        *)
RefsOf(Y, S) == UNION {Refs[y] : y \in Y \cap S}

RefClosure(x, S) ==
    {y \in Paths : \A Y \in SUBSET Paths : x \in Y /\ RefsOf(Y, S) \subseteq Y => y \in Y}

(* A root that arrives for the path that is being deleted does not count   *)
(* before invalidatePathChecked has decided about it.                      *)
Decided(X) == X \ (IF gcpc = "invalidate" THEN {cur} ELSE {})

HeldBy(X, S) == UNION {RefClosure(x, S) : x \in X}

Held == HeldBy(Decided(Seeds), valid)

(* Nothing is left in the collector's tables from an earlier run.          *)
FreshTables ==
    gcpc \in {"off", "locked", "scan"} => alive = {} /\ dead = {} /\ cache = NoCache

(* A referrer y of v that was deleted; if it was marked alive, so was v.   *)
Gone(y, v) == y \in dead /\ (y \in alive => v \in alive)

(* A cache entry names referrers that are valid or were deleted since, and *)
(* misses only those that clients made since.                              *)
CacheOK ==
    \A v \in Paths : cache[v] # {NoPath} =>
        /\ \A y \in cache[v] : v \in Refs[y] /\ (y \in valid \/ Gone(y, v))
        /\ Referrers(v) \subseteq cache[v] \cup AllRoots

(* A path off the queue is dead, or no root, with all its referrers        *)
(* visited but those that clients made since.                              *)
VisitedOK ==
    /\ start \in visited /\ todo \subseteq visited
    /\ \A v \in visited \ todo :
          \/ v \in dead
          \/ /\ v \notin roots
             /\ gcpc \in Searching => v \notin alive
             /\ (gcpc = "visit" /\ v = cur) \/ Referrers(v) \subseteq visited \cup AllRoots

(* From every path that the search can stop at, the closure leads down to  *)
(* its start.                                                              *)
LeadsToStart ==
    \A v \in visited : v = start \/ v \in dead \ alive \/ start \in Closure(v, valid)

(* What is left of the sorted paths, and what became valid after the sort. *)
(* A path among them can be alive by the closure of a late root only,      *)
(* which has its references too.                                           *)
RestOK ==
    /\ todo = {} /\ rest \subseteq visited /\ visited \subseteq rest \cup dead
    /\ rest \cap valid \subseteq sorted \cup AllRoots
    /\ \A z \in (rest \ dead) \cap alive \cap valid : z \in AllRoots \/ Refs[z] \subseteq alive

(* The path in the hands of invalidatePathChecked.                         *)
CurOK ==
    /\ Referrers(cur) \ {cur} \subseteq Held
    /\ cur \in alive \cap valid => Refs[cur] \subseteq alive

(* The state of one call of maybeDeleteReferrersClosure.                   *)
SearchState ==
    /\ gcpc \in Searching \cup Removing => VisitedOK
    /\ gcpc \in Searching => LeadsToStart
    /\ gcpc = "visit" => cur \in visited \ (todo \cup dead)
    /\ gcpc \in Removing => RestOK
    /\ gcpc \in Deleting => cur \in dead
    /\ gcpc = "invalidate" => CurOK

Doomed == IF gcpc \in Deleting THEN {cur} ELSE {}
InProgress == IF gcpc \in Searching \cup Removing THEN {start} ELSE {}

(* What the collector has judged: a dead path is gone or held, and so is   *)
(* every entry it has read.                                                *)
Judged ==
    gcpc \in Sweeping \cup {"stop"} =>
        /\ scanned = Procs
        /\ CacheOK
        /\ dead \cap disk \subseteq Held \cup Doomed
        /\ disk \ entries \subseteq Held \cup Doomed \cup InProgress

SweepInv == FreshTables /\ Judged /\ SearchState

(* The settings keep-outputs and keep-derivations are off, so that the     *)
(* closures follow references only.                                        *)
ReferencesOnly == ~KeepOutputs /\ ~KeepDerivations

(* Then every path that is marked alive stays in the closure of a root.    *)
Live == HeldBy(Decided(AllRoots), valid)

AliveLive == gcpc \in Sweeping \cup {"stop"} => alive \subseteq Live

(* A sweep that was not cut short leaves, of what it read in the           *)
(* directory, only paths in the closure of a root or of a path that was    *)
(* marked alive: no root is missed.                                        *)
NothingElseLeft == gcpc = "stop" => disk \ entries \subseteq Spared

(* markAlive and its callers mark only what is, at that moment, in the     *)
(* closure of a root or of a path marked before.                           *)
MarkedForReason == [][alive' \subseteq alive \cup Spared]_vars

-----------------------------------------------------------------------------
(* Closures.                                                               *)

LEMMA RefsMembers ==
    ASSUME NEW Y, NEW S, NEW w
    PROVE  w \in RefsOf(Y, S) <=> \E z \in Y \cap S : w \in Refs[z]
  BY DEF RefsOf

(* The closure of references contains its start and is closed.             *)
LEMMA RefClosureClosed ==
    ASSUME NEW x \in Paths, NEW S \in SUBSET Paths
    PROVE  /\ x \in RefClosure(x, S)
           /\ RefClosure(x, S) \in SUBSET Paths
           /\ \A z \in RefClosure(x, S) \cap S : Refs[z] \subseteq RefClosure(x, S)
<1>1. x \in RefClosure(x, S) /\ RefClosure(x, S) \in SUBSET Paths
  BY DEF RefClosure
<1>2. ASSUME NEW z \in RefClosure(x, S) \cap S, NEW w \in Refs[z] PROVE w \in RefClosure(x, S)
  <2>1. w \in Paths
    BY ConstantsAssumption
  <2>2. ASSUME NEW Y \in SUBSET Paths, x \in Y, RefsOf(Y, S) \subseteq Y PROVE w \in Y
    <3>1. z \in Y
      BY <2>2 DEF RefClosure
    <3> QED BY <2>2, <3>1, RefsMembers
  <2> QED BY <2>1, <2>2 DEF RefClosure
<1> QED BY <1>1, <1>2

(* It is contained in every closed set with its start.                     *)
LEMMA RefClosureLeast ==
    ASSUME NEW x \in Paths, NEW S \in SUBSET Paths, NEW Y \in SUBSET Paths, x \in Y,
           \A z \in Y \cap S : Refs[z] \subseteq Y
    PROVE  RefClosure(x, S) \subseteq Y
<1>1. RefsOf(Y, S) \subseteq Y
  BY RefsMembers
<1> QED BY <1>1 DEF RefClosure

(* What it contains besides its start is referred to from within.          *)
LEMMA RefClosureMembers ==
    ASSUME NEW x \in Paths, NEW S \in SUBSET Paths, NEW y \in RefClosure(x, S), y # x
    PROVE  \E z \in (RefClosure(x, S) \cap S) \ {y} : y \in Refs[z]
<1> SUFFICES ASSUME \A z \in (RefClosure(x, S) \cap S) \ {y} : y \notin Refs[z] PROVE FALSE
  OBVIOUS
<1> DEFINE Y == RefClosure(x, S) \ {y}
<1>1. x \in Y /\ Y \in SUBSET Paths /\ \A z \in Y \cap S : Refs[z] \subseteq Y
  BY RefClosureClosed
<1>2. y \in Y
  BY <1>1, RefClosureLeast
<1> QED BY <1>2

(* A larger database has larger closures.                                  *)
LEMMA RefClosureMonotone ==
    ASSUME NEW x \in Paths, NEW S \in SUBSET Paths, NEW T \in SUBSET Paths, S \subseteq T
    PROVE  RefClosure(x, S) \subseteq RefClosure(x, T)
<1>1. \A z \in RefClosure(x, T) \cap S : Refs[z] \subseteq RefClosure(x, T)
  BY RefClosureClosed
<1> QED BY <1>1, RefClosureClosed, RefClosureLeast

(* A closure does not depend on a path outside it.                         *)
LEMMA RefClosureWithout ==
    ASSUME NEW x \in Paths, NEW S \in SUBSET Paths, NEW c, c \notin RefClosure(x, S)
    PROVE  RefClosure(x, S) \subseteq RefClosure(x, S \ {c})
<1> DEFINE T == S \ {c}
           Y == RefClosure(x, S) \cap RefClosure(x, T)
<1>1. T \in SUBSET Paths
  OBVIOUS
<1>2. x \in Y /\ Y \in SUBSET Paths
  BY <1>1, RefClosureClosed
<1>3. ASSUME NEW z \in Y \cap S PROVE Refs[z] \subseteq Y
  <2>1. z \in T
    OBVIOUS
  <2>2. Refs[z] \subseteq RefClosure(x, S) /\ Refs[z] \subseteq RefClosure(x, T)
    BY <1>1, <2>1, RefClosureClosed
  <2> QED BY <2>2
<1> HIDE DEF Y
<1>4. RefClosure(x, S) \subseteq Y
  BY <1>2, <1>3, RefClosureLeast
<1> QED BY <1>4 DEF Y

(* The closure that markAlive computes contains the one of references, and *)
(* is the same if the settings are off.                                    *)
LEMMA RefClosureInClosure ==
    ASSUME NEW x \in Paths, NEW S \in SUBSET Paths
    PROVE  /\ RefClosure(x, S) \subseteq Closure(x, S)
           /\ ReferencesOnly => RefClosure(x, S) = Closure(x, S)
<1>1. Closure(x, S) \in SUBSET Paths /\ x \in Closure(x, S)
  BY ClosureInPaths, ClosureClosed
<1>2. ASSUME NEW z \in Closure(x, S) \cap S, NEW w \in Refs[z] PROVE w \in Closure(x, S)
  <2>1. w \in Deps({z}, S)
    BY DepsMembers
  <2> QED BY <2>1, ClosureClosed
<1>3. RefClosure(x, S) \subseteq Closure(x, S)
  BY <1>1, <1>2, RefClosureLeast
<1>4. ASSUME ReferencesOnly PROVE Closure(x, S) \subseteq RefClosure(x, S)
  <2>1. ASSUME NEW w \in Deps(RefClosure(x, S), S) PROVE w \in RefClosure(x, S)
    <3>1. PICK z \in RefClosure(x, S) \cap S : w \in Refs[z]
      BY <1>4, DepsMembers DEF ReferencesOnly
    <3> QED BY <3>1, RefClosureClosed
  <2> QED BY <2>1, RefClosureClosed DEF Closure
<1> QED BY <1>3, <1>4

(* A closure contains the closures of its members.                         *)
LEMMA ClosureTransitive ==
    ASSUME NEW r \in Paths, NEW S \in SUBSET Paths, NEW x \in Closure(r, S), NEW y \in Closure(x, S)
    PROVE  y \in Closure(r, S)
<1>1. Closure(r, S) \in SUBSET Paths
  BY ClosureInPaths
<1>2. ASSUME NEW w \in Deps(Closure(r, S), S) PROVE w \in Closure(r, S)
  <2>1. PICK z \in Closure(r, S) : w \in Deps({z}, S)
    BY <1>1, DepsEdges
  <2> QED BY <2>1, ClosureClosed
<1> QED BY <1>1, <1>2 DEF Closure

LEMMA ClosureMonotone ==
    ASSUME NEW x \in Paths, NEW S \in SUBSET Paths, NEW T \in SUBSET Paths, S \subseteq T
    PROVE  Closure(x, S) \subseteq Closure(x, T)
<1> SUFFICES ASSUME NEW y \in Closure(x, S), NEW Y \in SUBSET Paths, x \in Y, Deps(Y, T) \subseteq Y
             PROVE  y \in Y
  BY ClosureInPaths DEF Closure
<1>1. Deps(Y, S) \subseteq Deps(Y, T)
  BY DEF Deps
<1> QED BY <1>1 DEF Closure

(* The closure of a path in a closed store is valid, but for the path.     *)
LEMMA ClosureValid ==
    ASSUME TypeInv, StoreClosed, NEW x \in Paths, NEW y \in Closure(x, valid), y # x
    PROVE  y \in valid
<1> DEFINE Y == valid \cup {x}
<1>1. valid \in SUBSET Paths /\ Y \in SUBSET Paths
  BY DEF TypeInv, TypeOK
<1>2. ASSUME NEW w \in Deps(Y, valid) PROVE w \in valid
  BY DepsMembers DEF StoreClosed
<1>3. y \in Y
  BY <1>1, <1>2 DEF Closure
<1> QED BY <1>3

(* With one more step on top, a closure still leads down.                  *)
LEMMA ClosureStep ==
    ASSUME TypeInv, NEW y \in Paths, NEW v \in Deps({y}, valid), NEW z, z = v \/ z \in Closure(v, valid)
    PROVE  z \in Closure(y, valid)
<1>1. valid \in SUBSET Paths
  BY DEF TypeInv, TypeOK
<1>2. v \in Closure(y, valid)
  BY <1>1, ClosureClosed
<1> QED BY <1>1, <1>2, ClosureTransitive

-----------------------------------------------------------------------------
(* What the references of a set of paths hold.                             *)

LEMMA HeldClosed ==
    ASSUME NEW X \in SUBSET Paths, NEW S \in SUBSET Paths
    PROVE  /\ X \subseteq HeldBy(X, S)
           /\ \A z \in HeldBy(X, S) \cap S : Refs[z] \subseteq HeldBy(X, S)
<1>1. ASSUME NEW z \in HeldBy(X, S) \cap S, NEW w \in Refs[z] PROVE w \in HeldBy(X, S)
  <2>1. PICK x \in X : z \in RefClosure(x, S)
    BY DEF HeldBy
  <2>2. w \in RefClosure(x, S)
    BY <2>1, RefClosureClosed
  <2> QED BY <2>2 DEF HeldBy
<1> QED BY <1>1, RefClosureClosed DEF HeldBy

LEMMA HeldMembers ==
    ASSUME NEW X \in SUBSET Paths, NEW S \in SUBSET Paths, NEW y \in HeldBy(X, S), y \notin X
    PROVE  \E z \in (HeldBy(X, S) \cap S) \ {y} : y \in Refs[z]
<1>1. PICK x \in X : y \in RefClosure(x, S)
  BY DEF HeldBy
<1>2. PICK z \in (RefClosure(x, S) \cap S) \ {y} : y \in Refs[z]
  BY <1>1, RefClosureMembers
<1> QED BY <1>2 DEF HeldBy

LEMMA HeldGrows ==
    ASSUME NEW X \in SUBSET Paths, NEW S \in SUBSET Paths, NEW Y \in SUBSET Paths, NEW T \in SUBSET Paths,
           X \subseteq Y, S \subseteq T
    PROVE  HeldBy(X, S) \subseteq HeldBy(Y, T)
  BY RefClosureMonotone DEF HeldBy

LEMMA HeldWithout ==
    ASSUME NEW X \in SUBSET Paths, NEW S \in SUBSET Paths, NEW c, c \notin HeldBy(X, S)
    PROVE  HeldBy(X, S) \subseteq HeldBy(X, S \ {c})
  BY RefClosureWithout DEF HeldBy

(* A path whose references are held need not be counted itself.            *)
LEMMA HeldSpares ==
    ASSUME NEW X \in SUBSET Paths, NEW S \in SUBSET Paths, NEW c \in Paths,
           c \in X \cap S => Refs[c] \subseteq X
    PROVE  HeldBy(X, S) \subseteq HeldBy(X \ {c}, S) \cup {c}
<1> DEFINE Y == HeldBy(X \ {c}, S) \cup {c}
<1>1. X \ {c} \in SUBSET Paths
  OBVIOUS
<1>2. X \ {c} \subseteq HeldBy(X \ {c}, S) /\ \A z \in HeldBy(X \ {c}, S) \cap S : Refs[z] \subseteq HeldBy(X \ {c}, S)
  BY <1>1, HeldClosed
<1>3. Y \in SUBSET Paths
  BY RefClosureClosed DEF HeldBy
<1> SUFFICES ASSUME c \in X PROVE HeldBy(X, S) \subseteq Y
  <2>1. c \notin X => X \ {c} = X
    OBVIOUS
  <2> QED BY <2>1
<1>4. \A z \in Y \cap S : Refs[z] \subseteq Y
  BY <1>2
<1> HIDE DEF Y
<1>c. c \in Y
  BY DEF Y
<1>5. RefClosure(c, S) \subseteq Y
  BY <1>3, <1>4, <1>c, RefClosureLeast
<1> QED BY <1>5 DEF HeldBy, Y

LEMMA SetTypes ==
    ASSUME TypeInv
    PROVE  /\ valid \in SUBSET Paths /\ disk \in SUBSET Paths /\ visited \in SUBSET Paths
           /\ AllRoots \in SUBSET Paths /\ Seeds \in SUBSET Paths
           /\ Decided(AllRoots) \in SUBSET Paths /\ Decided(Seeds) \in SUBSET Paths
           /\ Decided(AllRoots) \subseteq Decided(Seeds)
  BY DEF TypeInv, TypeOK, CollectorTypeOK, AllRoots, Seeds, Decided

LEMMA SetTypesNext ==
    ASSUME TypeInv'
    PROVE  /\ valid' \in SUBSET Paths
           /\ Decided(AllRoots)' \in SUBSET Paths /\ Decided(Seeds)' \in SUBSET Paths
  BY DEF TypeInv, TypeOK, CollectorTypeOK, AllRoots, Seeds, Decided

-----------------------------------------------------------------------------
(* The steps of clients and server: the store and the roots grow, and what *)
(* is new in the store belongs to a root the collector knows.              *)

LEMMA NewIsRoot ==
    ASSUME IInv, Judged, gcpc \in Sweeping \cup {"stop"}, NEW t \in Threads, pc[t] \in {"restore", "register"}
    PROVE  arg[t] \in Decided(AllRoots)
<1>1. arg[t] \in tempFile[ProcOf[t]] /\ ProcOf[t] \in Procs
  BY ConstantsAssumption DEF IInv, UsesRecorded
<1>2. arg[t] \in tempRoots
  BY <1>1 DEF IInv, RootsKnown, Judged
<1>3. gcpc = "invalidate" => arg[t] # cur
  BY <1>1 DEF IInv, DeletesUnused, Deleting
<1> QED BY <1>2, <1>3 DEF Decided, AllRoots

(* Such a step, as far as the sweep is concerned.                          *)
Growth ==
    /\ valid \subseteq valid' /\ disk \subseteq disk' /\ tempRoots \subseteq tempRoots'
    /\ gcpc \in Sweeping \cup {"stop"} =>
           /\ valid' \ valid \subseteq Decided(AllRoots)
           /\ disk' \ disk \subseteq Decided(AllRoots)
    /\ UNCHANGED <<gcpc, scanned, entries, search, found>>

LEMMA GrowthHolds ==
    ASSUME TypeInv, TypeInv', Growth
    PROVE  /\ UNCHANGED <<gcpc, scanned, entries, start, visited, todo, cur, rest, sorted, roots, alive, dead, cache>>
           /\ AllRoots \subseteq AllRoots'
           /\ Decided(AllRoots) \subseteq Held
           /\ Held \subseteq Held'
           /\ Live \subseteq Live'
<1>1. UNCHANGED <<gcpc, scanned, entries, start, visited, todo, cur, rest, sorted, roots, alive, dead, cache>>
  BY DEF Growth, search, found
<1>2. /\ AllRoots \subseteq AllRoots' /\ Decided(AllRoots) \subseteq Decided(AllRoots)'
      /\ Decided(Seeds) \subseteq Decided(Seeds)'
  BY <1>1 DEF Growth, AllRoots, Seeds, Decided
<1>3. Decided(AllRoots) \subseteq Held
  BY SetTypes, HeldClosed DEF Held
<1>4. Held \subseteq Held' /\ Live \subseteq Live'
  BY <1>2, SetTypes, SetTypesNext, HeldGrows DEF Held, Live, Growth
<1> QED BY <1>1, <1>2, <1>3, <1>4

LEMMA GrowthKeepsSweep ==
    ASSUME TypeInv, TypeInv', SweepInv, Growth
    PROVE  SweepInv'
<1>1. UNCHANGED <<gcpc, scanned, entries, start, visited, todo, cur, rest, sorted, roots, alive, dead, cache>>
  BY GrowthHolds
<1>2. AllRoots \subseteq AllRoots' /\ Decided(AllRoots) \subseteq AllRoots
  BY GrowthHolds DEF Decided
<1>3. Held \subseteq Held' /\ Decided(AllRoots) \subseteq Held
  BY GrowthHolds
<1>5. FreshTables'
  BY <1>1 DEF SweepInv, FreshTables
<1>6. CASE gcpc \notin Sweeping \cup {"stop"}
  <2>1. gcpc' \notin Sweeping \cup {"stop"} /\ gcpc' \notin Searching \cup Removing \cup Deleting
    BY <1>1, <1>6 DEF Sweeping, Searching, Removing, Deleting
  <2> QED BY <1>5, <2>1 DEF SweepInv, Judged, SearchState, Searching, Removing, Deleting
<1>7. CASE gcpc \in Sweeping \cup {"stop"}
  <2>1. /\ valid \subseteq valid' /\ disk \subseteq disk'
        /\ valid' \ valid \subseteq Decided(AllRoots) /\ disk' \ disk \subseteq Decided(AllRoots)
    BY <1>7 DEF Growth
  <2>2. \A v : Referrers(v)' \subseteq Referrers(v) \cup Decided(AllRoots)
    BY <2>1 DEF Referrers
  <2>3. CacheOK'
    BY <1>1, <1>2, <1>7, <2>1, <2>2 DEF SweepInv, Judged, CacheOK, Gone
  <2>4. Judged'
    <3>1. Doomed' = Doomed /\ InProgress' = InProgress
      BY <1>1 DEF Doomed, InProgress
    <3>2. dead' \cap disk' \subseteq Held' \cup Doomed'
      BY <1>1, <1>3, <1>7, <2>1, <3>1 DEF SweepInv, Judged
    <3>3. disk' \ entries' \subseteq Held' \cup Doomed' \cup InProgress'
      BY <1>1, <1>3, <1>7, <2>1, <3>1 DEF SweepInv, Judged
    <3> QED BY <1>1, <1>7, <2>3, <3>2, <3>3 DEF SweepInv, Judged
  <2>5. ASSUME VisitedOK PROVE VisitedOK'
    BY <1>1, <1>2, <2>2, <2>5 DEF VisitedOK
  <2>6. ASSUME LeadsToStart PROVE LeadsToStart'
    <3>1. \A v \in visited : Closure(v, valid) \subseteq Closure(v, valid')
      BY <2>1, SetTypes, SetTypesNext, ClosureMonotone
    <3> QED BY <1>1, <2>6, <3>1 DEF LeadsToStart
  <2>7. ASSUME RestOK PROVE RestOK'
    BY <1>1, <1>2, <2>1, <2>7 DEF RestOK
  <2>8. ASSUME gcpc = "invalidate", CurOK PROVE CurOK'
    <3>1. Referrers(cur)' = {y \in valid' : cur \in Refs[y]}
      BY <1>1 DEF Referrers
    <3>2. Referrers(cur)' \subseteq Referrers(cur) \cup Decided(AllRoots)
      BY <2>1, <3>1 DEF Referrers
    <3>3. cur \notin valid' \ valid
      BY <2>1, <2>8 DEF Decided
    <3> QED BY <1>1, <1>3, <2>8, <3>2, <3>3 DEF CurOK
  <2>9. SearchState'
    BY <1>1, <2>5, <2>6, <2>7, <2>8 DEF SweepInv, SearchState
  <2> QED BY <1>5, <2>4, <2>9 DEF SweepInv
<1> QED BY <1>6, <1>7

LEMMA ClientsGrow ==
    ASSUME IInv, Judged,
           \/ \E t \in Threads : AddTempRoot(t) \/ ClientStep(t) \/ ServerStep(t)
           \/ \E p \in Procs : Exit(p)
           \/ UNCHANGED vars
    PROVE  Growth
<1>1. ASSUME NEW t \in Threads, AddTempRoot(t) \/ ClientStep(t) PROVE Growth
  <2>1. UNCHANGED <<gcpc, scanned, tempRoots, entries, search, found>>
    BY <1>1, ClientsLeaveCollector DEF collector
  <2>2. CASE RestorePath(t)
    <3>1. valid' = valid /\ disk \subseteq disk' /\ disk' \ disk \subseteq {arg[t]} /\ pc[t] = "restore"
      BY <2>2 DEF RestorePath
    <3> QED BY <2>1, <3>1, NewIsRoot DEF Growth
  <2>3. CASE Register(t)
    <3>1. disk' = disk /\ valid \subseteq valid' /\ valid' \ valid \subseteq {arg[t]} /\ pc[t] = "register"
      BY <2>3 DEF Register
    <3> QED BY <2>1, <3>1, NewIsRoot DEF Growth
  <2>4. CASE ~RestorePath(t) /\ ~Register(t)
    <3>1. UNCHANGED store
      BY <1>1, <2>4 DEF AddTempRoot, ClientStep, TryGCLock, Connect, Send, Disconnected, GotAck, Record, Release, IsValid
    <3> QED BY <2>1, <3>1 DEF store, Growth
  <2> QED BY <2>2, <2>3, <2>4
<1>2. ASSUME NEW t \in Threads, ServerStep(t) PROVE Growth
  BY <1>2 DEF ServerStep, ServerReceive, ServerAck, collector, store, Growth
<1>3. ASSUME NEW p \in Procs, Exit(p) PROVE Growth
  BY <1>3 DEF Exit, collector, store, Growth
<1>4. CASE UNCHANGED vars
  BY <1>4 DEF vars, collector, store, Growth
<1> QED BY <1>1, <1>2, <1>3, <1>4

-----------------------------------------------------------------------------
(* The search.                                                             *)

(* A step of the collector that leaves the database and the roots alone,   *)
(* with a place other than "invalidate" before and after.                  *)
LEMMA SameRoots ==
    ASSUME UNCHANGED <<valid, roots, tempRoots>>, gcpc # "invalidate", gcpc' # "invalidate"
    PROVE  /\ AllRoots' = AllRoots /\ Live' = Live
           /\ Decided(AllRoots) = AllRoots /\ Decided(Seeds) = Seeds
           /\ alive' = alive => Held' = Held
           /\ \A v : Referrers(v)' = Referrers(v)
<1>1. AllRoots' = AllRoots /\ \A v : Referrers(v)' = Referrers(v)
  BY DEF AllRoots, Referrers
<1>2. Decided(AllRoots)' = AllRoots /\ Decided(AllRoots) = AllRoots /\ Decided(Seeds)' = Seeds' /\ Decided(Seeds) = Seeds
  BY <1>1 DEF Decided
<1>3. alive' = alive => Seeds' = Seeds
  BY <1>1 DEF Seeds
<1> QED BY <1>1, <1>2, <1>3 DEF Live, Held

LEMMA NextEntryKeepsSweep ==
    ASSUME TypeInv, SweepInv, NextEntry
    PROVE  SweepInv'
<1>1. PICK x \in entries : /\ entries' = entries \ {x} /\ start' = x
                           /\ visited' = {x} /\ todo' = {x}
  BY DEF NextEntry
<1>2. /\ gcpc = "sweep" /\ gcpc' = "bfs"
      /\ UNCHANGED <<valid, disk, scanned, tempRoots, roots, alive, dead, cache>>
  BY DEF NextEntry, GCGoto, store, found
<1>3. AllRoots' = AllRoots /\ Held' = Held /\ \A v : Referrers(v)' = Referrers(v)
  BY <1>2, SameRoots
<1>4. CacheOK'
  BY <1>2, <1>3 DEF SweepInv, Judged, CacheOK, Gone, Sweeping
<1>5. Doomed' = {} /\ Doomed = {} /\ InProgress = {} /\ InProgress' = {x}
  BY <1>1, <1>2 DEF Doomed, InProgress, Deleting, Searching, Removing
<1>6. Judged'
  BY <1>1, <1>2, <1>3, <1>4, <1>5 DEF SweepInv, Judged, Sweeping
<1>7. VisitedOK' /\ LeadsToStart'
  BY <1>1 DEF VisitedOK, LeadsToStart
<1> QED BY <1>2, <1>6, <1>7 DEF SweepInv, FreshTables, SearchState, Searching, Removing, Deleting

(* Marking paths alive that are valid or not dead leaves the cache good.   *)
LEMMA MarkingKeepsCache ==
    ASSUME CacheOK, AllRoots' = AllRoots, UNCHANGED <<valid, cache>>, alive \subseteq alive', dead \subseteq dead',
           \A y \in alive' \ alive : y \in valid \/ y \notin dead
    PROVE  CacheOK'
<1>1. ASSUME NEW v \in Paths, cache[v] # {NoPath}, NEW y \in cache[v]
      PROVE  v \in Refs[y] /\ (y \in valid \/ (y \in dead' /\ (y \in alive' => v \in alive')))
  BY <1>1 DEF CacheOK, Gone
<1>2. \A v : Referrers(v)' = Referrers(v)
  BY DEF Referrers
<1> QED BY <1>1, <1>2 DEF CacheOK, Gone

(* What the search marks when it stops at x.                               *)
LEMMA FoundAliveMarks ==
    ASSUME TypeInv, StoreClosed, SweepInv, FoundAlive
    PROVE  \E x \in Seeds :
              /\ alive \cup {start} \subseteq alive'
              /\ alive' \subseteq alive \cup Closure(x, valid)
              /\ \A y \in alive' \ alive : y \in valid \/ y \notin dead
<1>1. PICK x \in todo :
         \/ x \in alive /\ alive' = alive \cup {start}
         \/ /\ x \notin alive \cup dead /\ x \in AllRoots
            /\ alive' = alive \cup {start} \cup Closure(x, valid)
  BY DEF FoundAlive, AllRoots
<1>2. VisitedOK /\ LeadsToStart
  BY DEF FoundAlive, SweepInv, SearchState, Searching
<1>3. x \in Paths /\ x \in visited /\ x \notin dead \ alive /\ x \in Seeds
  BY <1>1, <1>2 DEF TypeInv, TypeOK, CollectorTypeOK, VisitedOK, Seeds
<1>4. x \in Closure(x, valid)
  BY <1>3, SetTypes, ClosureClosed
<1>5. start \in Closure(x, valid)
  BY <1>2, <1>3, <1>4 DEF LeadsToStart
<1>6. \A y \in Closure(x, valid) : y = x \/ y \in valid
  BY <1>3, ClosureValid
<1>7. /\ alive \cup {start} \subseteq alive'
      /\ alive' \subseteq alive \cup Closure(x, valid)
  BY <1>1, <1>5
<1>8. ASSUME NEW y \in alive' \ alive PROVE y \in valid \/ y \notin dead
  BY <1>3, <1>6, <1>7
<1> QED BY <1>3, <1>7, <1>8

(* The search stops at an alive path or a root: its start is held.         *)
LEMMA FoundAliveKeepsSweep ==
    ASSUME TypeInv, TypeInv', StoreClosed, SweepInv, FoundAlive
    PROVE  SweepInv'
<1>1. /\ gcpc = "bfs" /\ gcpc' = "sweep"
      /\ UNCHANGED <<valid, disk, scanned, tempRoots, entries, start, roots, dead, cache>>
  BY DEF FoundAlive, GCGoto, store, search
<1>2. AllRoots' = AllRoots
  BY <1>1, SameRoots
<1>3. /\ alive \cup {start} \subseteq alive'
      /\ \A y \in alive' \ alive : y \in valid \/ y \notin dead
  BY FoundAliveMarks
<1>4. CacheOK'
  BY <1>1, <1>2, <1>3, MarkingKeepsCache DEF SweepInv, Judged, Sweeping
<1>5. Held \subseteq Held' /\ start \in Held'
  <2>1. Decided(Seeds) \subseteq Decided(Seeds)' /\ start \in Decided(Seeds)'
    BY <1>1, <1>2, <1>3 DEF Decided, Seeds
  <2> QED BY <1>1, <2>1, SetTypes, SetTypesNext, HeldGrows, HeldClosed DEF Held
<1>6. Doomed' = {} /\ Doomed = {} /\ InProgress = {start} /\ InProgress' = {}
  BY <1>1 DEF Doomed, InProgress, Deleting, Searching, Removing
<1>7. Judged'
  BY <1>1, <1>4, <1>5, <1>6 DEF SweepInv, Judged, Sweeping
<1> QED BY <1>1, <1>7 DEF SweepInv, FreshTables, SearchState, Searching, Removing, Deleting

(* A path leaves the queue: it is dead, or it is visited next.             *)
LEMMA QueueKeepsSweep ==
    ASSUME TypeInv, SweepInv, FoundDead \/ SetPending
    PROVE  SweepInv'
<1>1. /\ gcpc = "bfs"
      /\ UNCHANGED <<valid, disk, scanned, tempRoots, entries, start, visited, rest, sorted, roots, alive, dead, cache>>
  BY DEF FoundDead, SetPending, store, found
<1>2. PICK x \in todo :
         /\ todo' = todo \ {x}
         /\ \/ x \in dead /\ gcpc' = "bfs"
            \/ x \notin alive \cup dead \cup roots /\ gcpc' = "visit" /\ cur' = x
  BY DEF FoundDead, SetPending, GCGoto
<1>3. gcpc' \in {"bfs", "visit"}
  BY <1>2
<1>4. AllRoots' = AllRoots /\ Held' = Held /\ \A v : Referrers(v)' = Referrers(v)
  BY <1>1, <1>3, SameRoots
<1>5. VisitedOK /\ LeadsToStart
  BY <1>1 DEF SweepInv, SearchState, Searching
<1>6. CacheOK'
  BY <1>1, <1>4 DEF SweepInv, Judged, CacheOK, Gone, Sweeping
<1>7. Doomed' = {} /\ Doomed = {} /\ InProgress = {start} /\ InProgress' = {start}
  BY <1>1, <1>3 DEF Doomed, InProgress, Deleting, Searching, Removing
<1>8. Judged'
  BY <1>1, <1>3, <1>4, <1>6, <1>7 DEF SweepInv, Judged, Sweeping
<1>9. VisitedOK'
  <2>1. ASSUME NEW v \in visited' \ todo'
        PROVE  \/ v \in dead'
               \/ /\ v \notin roots' /\ v \notin alive'
                  /\ (gcpc' = "visit" /\ v = cur') \/ Referrers(v)' \subseteq visited' \cup AllRoots'
    <3>1. CASE v = x
      BY <1>1, <1>2, <3>1
    <3>2. CASE v # x
      <4>1. v \in visited \ todo
        BY <1>1, <1>2, <3>2
      <4> QED BY <1>1, <1>4, <1>5, <4>1 DEF VisitedOK, Searching
    <3> QED BY <3>1, <3>2
  <2> QED BY <1>1, <1>2, <1>5, <2>1 DEF VisitedOK
<1>10. LeadsToStart'
  BY <1>1, <1>5 DEF LeadsToStart
<1>11. gcpc' = "visit" => cur' \in visited' \ (todo' \cup dead')
  BY <1>1, <1>2, <1>5 DEF VisitedOK
<1> QED BY <1>3, <1>8, <1>9, <1>10, <1>11 DEF SweepInv, FreshTables, SearchState, Searching, Removing, Deleting

(* The search goes up to all referrers, and from each path it goes to, one *)
(* step of computeFSClosure leads back.                                    *)
LEMMA VisitKeepsSweep ==
    ASSUME TypeInv, TypeInv', StoreClosed, SweepInv, VisitEdges
    PROVE  SweepInv'
<1>1. /\ gcpc = "visit" /\ gcpc' = "bfs"
      /\ UNCHANGED <<valid, disk, scanned, tempRoots, entries, start, cur, rest, sorted, roots, alive, dead>>
  BY DEF VisitEdges, GCGoto, store
<1>2. AllRoots' = AllRoots /\ Held' = Held /\ \A v : Referrers(v)' = Referrers(v)
  BY <1>1, SameRoots
<1>3. VisitedOK /\ LeadsToStart /\ cur \in visited \ (todo \cup dead) /\ CacheOK
  BY <1>1 DEF SweepInv, Judged, SearchState, Searching, Sweeping
<1>4. cache \in [Paths -> (SUBSET Paths) \cup {{NoPath}}] /\ cur \in Paths /\ cur \notin alive
  BY <1>1, <1>3 DEF TypeInv, TypeOK, CollectorTypeOK, VisitedOK, Searching
<1>5. /\ CacheOK' /\ visited \subseteq visited' /\ todo' \subseteq visited'
      /\ visited' \ todo' \subseteq visited \ todo
      /\ Referrers(cur) \subseteq visited' \cup AllRoots
      /\ \A y \in visited' \ visited : cur \in Deps({y}, valid) \/ y \in dead \ alive
  <2>1. CASE cur \notin valid
    <3>1. UNCHANGED <<visited, todo, cache>>
      BY <2>1 DEF VisitEdges
    <3>2. Referrers(cur) = {}
      BY <2>1 DEF Referrers, StoreClosed
    <3>3. CacheOK'
      BY <1>1, <1>2, <1>3, <3>1 DEF CacheOK, Gone
    <3> QED BY <1>3, <3>1, <3>2, <3>3 DEF VisitedOK
  <2>2. CASE cur \in valid
    <3> DEFINE R == cache'[cur]
               E == Edges(cur, R)
    <3>1. /\ cache' = [cache EXCEPT ![cur] = IF @ = {NoPath} THEN Referrers(cur) ELSE @]
          /\ visited' = visited \cup E
          /\ todo' = todo \cup (E \ visited)
      BY <2>2 DEF VisitEdges
    <3>2. R \subseteq E
      BY DEF Edges
    <3>3. R = IF cache[cur] = {NoPath} THEN Referrers(cur) ELSE cache[cur]
      BY <1>4, <3>1
    <3>4. /\ \A y \in R : cur \in Refs[y] /\ (y \in valid \/ Gone(y, cur))
          /\ Referrers(cur) \subseteq R \cup AllRoots
      BY <1>3, <1>4, <3>3 DEF CacheOK, Referrers
    <3>5. \A v \in Paths \ {cur} : cache'[v] = cache[v]
      BY <1>4, <3>1
    <3>6. ASSUME NEW y \in E PROVE cur \in Deps({y}, valid) \/ y \in dead \ alive
      <4>1. CASE y \in R
        BY <1>4, <3>4, <4>1, DepsMembers DEF Gone
      <4>2. CASE KeepDerivations /\ y \in Outputs(cur)
        BY <2>2, <4>2, DepsMembers DEF Outputs
      <4>3. CASE KeepOutputs /\ y = Deriver[cur] /\ y \in valid
        BY <2>2, <4>3, DepsMembers
      <4> QED BY <3>6, <4>1, <4>2, <4>3 DEF Edges
    <3> HIDE DEF R, E
    <3>7. R = cache'[cur]
      BY DEF R
    <3>8. ASSUME NEW v \in Paths, cache'[v] # {NoPath}
          PROVE  /\ \A y \in cache'[v] : v \in Refs[y] /\ (y \in valid \/ Gone(y, v))
                 /\ Referrers(v) \subseteq cache'[v] \cup AllRoots
      <4>1. CASE v = cur
        BY <3>4, <3>7, <4>1
      <4>2. CASE v # cur
        BY <1>3, <3>5, <3>8, <4>2 DEF CacheOK
      <4> QED BY <4>1, <4>2
    <3>9. CacheOK'
      BY <1>1, <1>2, <3>8 DEF CacheOK, Gone
    <3> QED BY <1>3, <3>1, <3>2, <3>4, <3>6, <3>9 DEF VisitedOK
  <2> QED BY <2>1, <2>2
<1>6. VisitedOK'
  <2>1. ASSUME NEW v \in visited' \ todo'
        PROVE  v \in dead \/ (v \notin roots \cup alive /\ Referrers(v) \subseteq visited' \cup AllRoots)
    <3>1. v \in visited \ todo
      BY <1>5
    <3> QED BY <1>1, <1>3, <1>5, <3>1 DEF VisitedOK, Searching
  <2> QED BY <1>1, <1>2, <1>3, <1>5, <2>1 DEF VisitedOK
<1>7. LeadsToStart'
  <2>1. ASSUME NEW y \in visited' \ visited PROVE y \in dead \ alive \/ start \in Closure(y, valid)
    <3>1. CASE cur \in Deps({y}, valid)
      <4>1. start = cur \/ start \in Closure(cur, valid)
        BY <1>3 DEF LeadsToStart
      <4>2. y \in Paths
        BY DEF TypeInv, TypeOK, CollectorTypeOK
      <4> QED BY <3>1, <4>1, <4>2, ClosureStep
    <3> QED BY <1>5, <3>1
  <2> QED BY <1>1, <1>3, <2>1 DEF LeadsToStart
<1>8. Doomed' = {} /\ Doomed = {} /\ InProgress = {start} /\ InProgress' = {start}
  BY <1>1 DEF Doomed, InProgress, Deleting, Searching, Removing
<1>9. Judged'
  BY <1>1, <1>2, <1>5, <1>8 DEF SweepInv, Judged, Sweeping
<1> QED BY <1>1, <1>6, <1>7, <1>9 DEF SweepInv, FreshTables, SearchState, Searching, Removing, Deleting

(* The search is over: everything visited is about to be deleted, and      *)
(* nothing of it is alive unless it is dead.                               *)
LEMMA SortKeepsSweep ==
    ASSUME TypeInv, SweepInv, TopoSort
    PROVE  SweepInv'
<1>1. /\ gcpc = "bfs" /\ gcpc' = "delete" /\ todo = {} /\ rest' = visited /\ sorted' = visited \cap valid
      /\ UNCHANGED <<valid, disk, scanned, tempRoots, entries, start, visited, todo, cur, roots, alive, dead, cache>>
  BY DEF TopoSort, GCGoto, store, found
<1>2. AllRoots' = AllRoots /\ Held' = Held /\ \A v : Referrers(v)' = Referrers(v)
  BY <1>1, SameRoots
<1>3. VisitedOK /\ CacheOK
  BY <1>1 DEF SweepInv, Judged, SearchState, Searching, Sweeping
<1>4. VisitedOK' /\ CacheOK'
  BY <1>1, <1>2, <1>3 DEF VisitedOK, CacheOK, Gone, Searching
<1>5. RestOK'
  BY <1>1, <1>3 DEF RestOK, VisitedOK, Searching
<1>6. Doomed' = {} /\ Doomed = {} /\ InProgress = {start} /\ InProgress' = {start}
  BY <1>1 DEF Doomed, InProgress, Deleting, Searching, Removing
<1>7. Judged'
  BY <1>1, <1>2, <1>4, <1>6 DEF SweepInv, Judged, Sweeping
<1> QED BY <1>1, <1>4, <1>5, <1>7 DEF SweepInv, FreshTables, SearchState, Searching, Removing, Deleting

-----------------------------------------------------------------------------
(* The deletion.                                                           *)

LEMMA SkipKeepsSweep ==
    ASSUME TypeInv, SweepInv, SkipDead
    PROVE  SweepInv'
<1>1. /\ gcpc = "delete" /\ gcpc' = "delete"
      /\ UNCHANGED <<valid, disk, scanned, tempRoots, entries, start, visited, todo, cur, sorted, roots, alive, dead, cache>>
  BY DEF SkipDead, store, found
<1>2. PICK x \in rest \cap dead : rest' = rest \ {x}
  BY DEF SkipDead
<1>3. AllRoots' = AllRoots /\ Held' = Held /\ \A v : Referrers(v)' = Referrers(v)
  BY <1>1, SameRoots
<1>4. VisitedOK /\ CacheOK /\ RestOK
  BY <1>1 DEF SweepInv, Judged, SearchState, Removing, Sweeping
<1>5. VisitedOK' /\ CacheOK'
  BY <1>1, <1>3, <1>4 DEF VisitedOK, CacheOK, Gone
<1>6. RestOK'
  BY <1>1, <1>2, <1>3, <1>4 DEF RestOK
<1>7. Doomed' = Doomed /\ InProgress' = InProgress
  BY <1>1 DEF Doomed, InProgress, Deleting, Searching, Removing
<1>8. Judged'
  BY <1>1, <1>3, <1>5, <1>7 DEF SweepInv, Judged, Sweeping
<1> QED BY <1>1, <1>5, <1>6, <1>8 DEF SweepInv, FreshTables, SearchState, Searching, Removing, Deleting

(* A path that became a root while its referrers were searched is held,    *)
(* and what it marks alive has its references marked.                      *)
LEMMA LateRootKeepsSweep ==
    ASSUME TypeInv, TypeInv', StoreClosed, SweepInv, KeepLateRoot
    PROVE  SweepInv'
<1>1. /\ gcpc = "delete" /\ gcpc' = "delete"
      /\ UNCHANGED <<valid, disk, scanned, tempRoots, entries, start, visited, todo, cur, sorted, roots, cache>>
  BY DEF KeepLateRoot, store
<1>2. PICK x \in rest \ dead : /\ x \in tempRoots /\ rest' = rest \ {x} /\ dead' = dead \cup {x}
                              /\ alive' = alive \cup Closure(x, valid)
  BY DEF KeepLateRoot, BecameTempRoot
<1>3. AllRoots' = AllRoots /\ \A v : Referrers(v)' = Referrers(v)
  BY <1>1, SameRoots
<1>4. VisitedOK /\ CacheOK /\ RestOK
  BY <1>1 DEF SweepInv, Judged, SearchState, Removing, Sweeping
<1>5. x \in Paths /\ x \in AllRoots
  BY <1>2, SetTypes DEF AllRoots
<1>6. Held \subseteq Held' /\ x \in Held'
  <2>1. Decided(Seeds) \subseteq Decided(Seeds)' /\ x \in Decided(Seeds)'
    BY <1>1, <1>2, <1>3, <1>5 DEF Decided, Seeds
  <2> QED BY <1>1, <2>1, SetTypes, SetTypesNext, HeldGrows, HeldClosed DEF Held
<1>7. CacheOK'
  <2>1. \A y \in Closure(x, valid) : y = x \/ y \in valid
    BY <1>5, ClosureValid
  <2>2. \A y \in alive' \ alive : y \in valid \/ y \notin dead
    BY <1>2, <2>1
  <2> QED BY <1>1, <1>2, <1>3, <1>4, <2>2, MarkingKeepsCache
<1>8. VisitedOK'
  BY <1>1, <1>2, <1>3, <1>4 DEF VisitedOK, Searching
<1>9. RestOK'
  <2>1. ASSUME NEW z \in Closure(x, valid) \cap valid PROVE Refs[z] \subseteq Closure(x, valid)
    <3>1. Refs[z] \subseteq Deps({z}, valid)
      BY DepsMembers
    <3> QED BY <1>5, <3>1, SetTypes, ClosureClosed
  <2>2. \A z \in (rest' \ dead') \cap alive' \cap valid : z \in AllRoots \/ Refs[z] \subseteq alive'
    BY <1>2, <1>4, <2>1 DEF RestOK
  <2> QED BY <1>1, <1>2, <1>3, <1>4, <2>2 DEF RestOK
<1>10. Doomed' = Doomed /\ InProgress' = InProgress
  BY <1>1 DEF Doomed, InProgress, Deleting, Searching, Removing
<1>11. Judged'
  BY <1>1, <1>2, <1>6, <1>7, <1>10 DEF SweepInv, Judged, Sweeping
<1> QED BY <1>1, <1>8, <1>9, <1>11 DEF SweepInv, FreshTables, SearchState, Searching, Removing, Deleting

(* When a path is about to be deleted, whoever refers to it is held.       *)
LEMMA StartDeleteKeepsSweep ==
    ASSUME TypeInv, TypeInv', ValidOnDisk, SweepInv, StartDelete
    PROVE  SweepInv'
<1>1. /\ gcpc = "delete" /\ gcpc' = "invalidate"
      /\ UNCHANGED <<valid, disk, scanned, tempRoots, entries, start, visited, todo, sorted, roots, alive, cache>>
  BY DEF StartDelete, GCGoto, store
<1>2. PICK x \in rest \ dead : /\ IsFirst(x) /\ x \notin tempRoots /\ rest' = rest \ {x}
                              /\ dead' = dead \cup {x} /\ cur' = x
  BY DEF StartDelete, BecameTempRoot
<1>3. VisitedOK /\ CacheOK /\ RestOK
  BY <1>1 DEF SweepInv, Judged, SearchState, Removing, Sweeping
<1>4. x \in visited \ todo /\ x \in Paths
  BY <1>2, <1>3, SetTypes DEF RestOK
<1>5. x \notin AllRoots /\ Referrers(x) \subseteq visited \cup AllRoots
  BY <1>1, <1>2, <1>3, <1>4 DEF VisitedOK, AllRoots
<1>6. x \in alive \cap valid => Refs[x] \subseteq alive
  BY <1>2, <1>3, <1>5 DEF RestOK
<1>7. AllRoots' = AllRoots /\ Decided(Seeds) = Seeds /\ Decided(Seeds)' = Seeds \ {x}
  BY <1>1, <1>2 DEF AllRoots, Seeds, Decided
<1>8. Held \subseteq Held' \cup {x}
  <2>1. x \in Seeds \cap valid => Refs[x] \subseteq Seeds
    BY <1>5, <1>6 DEF Seeds
  <2> QED BY <1>1, <1>4, <1>7, <2>1, SetTypes, HeldSpares DEF Held
<1>9. \A v : Referrers(v)' = Referrers(v)
  BY <1>1 DEF Referrers
<1>10. CacheOK' /\ VisitedOK' /\ RestOK'
  BY <1>1, <1>2, <1>3, <1>7, <1>9 DEF CacheOK, Gone, VisitedOK, RestOK, Searching
<1>11. Doomed = {} /\ Doomed' = {x} /\ InProgress' = InProgress
  BY <1>1, <1>2 DEF Doomed, InProgress, Deleting, Searching, Removing
<1>12. Judged'
  BY <1>1, <1>2, <1>8, <1>10, <1>11 DEF SweepInv, Judged, Sweeping
<1>13. ASSUME NEW y \in Referrers(x), y # x PROVE y \in Held'
  <2>1. y \in valid /\ x \in Refs[y] /\ y \in disk
    BY DEF Referrers, ValidOnDisk
  <2>2. CASE y \in AllRoots
    <3>1. y \in Decided(Seeds)'
      BY <1>7, <1>13, <2>2 DEF Seeds
    <3> QED BY <3>1, SetTypesNext, HeldClosed DEF Held
  <2>3. CASE y \in dead
    <3>1. y \in Held
      BY <1>1, <1>11, <2>1, <2>3 DEF SweepInv, Judged, Sweeping
    <3> QED BY <1>8, <1>13, <3>1
  <2>4. CASE y \in rest
    <3>1. y \notin sorted
      BY <1>2, <1>13, <2>1, <2>4 DEF IsFirst
    <3>2. y \in AllRoots
      BY <1>3, <2>1, <2>4, <3>1 DEF RestOK
    <3> QED BY <2>2, <3>2
  <2> QED BY <1>3, <1>5, <2>2, <2>3, <2>4 DEF RestOK
<1>14. CurOK'
  <2>1. Referrers(cur)' = Referrers(x)
    BY <1>1, <1>2 DEF Referrers
  <2> QED BY <1>1, <1>2, <1>6, <1>13, <2>1 DEF CurOK
<1> QED BY <1>1, <1>2, <1>10, <1>12, <1>14 DEF SweepInv, FreshTables, SearchState, Searching, Removing, Deleting

(* A path that no valid path refers to, and that does not count itself, is *)
(* not held: nothing else loses its hold when it leaves the database.      *)
LEMMA InvalidateHolds ==
    ASSUME TypeInv, StoreClosed, Invalidate, NEW X \in SUBSET Paths, cur \notin X
    PROVE  cur \notin HeldBy(X, valid) /\ HeldBy(X, valid) \subseteq HeldBy(X, valid')
<1>1. valid \in SUBSET Paths /\ valid' = valid \ {cur} /\ ~InUse(cur)
  BY SetTypes DEF Invalidate
<1>2. cur \notin HeldBy(X, valid)
  <2> SUFFICES ASSUME cur \in HeldBy(X, valid) PROVE FALSE
    OBVIOUS
  <2>1. PICK z \in (HeldBy(X, valid) \cap valid) \ {cur} : cur \in Refs[z]
    BY <1>1, HeldMembers
  <2>2. cur \in valid
    BY <2>1 DEF StoreClosed
  <2> QED BY <1>1, <2>1, <2>2 DEF InUse, Referrers
<1> QED BY <1>1, <1>2, HeldWithout

LEMMA InvalidateKeepsSweep ==
    ASSUME TypeInv, TypeInv', StoreClosed, SweepInv, Invalidate
    PROVE  SweepInv'
<1>1. /\ gcpc = "invalidate" /\ gcpc' = "unlink" /\ valid' = valid \ {cur}
      /\ UNCHANGED <<disk, scanned, tempRoots, entries, start, visited, todo, cur, rest, sorted, roots, alive, dead, cache>>
  BY DEF Invalidate, GCGoto, search, found
<1>2. AllRoots' = AllRoots /\ Decided(Seeds) \subseteq Decided(Seeds)' /\ cur \notin Decided(Seeds)
  BY <1>1 DEF AllRoots, Seeds, Decided
<1>3. Held \subseteq Held'
  <2>1. Held \subseteq HeldBy(Decided(Seeds), valid')
    BY <1>2, SetTypes, InvalidateHolds DEF Held
  <2>2. HeldBy(Decided(Seeds), valid') \subseteq Held'
    BY <1>2 DEF Held, HeldBy
  <2> QED BY <2>1, <2>2
<1>4. VisitedOK /\ CacheOK /\ RestOK /\ CurOK /\ cur \in dead
  BY <1>1 DEF SweepInv, Judged, SearchState, Removing, Deleting, Sweeping
<1>5. \A v : Referrers(v)' \subseteq Referrers(v)
  BY <1>1 DEF Referrers
<1>6. CacheOK'
  <2>1. ASSUME NEW v \in Paths, cache[v] # {NoPath}, NEW y \in cache[v]
        PROVE  v \in Refs[y] /\ (y \in valid' \/ Gone(y, v))
    <3>1. v \in Refs[y] /\ (y \in valid \/ Gone(y, v))
      BY <1>4, <2>1 DEF CacheOK
    <3>2. y = cur /\ y \in valid => Gone(y, v)
      BY <1>4, <3>1 DEF CurOK, Gone
    <3> QED BY <1>1, <3>1, <3>2
  <2> QED BY <1>1, <1>2, <1>4, <1>5, <2>1 DEF CacheOK, Gone
<1>7. VisitedOK' /\ RestOK'
  BY <1>1, <1>2, <1>4, <1>5 DEF VisitedOK, RestOK, Searching
<1>8. Doomed' = Doomed /\ InProgress' = InProgress
  BY <1>1 DEF Doomed, InProgress, Deleting, Searching, Removing
<1>9. Judged'
  BY <1>1, <1>3, <1>6, <1>8 DEF SweepInv, Judged, Sweeping
<1> QED BY <1>1, <1>4, <1>7, <1>9 DEF SweepInv, FreshTables, SearchState, Searching, Removing, Deleting

(* A path that invalidatePathChecked refuses is held by a referrer.        *)
LEMMA InUseKeepsSweep ==
    ASSUME TypeInv, TypeInv', SweepInv, PathInUse
    PROVE  SweepInv'
<1>1. /\ gcpc = "invalidate" /\ gcpc' = "delete" /\ InUse(cur)
      /\ UNCHANGED <<valid, disk, scanned, tempRoots, entries, start, visited, todo, cur, rest, sorted, roots, alive, dead, cache>>
  BY DEF PathInUse, GCGoto, store, search, found
<1>2. AllRoots' = AllRoots /\ Decided(Seeds) \subseteq Decided(Seeds)'
  BY <1>1 DEF AllRoots, Seeds, Decided
<1>3. Held \subseteq Held'
  BY <1>1, <1>2, SetTypes, SetTypesNext, HeldGrows DEF Held
<1>4. VisitedOK /\ CacheOK /\ RestOK /\ CurOK
  BY <1>1 DEF SweepInv, Judged, SearchState, Removing, Sweeping
<1>5. cur \in Held
  <2>1. PICK y \in Referrers(cur) : y # cur
    BY <1>1 DEF InUse
  <2>2. y \in Held /\ y \in valid /\ cur \in Refs[y]
    BY <1>4, <2>1 DEF CurOK, Referrers
  <2> QED BY <2>2, SetTypes, HeldClosed DEF Held
<1>6. \A v : Referrers(v)' = Referrers(v)
  BY <1>1 DEF Referrers
<1>7. CacheOK' /\ VisitedOK' /\ RestOK'
  BY <1>1, <1>2, <1>4, <1>6 DEF CacheOK, Gone, VisitedOK, RestOK, Searching
<1>8. Doomed' = {} /\ Doomed = {cur} /\ InProgress' = InProgress
  BY <1>1 DEF Doomed, InProgress, Deleting, Searching, Removing
<1>9. Judged'
  BY <1>1, <1>3, <1>5, <1>7, <1>8 DEF SweepInv, Judged, Sweeping
<1> QED BY <1>1, <1>7, <1>9 DEF SweepInv, FreshTables, SearchState, Searching, Removing, Deleting

LEMMA UnlinkKeepsSweep ==
    ASSUME TypeInv, SweepInv, DeleteFromStore
    PROVE  SweepInv'
<1>1. /\ gcpc = "unlink" /\ gcpc' = "delete" /\ disk' = disk \ {cur} /\ cache' = [cache EXCEPT ![cur] = {NoPath}]
      /\ UNCHANGED <<valid, scanned, tempRoots, entries, start, visited, todo, cur, rest, sorted, roots, alive, dead>>
  BY DEF DeleteFromStore, GCGoto, search
<1>2. AllRoots' = AllRoots /\ Held' = Held /\ \A v : Referrers(v)' = Referrers(v)
  BY <1>1, SameRoots
<1>3. VisitedOK /\ CacheOK /\ RestOK
  BY <1>1 DEF SweepInv, Judged, SearchState, Removing, Sweeping
<1>4. \A v \in Paths : cache'[v] = {NoPath} \/ cache'[v] = cache[v]
  BY <1>1 DEF TypeInv, TypeOK, CollectorTypeOK
<1>5. CacheOK'
  BY <1>1, <1>2, <1>3, <1>4 DEF CacheOK, Gone
<1>6. VisitedOK' /\ RestOK'
  BY <1>1, <1>2, <1>3 DEF VisitedOK, RestOK, Searching
<1>7. Doomed' = {} /\ Doomed = {cur} /\ InProgress' = InProgress
  BY <1>1 DEF Doomed, InProgress, Deleting, Searching, Removing
<1>8. Judged'
  BY <1>1, <1>2, <1>5, <1>7 DEF SweepInv, Judged, Sweeping
<1> QED BY <1>1, <1>6, <1>8 DEF SweepInv, FreshTables, SearchState, Searching, Removing, Deleting

(* At the end of a call its start is dead: gone, or held.                  *)
LEMMA DoneKeepsSweep ==
    ASSUME TypeInv, SweepInv, ClosureDone \/ EndOfDirectory
    PROVE  SweepInv'
<1>1. /\ gcpc \in {"delete", "sweep"} /\ gcpc' \in {"sweep", "stop"}
      /\ gcpc = "delete" => rest = {}
      /\ UNCHANGED <<valid, disk, scanned, tempRoots, entries, start, roots, alive, dead, cache>>
  BY DEF ClosureDone, EndOfDirectory, GCGoto, store, search, found
<1>2. AllRoots' = AllRoots /\ Held' = Held /\ \A v : Referrers(v)' = Referrers(v)
  BY <1>1, SameRoots
<1>3. CacheOK'
  BY <1>1, <1>2 DEF SweepInv, Judged, CacheOK, Gone, Sweeping
<1>4. gcpc = "delete" => start \in dead
  BY <1>1 DEF SweepInv, SearchState, VisitedOK, RestOK, Removing
<1>5. Doomed' = {} /\ Doomed = {} /\ InProgress' = {} /\ InProgress \subseteq dead
  BY <1>1, <1>4 DEF Doomed, InProgress, Deleting, Searching, Removing
<1>6. Judged'
  BY <1>1, <1>2, <1>3, <1>5 DEF SweepInv, Judged, Sweeping
<1> QED BY <1>1, <1>6 DEF SweepInv, FreshTables, SearchState, Searching, Removing, Deleting

(* The steps outside a sweep: the roots are read, or everything ends.      *)
LEMMA OutsideKeepsSweep ==
    ASSUME TypeInv, SweepInv,
           GCLock \/ StartServer \/ FindTempRoots \/ OpenStoreDir \/ LimitReached \/ StopServer \/ GCUnlock \/ GCKilled
    PROVE  SweepInv'
<1>1. CASE GCLock \/ StartServer \/ FindTempRoots
  BY <1>1 DEF GCLock, StartServer, FindTempRoots, GCGoto, found, SweepInv, FreshTables, Judged, SearchState, Sweeping, Searching, Removing, Deleting
<1>2. CASE OpenStoreDir
  <2>1. /\ gcpc = "scan" /\ gcpc' = "sweep" /\ scanned' = Procs /\ entries' = disk'
        /\ alive' = {} /\ dead' = {} /\ cache' = NoCache
    BY <1>2 DEF OpenStoreDir, GCGoto, store, SweepInv, FreshTables
  <2>2. CacheOK'
    BY <2>1 DEF CacheOK, NoCache
  <2>3. Judged'
    BY <2>1, <2>2 DEF Judged
  <2> QED BY <2>1, <2>3 DEF SweepInv, FreshTables, SearchState, Searching, Removing, Deleting
<1>3. CASE LimitReached \/ StopServer
  BY <1>3 DEF LimitReached, StopServer, GCGoto, SweepInv, FreshTables, Judged, SearchState, Sweeping, Searching, Removing, Deleting
<1>4. CASE GCUnlock \/ GCKilled
  BY <1>4 DEF GCUnlock, GCKilled, Forget, GCGoto, SweepInv, FreshTables, Judged, SearchState, Sweeping, Searching, Removing, Deleting
<1> QED BY <1>1, <1>2, <1>3, <1>4

-----------------------------------------------------------------------------
LEMMA StepKeepsSweep ==
    ASSUME OneThreadEach, IInv, StoreClosed, SweepInv, [CalmNext]_vars
    PROVE  SweepInv'
<1>1. IInv' /\ [Next]_vars
  BY StepKeepsIInv DEF CalmNext
<1>2. TypeInv /\ TypeInv' /\ ValidOnDisk /\ Judged
  BY <1>1 DEF IInv, StoreIntact, SweepInv
<1>3. CASE \/ \E t \in Threads : AddTempRoot(t) \/ ClientStep(t) \/ ServerStep(t)
           \/ \E p \in Procs : Exit(p)
           \/ UNCHANGED vars
  BY <1>2, <1>3, ClientsGrow, GrowthKeepsSweep
<1>4. CASE GCLock \/ LimitReached \/ GCKilled
  BY <1>2, <1>4, OutsideKeepsSweep
<1>5. CASE GCStep
  <2>1. CASE StartServer \/ FindTempRoots \/ OpenStoreDir \/ StopServer \/ GCUnlock
    BY <1>2, <2>1, OutsideKeepsSweep
  <2>2. CASE NextEntry \/ EndOfDirectory \/ FoundAlive \/ FoundDead \/ SetPending \/ VisitEdges \/ TopoSort
    BY <1>2, <2>2, NextEntryKeepsSweep, DoneKeepsSweep, FoundAliveKeepsSweep, QueueKeepsSweep, VisitKeepsSweep, SortKeepsSweep
  <2>3. CASE SkipDead \/ KeepLateRoot \/ StartDelete \/ Invalidate \/ PathInUse \/ DeleteFromStore \/ ClosureDone
    BY <1>2, <2>3, SkipKeepsSweep, LateRootKeepsSweep, StartDeleteKeepsSweep, InvalidateKeepsSweep, InUseKeepsSweep, UnlinkKeepsSweep, DoneKeepsSweep
  <2> QED BY <1>5, <2>1, <2>2, <2>3 DEF GCStep
<1> QED BY <1>1, <1>3, <1>4, <1>5 DEF Next

LEMMA InitSweep ==
    ASSUME Init
    PROVE  SweepInv /\ AliveLive
  BY DEF Init, SweepInv, FreshTables, Judged, SearchState, AliveLive, Sweeping, Searching, Removing, Deleting

(* What is held is in the closures that markAlive would compute.           *)
LEMMA SweepLeavesSpared ==
    ASSUME TypeInv, SweepInv
    PROVE  NothingElseLeft
<1> SUFFICES ASSUME gcpc = "stop" PROVE disk \ entries \subseteq Spared
  BY DEF NothingElseLeft
<1>1. Doomed = {} /\ InProgress = {} /\ Decided(Seeds) = Seeds
  BY DEF Doomed, InProgress, Deleting, Searching, Removing, Decided
<1>2. Held \subseteq Spared
  BY <1>1, SetTypes, RefClosureInClosure DEF Held, HeldBy, Spared
<1> QED BY <1>1, <1>2 DEF SweepInv, Judged

(* The steps that do not mark anything alive.                              *)
LEMMA WhoMarks ==
    ASSUME Next
    PROVE  alive' = alive \/ alive' = {} \/ FoundAlive \/ KeepLateRoot
<1>1. ASSUME NEW t \in Threads, AddTempRoot(t) \/ ClientStep(t) PROVE alive' = alive
  BY <1>1, ClientsLeaveCollector DEF collector, found
<1>2. ASSUME NEW t \in Threads, ServerStep(t) PROVE alive' = alive
  BY <1>2 DEF ServerStep, ServerReceive, ServerAck, collector, found
<1>3. ASSUME NEW p \in Procs, Exit(p) PROVE alive' = alive
  BY <1>3 DEF Exit, collector, found
<1>4. CASE Collector
  BY <1>4 DEF Collector, GCStep, GCLock, StartServer, FindTempRoots, OpenStoreDir, NextEntry, EndOfDirectory, FoundDead, SetPending, VisitEdges, TopoSort, SkipDead, StartDelete, Invalidate, PathInUse, DeleteFromStore, LimitReached, ClosureDone, StopServer, GCUnlock, GCKilled, Forget, found
<1> QED BY <1>1, <1>2, <1>3, <1>4 DEF Next, Collector

LEMMA StepMarks ==
    ASSUME TypeInv, StoreClosed, SweepInv, Next
    PROVE  alive' \subseteq alive \cup Spared
<1>1. CASE FoundAlive
  BY <1>1, FoundAliveMarks DEF Spared
<1>2. CASE KeepLateRoot
  <2>1. PICK x \in tempRoots : alive' = alive \cup Closure(x, valid)
    BY <1>2 DEF KeepLateRoot, BecameTempRoot
  <2> QED BY <2>1 DEF Spared, Seeds, AllRoots
<1> QED BY <1>1, <1>2, WhoMarks

(* For every setting of keep-outputs and keep-derivations, and under the   *)
(* hypotheses of RootsHonouredHolds, a sweep leaves nothing behind without *)
(* a reason: what it read and left is in the closure of a root or of a     *)
(* path marked alive, and a path is marked alive only when it is in the    *)
(* closure of a root or of a path marked before.  The cached referrers may *)
(* be older than the database, roots arrive and paths are made anew while  *)
(* the search runs, and invalidatePathChecked may refuse.                  *)
THEOREM SparedForReason ==
    ASSUME OneThreadEach
    PROVE  CalmSpec => []NothingElseLeft /\ MarkedForReason
<1> DEFINE I == IInv /\ SweepInv
           Step == alive' \subseteq alive \cup Spared
<1>1. Init => I
  BY InitIInv, InitSweep
<1>2. I /\ StoreClosed /\ [CalmNext]_vars => I'
  BY StepKeepsIInv, StepKeepsSweep
<1>3. I => NothingElseLeft
  BY SweepLeavesSpared DEF IInv
<1>4. I /\ StoreClosed /\ [CalmNext]_vars => [Step]_vars
  BY StepMarks DEF IInv, CalmNext
<1>5. [CalmNext]_vars => [Next]_vars
  BY DEF CalmNext
<1>6. CalmSpec => []StoreClosed
  BY <1>5, StoreClosedHolds, PTL DEF CalmSpec, Spec
<1> HIDE DEF I
<1> QED BY <1>1, <1>2, <1>3, <1>4, <1>6, PTL DEF CalmSpec, MarkedForReason

-----------------------------------------------------------------------------
(* With the settings off, every path marked alive stays in the closure of  *)
(* a root, because only references lead to it and a path that is referred  *)
(* to is not deleted.                                                      *)
LEMMA MarkingKeepsAlive ==
    ASSUME TypeInv, ReferencesOnly, StoreClosed, SweepInv, AliveLive, FoundAlive \/ KeepLateRoot
    PROVE  AliveLive'
<1>1. /\ gcpc \in {"bfs", "delete"} /\ gcpc' \in {"sweep", "delete"}
      /\ UNCHANGED <<valid, roots, tempRoots>>
  BY DEF FoundAlive, KeepLateRoot, GCGoto, store
<1>2. Live' = Live /\ Decided(AllRoots) = AllRoots
  BY <1>1, SameRoots
<1>3. PICK x \in Seeds : alive' \subseteq alive \cup Closure(x, valid)
  <2>1. CASE FoundAlive
    BY <2>1, FoundAliveMarks
  <2>2. CASE KeepLateRoot
    BY <2>2 DEF KeepLateRoot, BecameTempRoot, Seeds, AllRoots
  <2> QED BY <2>1, <2>2
<1>4. alive \subseteq Live /\ AllRoots \subseteq Live
  BY <1>1, <1>2, SetTypes, HeldClosed DEF AliveLive, Live, Sweeping
<1>5. Live \in SUBSET Paths /\ \A z \in Live \cap valid : Refs[z] \subseteq Live
  BY SetTypes, HeldClosed, RefClosureClosed DEF Live, HeldBy
<1>6. x \in Live /\ x \in Paths
  BY <1>4, SetTypes DEF Seeds
<1>7. Closure(x, valid) \subseteq Live
  <2>1. RefClosure(x, valid) \subseteq Live
    BY <1>5, <1>6, SetTypes, RefClosureLeast
  <2> QED BY <1>6, <2>1, SetTypes, RefClosureInClosure
<1> QED BY <1>2, <1>3, <1>4, <1>7 DEF AliveLive

LEMMA StepKeepsAlive ==
    ASSUME OneThreadEach, ReferencesOnly, IInv, StoreClosed, SweepInv, AliveLive, [CalmNext]_vars
    PROVE  AliveLive'
<1>1. IInv' /\ [Next]_vars
  BY StepKeepsIInv DEF CalmNext
<1>2. TypeInv /\ TypeInv' /\ Judged
  BY <1>1 DEF IInv, SweepInv
<1>3. CASE \/ \E t \in Threads : AddTempRoot(t) \/ ClientStep(t) \/ ServerStep(t)
           \/ \E p \in Procs : Exit(p)
           \/ UNCHANGED vars
  BY <1>2, <1>3, ClientsGrow, GrowthHolds DEF AliveLive
<1>4. CASE GCLock \/ StartServer \/ FindTempRoots \/ LimitReached \/ StopServer \/ GCUnlock \/ GCKilled
  BY <1>4 DEF GCLock, StartServer, FindTempRoots, LimitReached, StopServer, GCUnlock, GCKilled, GCGoto, AliveLive, Sweeping
<1>5. CASE OpenStoreDir
  BY <1>5 DEF OpenStoreDir, SweepInv, FreshTables, AliveLive
<1>6. CASE NextEntry \/ EndOfDirectory \/ FoundDead \/ SetPending \/ VisitEdges \/ TopoSort \/ SkipDead \/ DeleteFromStore \/ ClosureDone
  <2>1. /\ gcpc \in Sweeping \ {"invalidate"} /\ gcpc' # "invalidate"
        /\ UNCHANGED <<valid, roots, tempRoots, alive>>
    BY <1>6 DEF NextEntry, EndOfDirectory, FoundDead, SetPending, VisitEdges, TopoSort, SkipDead, DeleteFromStore, ClosureDone, GCGoto, store, found, Sweeping
  <2> QED BY <2>1, SameRoots DEF AliveLive
<1>7. CASE StartDelete
  <2>1. PICK x \in rest \ dead : x \notin tempRoots /\ cur' = x
    BY <1>7 DEF StartDelete, BecameTempRoot
  <2>2. gcpc = "delete" /\ gcpc' = "invalidate" /\ UNCHANGED <<valid, roots, tempRoots, alive>>
    BY <1>7 DEF StartDelete, GCGoto, store
  <2>3. x \notin roots
    BY <2>1, <2>2 DEF SweepInv, SearchState, VisitedOK, RestOK, Removing
  <2>4. AllRoots' = AllRoots /\ Decided(AllRoots)' = Decided(AllRoots)
    BY <2>1, <2>2, <2>3 DEF Decided, AllRoots
  <2> QED BY <2>2, <2>4 DEF AliveLive, Live, Sweeping
<1>8. CASE Invalidate \/ PathInUse
  <2>1. gcpc = "invalidate" /\ gcpc' \in {"unlink", "delete"} /\ UNCHANGED <<roots, tempRoots, alive, cur>>
    BY <1>8 DEF Invalidate, PathInUse, GCGoto, search, found
  <2>2. Decided(AllRoots) \subseteq Decided(AllRoots)' /\ cur \notin Decided(AllRoots)
    BY <2>1 DEF Decided, AllRoots
  <2>3. Live \subseteq HeldBy(Decided(AllRoots), valid')
    <3>1. CASE Invalidate
      BY <1>2, <2>2, <3>1, SetTypes, InvalidateHolds DEF Live
    <3>2. CASE PathInUse
      BY <3>2 DEF PathInUse, store, Live
    <3> QED BY <1>8, <3>1, <3>2
  <2>4. Live \subseteq Live'
    BY <2>2, <2>3 DEF Live, HeldBy
  <2> QED BY <2>1, <2>4 DEF AliveLive, Sweeping
<1>9. CASE FoundAlive \/ KeepLateRoot
  BY <1>2, <1>9, MarkingKeepsAlive
<1> QED BY <1>1, <1>3, <1>4, <1>5, <1>6, <1>7, <1>8, <1>9 DEF Next, GCStep

LEMMA SweepLeavesNoGarbage ==
    ASSUME TypeInv, SweepInv, AliveLive
    PROVE  GarbageCollected
<1> SUFFICES ASSUME gcpc = "stop" PROVE disk \ entries \subseteq Protected
  BY DEF GarbageCollected
<1>1. Doomed = {} /\ InProgress = {} /\ Decided(Seeds) = Seeds /\ Decided(AllRoots) = AllRoots
  BY DEF Doomed, InProgress, Deleting, Searching, Removing, Decided
<1>2. Seeds \subseteq Live
  BY <1>1, SetTypes, HeldClosed DEF Seeds, AliveLive, Live
<1>3. Live \in SUBSET Paths /\ \A z \in Live \cap valid : Refs[z] \subseteq Live
  BY SetTypes, HeldClosed, RefClosureClosed DEF Live, HeldBy
<1>4. Held \subseteq Live
  BY <1>1, <1>2, <1>3, SetTypes, RefClosureLeast DEF Held, HeldBy
<1>5. Live \subseteq Protected
  <2> SUFFICES ASSUME NEW x \in AllRoots, NEW y \in RefClosure(x, valid)
               PROVE  y \in Protected
    BY <1>1 DEF Live, HeldBy
  <2>1. x \in Paths /\ valid \subseteq Paths
    BY SetTypes DEF AllRoots
  <2>2. y \in Closure(x, valid)
    BY <2>1, RefClosureInClosure
  <2> QED BY <2>2 DEF Protected, AllRoots
<1> QED BY <1>1, <1>4, <1>5 DEF SweepInv, Judged

(* With keep-outputs and keep-derivations off, a sweep that reaches the    *)
(* end of the directory has deleted everything it read there that no root  *)
(* protects, under the hypotheses of RootsHonouredHolds.                   *)
THEOREM GarbageCollectedHolds ==
    ASSUME OneThreadEach, ReferencesOnly
    PROVE  CalmSpec => []GarbageCollected
<1> DEFINE I == IInv /\ SweepInv /\ AliveLive
<1>1. Init => I
  BY InitIInv, InitSweep
<1>2. I /\ StoreClosed /\ [CalmNext]_vars => I'
  BY StepKeepsIInv, StepKeepsSweep, StepKeepsAlive
<1>3. I => GarbageCollected
  BY SweepLeavesNoGarbage DEF IInv
<1>4. [CalmNext]_vars => [Next]_vars
  BY DEF CalmNext
<1>5. CalmSpec => []StoreClosed
  BY <1>4, StoreClosedHolds, PTL DEF CalmSpec, Spec
<1> HIDE DEF I
<1> QED BY <1>1, <1>2, <1>3, <1>5, PTL DEF CalmSpec

(* With one collection at most, as in the run gc_clients, every behaviour  *)
(* of the specification will do.                                           *)
THEOREM OneCollectionThorough ==
    ASSUME OneThreadEach, ReferencesOnly, MaxGC <= 1
    PROVE  Spec => []GarbageCollected
<1> DEFINE I == IInv /\ FirstIsCalm /\ SweepInv /\ AliveLive
<1>1. Init => I
  BY InitIInv, InitSweep DEF Init, FirstIsCalm, Unrecorded
<1>2. I /\ StoreClosed /\ [Next]_vars => I'
  <2> SUFFICES ASSUME IInv, FirstIsCalm, SweepInv, AliveLive, StoreClosed, [Next]_vars
               PROVE  IInv' /\ FirstIsCalm' /\ SweepInv' /\ AliveLive'
    OBVIOUS
  <2>1. [CalmNext]_vars /\ TypeInv
    BY OneCollectionIsCalm DEF IInv
  <2> QED BY <2>1, StepKeepsIInv, StepKeepsFirstIsCalm, StepKeepsSweep, StepKeepsAlive
<1>3. I => GarbageCollected
  BY SweepLeavesNoGarbage DEF IInv
<1> HIDE DEF I
<1> QED BY <1>1, <1>2, <1>3, StoreClosedHolds, PTL DEF Spec

=============================================================================
