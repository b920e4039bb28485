---------------------------- MODULE WorkerProofs ----------------------------
(* Proofs about the build scheduler, for any goals, dependencies, settings *)
(* and numbers of substituters and build users.                            *)
EXTENDS Worker, FiniteSetTheorems, TLAPS

-----------------------------------------------------------------------------
(* The steps of a goal by what they do to the scheduler.                   *)
Runs(g) == loop = "run" /\ running = g /\ doomed = {}

Codes == {"success", "failed", "nosubst"}

(* Why a goal may say that it succeeded.                                   *)
Succeeds(g) == IsValid(g) \/ pc[g] = "succeeded" \/ (pc[g] = "built" /\ ~SomeFailed(g))

Ends(g) ==
    /\ Runs(g) /\ pc[g] \notin {"none", "copied", "building"}
    /\ \E code \in Codes : AmDone(g, code) /\ (code = "success" => Succeeds(g))

Awaits(g) ==
    /\ Runs(g)
    /\ \/ pc[g] = "start" /\ Kind[g] = "drv" /\ Await(g, {SubstOf[g]} \ {NoGoal}, "substituted")
       \/ pc[g] = "info" /\ Await(g, Deps[g], "refs")
       \/ pc[g] = "resolve" /\ Await(g, Deps[g], "resolved")
       \/ pc[g] = "resolved" /\ Await(g, {BuildOf[g]}, "built")
       \/ pc[g] = "start" /\ Kind[g] = "build" /\ Await(g, {h \in Deps[g] : ~IsValid(h)}, "inputs")

Yields(g) ==
    /\ Runs(g)
    /\ \/ pc[g] = "refs" /\ ~SomeFailed(g) /\ Yield(g, "slot")
       \/ pc[g] = "inputs" /\ ~SomeFailed(g) /\ Yield(g, "trybuild")
       \/ pc[g] = "trybuild" /\ Yield(g, "local")

Queries(g) ==
    /\ Runs(g) /\ ((pc[g] = "start" /\ Kind[g] = "subst") \/ pc[g] \in {"info", "query"})
    /\ QueryPathInfo(g)

Throws(g) ==
    /\ Runs(g) /\ loop' = "threw"
    /\ UNCHANGED <<settings, world, pc, exitCode, links, subst, top, awake, rounds,
                   running, doomed, lists, slots, outside>>

GivesUp(g) ==
    /\ Runs(g) /\ pc[g] = "substituted"
    /\ Goto(g, "resolve")
    /\ nrFailed' = [nrFailed EXCEPT ![g] = 0]
    /\ nrNoSubstituters' = [nrNoSubstituters EXCEPT ![g] = 0]
    /\ UNCHANGED <<settings, world, exitCode, waitees, waiters, subst, top, awake, rounds,
                   running, doomed, lists, slots, loop, outside>>

Waits(g) == SubstWait(g) \/ BuildWait(g) \/ OutputsLocked(g) \/ NoBuildUser(g)

Starts(g) == SubstRun(g) \/ StartBuild(g)

Finishes(g) == SubstFinished(g) \/ BuildDone(g)

LEMMA GoalSteps ==
    ASSUME NEW g \in Goals, GoalStep(g)
    PROVE  \/ Ends(g) \/ Awaits(g) \/ Yields(g) \/ Queries(g) \/ Throws(g) \/ GivesUp(g)
           \/ Waits(g) \/ Starts(g) \/ Finishes(g) \/ Destroy(g)
<1> USE DEF At, Runs
<1>1. ASSUME NextSubstituter(g), Runs(g), (pc[g] = "start" /\ Kind[g] = "subst") \/ pc[g] \in {"info", "query"}
      PROVE  Queries(g) \/ Ends(g) \/ Throws(g)
  <2>1. CASE QueryPathInfo(g)
    BY <1>1, <2>1 DEF Queries
  <2>2. CASE NoneLeft(g)
    BY <1>1, <2>2 DEF NoneLeft, Ends, Throws, Codes
  <2> QED BY <1>1, <2>1, <2>2 DEF NextSubstituter
<1>2. CASE SubstStart(g) \/ GotPathInfo(g) \/ SubstRetry(g)
  <2>1. CASE SubstStart(g)
    BY <1>1, <2>1 DEF SubstStart, Ends, Codes, Succeeds
  <2>2. CASE GotPathInfo(g)
    BY <1>1, <2>2 DEF GotPathInfo, Awaits
  <2>3. CASE SubstRetry(g)
    BY <1>1, <2>3 DEF SubstRetry
  <2> QED BY <1>2, <2>1, <2>2, <2>3
<1>3. CASE RefsRealised(g)
  BY <1>3 DEF RefsRealised, Ends, Codes, Yields
<1>4. CASE DrvStart(g)
  BY <1>4 DEF DrvStart, Ends, Codes, Succeeds, Awaits
<1>5. CASE OutputsSubstituted(g)
  BY <1>5 DEF OutputsSubstituted, Ends, Codes, Succeeds, GivesUp
<1>6. CASE Resolve(g) \/ Resolved(g)
  BY <1>6 DEF Resolve, Resolved, Ends, Codes, Awaits
<1>7. CASE OuterBuildDone(g)
  BY <1>7 DEF OuterBuildDone, Ends, Codes, Succeeds
<1>8. CASE BuildStart(g)
  BY <1>8 DEF BuildStart, Awaits
<1>9. CASE InputsRealised(g) \/ TryToBuild(g)
  BY <1>9 DEF InputsRealised, TryToBuild, Ends, Codes, Succeeds, Yields
<1>10. CASE BuildFailed(g) \/ Succeeded(g)
  BY <1>10 DEF BuildFailed, Succeeded, Ends, Codes, Succeeds
<1> QED BY <1>2, <1>3, <1>4, <1>5, <1>6, <1>7, <1>8, <1>9, <1>10 DEF GoalStep, Waits, Starts, Finishes

(* All the steps there are.                                                *)
LEMMA Steps ==
    ASSUME [Next]_vars
    PROVE  \/ \E g \in Goals : \/ Ends(g) \/ Awaits(g) \/ Yields(g) \/ Queries(g) \/ Throws(g)
                               \/ GivesUp(g) \/ Waits(g) \/ Starts(g) \/ Finishes(g) \/ Destroy(g)
           \/ StartRound \/ Work \/ EndRound \/ RunEnds \/ WaitForInput
           \/ \E g \in Goals : QueryDone(g) \/ CopyDone(g) \/ Notify(g) \/ BuilderExits(g)
           \/ \E x \in Paths : ForeignLocks(x) \/ ForeignBuilt(x)
           \/ UNCHANGED vars
  BY GoalSteps DEF Next, WorkerStep, ThreadStep

-----------------------------------------------------------------------------
(* What shared pointers lead to.                                           *)
LEMMA ReachableFacts ==
    ASSUME NEW w \in [Goals -> SUBSET Goals], NEW S \in SUBSET Goals
    PROVE  /\ S \subseteq Reachable(w, S) /\ Reachable(w, S) \subseteq Goals
           /\ \A h \in Reachable(w, S) : w[h] \subseteq Reachable(w, S)
           /\ \A Y \in SUBSET Goals :
                 S \subseteq Y /\ (\A h \in Y : w[h] \subseteq Y) => Reachable(w, S) \subseteq Y
<1> DEFINE owned == {Y \in SUBSET Goals : S \subseteq Y /\ \A h \in Y : w[h] \subseteq Y}
<1>1. Reachable(w, S) = {g \in Goals : \A Y \in owned : g \in Y}
  BY DEF Reachable
<1>2. ASSUME NEW h \in Reachable(w, S), NEW x \in w[h] PROVE x \in Reachable(w, S)
  <2>1. h \in Goals /\ x \in Goals
    BY <1>1
  <2>2. \A Y \in owned : x \in Y
    BY <1>1
  <2> QED BY <1>1, <2>1, <2>2
<1> QED BY <1>1, <1>2

-----------------------------------------------------------------------------
(* Where a goal of each kind can be.                                       *)
SubstLabels == {"query", "info", "refs", "slot", "copied"}
DrvLabels == {"substituted", "resolve", "resolved", "built"}
BuildLabels == {"inputs", "trybuild", "local", "building", "failed"}

KindsOK ==
    \A g \in Goals :
        /\ pc[g] \in SubstLabels => Kind[g] = "subst"
        /\ pc[g] \in DrvLabels => Kind[g] = "drv"
        /\ pc[g] \in BuildLabels => Kind[g] = "build"

(* A goal has a Child exactly while it copies or builds.                   *)
ChildrenOK == \A g \in Goals : g \in children <=> pc[g] \in {"copied", "building"}

WaitLabels == {"substituted", "resolved", "built", "refs", "inputs"}

(* The labels that fit to a goal's kind.                                   *)
Fits(g, label) ==
    /\ label \in SubstLabels => Kind[g] = "subst"
    /\ label \in DrvLabels => Kind[g] = "drv"
    /\ label \in BuildLabels => Kind[g] = "build"

(* A goal awaits goals, at a label of its kind.                            *)
LEMMA AwaitsGoals ==
    ASSUME KindsOK, NEW g \in Goals, Awaits(g)
    PROVE  \E S \in SUBSET Goals, label \in WaitLabels :
              /\ Await(g, S, label) /\ Fits(g, label)
              /\ pc[g] \in {"start", "info", "resolve", "resolved"}
<1> USE WorkerAssumption DEF KindsOK, Fits, WaitLabels, SubstLabels, DrvLabels, BuildLabels
<1>1. CASE pc[g] = "start" /\ Kind[g] = "drv" /\ Await(g, {SubstOf[g]} \ {NoGoal}, "substituted")
  <2>1. {SubstOf[g]} \ {NoGoal} \in SUBSET Goals
    OBVIOUS
  <2> QED BY <1>1, <2>1
<1>2. CASE pc[g] = "info" /\ Await(g, Deps[g], "refs")
  BY <1>2
<1>3. CASE pc[g] = "resolve" /\ Await(g, Deps[g], "resolved")
  BY <1>3
<1>4. CASE pc[g] = "resolved" /\ Await(g, {BuildOf[g]}, "built")
  <2>1. {BuildOf[g]} \in SUBSET Goals
    BY <1>4
  <2> QED BY <1>4, <2>1
<1>5. CASE pc[g] = "start" /\ Kind[g] = "build" /\ Await(g, {h \in Deps[g] : ~IsValid(h)}, "inputs")
  <2>1. {h \in Deps[g] : ~IsValid(h)} \in SUBSET Goals
    OBVIOUS
  <2> QED BY <1>5, <2>1
<1> QED BY <1>1, <1>2, <1>3, <1>4, <1>5 DEF Awaits

(* The other steps of a goal move it alone.                                *)
LEMMA GoalMoves ==
    ASSUME pc \in [Goals -> Labels], KindsOK, NEW g \in Goals,
           \/ Ends(g) \/ Yields(g) \/ Queries(g) \/ GivesUp(g) \/ Waits(g)
           \/ Starts(g) \/ Finishes(g) \/ Destroy(g)
    PROVE  \E label \in Labels : pc' = [pc EXCEPT ![g] = label] /\ Fits(g, label)
<1> USE DEF KindsOK, Fits, SubstLabels, DrvLabels, BuildLabels, Labels, Goto
<1>1. CASE Ends(g) \/ Yields(g) \/ Queries(g) \/ GivesUp(g) \/ Destroy(g)
  BY <1>1 DEF Ends, Yields, Queries, GivesUp, Destroy, AmDone, Yield, QueryPathInfo
<1>2. CASE SubstWait(g) \/ OutputsLocked(g) \/ NoBuildUser(g)
  <2>1. pc' = pc
    BY <1>2 DEF SubstWait, OutputsLocked, NoBuildUser
  <2>2. pc[g] \in Labels /\ Fits(g, pc[g]) /\ pc' = [pc EXCEPT ![g] = pc[g]]
    BY <2>1
  <2> QED BY <2>2
<1>3. CASE BuildWait(g) \/ Starts(g) \/ Finishes(g)
  BY <1>3 DEF BuildWait, Starts, Finishes, SubstRun, StartBuild, SubstFinished, BuildDone, At
<1> QED BY <1>1, <1>2, <1>3 DEF Waits

(* Nobody else moves a goal.                                               *)
LEMMA OthersLeaveGoals ==
    ASSUME \/ \E g \in Goals : Throws(g)
           \/ StartRound \/ Work \/ EndRound \/ RunEnds \/ WaitForInput
           \/ \E g \in Goals : QueryDone(g) \/ CopyDone(g) \/ Notify(g) \/ BuilderExits(g)
           \/ \E x \in Paths : ForeignLocks(x) \/ ForeignBuilt(x)
           \/ UNCHANGED vars
    PROVE  UNCHANGED <<settings, pc, exitCode, links, subst, slots>>
<1>1. ASSUME NEW g \in Goals, Throws(g) \/ QueryDone(g) \/ CopyDone(g) \/ Notify(g) \/ BuilderExits(g)
      PROVE  UNCHANGED <<settings, pc, exitCode, links, subst, slots>>
  BY <1>1 DEF Throws, QueryDone, CopyDone, Enqueue, Notify, BuilderExits
<1>2. ASSUME NEW x \in Paths, ForeignLocks(x) \/ ForeignBuilt(x)
      PROVE  UNCHANGED <<settings, pc, exitCode, links, subst, slots>>
  BY <1>2 DEF ForeignLocks, ForeignBuilt
<1> QED BY <1>1, <1>2 DEF StartRound, Work, EndRound, RunEnds, WaitForInput, vars

(* Kinds and children.                                                     *)
LEMMA StepKeepsKinds ==
    ASSUME GoalTypeOK, KindsOK, [Next]_vars
    PROVE  KindsOK'
<1> USE DEF GoalTypeOK, KindsOK, Fits
<1>1. ASSUME NEW g \in Goals, Awaits(g) PROVE KindsOK'
  <2>1. PICK S \in SUBSET Goals, label \in WaitLabels : Await(g, S, label) /\ Fits(g, label)
    BY <1>1, AwaitsGoals
  <2>2. \A h \in Goals : pc'[h] = IF h = g THEN label ELSE IF h \in S /\ pc[h] = "none" THEN "start" ELSE pc[h]
    BY <2>1 DEF Await
  <2> QED BY <2>1, <2>2 DEF SubstLabels, DrvLabels, BuildLabels
<1>2. ASSUME NEW g \in Goals,
             \/ Ends(g) \/ Yields(g) \/ Queries(g) \/ GivesUp(g) \/ Waits(g)
             \/ Starts(g) \/ Finishes(g) \/ Destroy(g)
      PROVE  KindsOK'
  <2>1. PICK label \in Labels : pc' = [pc EXCEPT ![g] = label] /\ Fits(g, label)
    BY <1>2, GoalMoves
  <2> QED BY <2>1
<1>3. ASSUME pc' = pc PROVE KindsOK'
  BY <1>3
<1> QED BY <1>1, <1>2, <1>3, Steps, OthersLeaveGoals

LEMMA StepKeepsChildren ==
    ASSUME GoalTypeOK, KindsOK, ChildrenOK, [Next]_vars
    PROVE  ChildrenOK'
<1> USE DEF GoalTypeOK, ChildrenOK
<1>1. ASSUME NEW g \in Goals, Awaits(g) PROVE ChildrenOK'
  <2>1. PICK S \in SUBSET Goals, label \in WaitLabels :
            Await(g, S, label) /\ pc[g] \in {"start", "info", "resolve", "resolved"}
    BY <1>1, AwaitsGoals
  <2>2. \A h \in Goals : pc'[h] = IF h = g THEN label ELSE IF h \in S /\ pc[h] = "none" THEN "start" ELSE pc[h]
    BY <2>1 DEF Await
  <2>3. children' = children
    BY <2>1 DEF Await, slots
  <2> QED BY <2>1, <2>2, <2>3 DEF WaitLabels
<1>2. ASSUME NEW g \in Goals, Ends(g) \/ Yields(g) \/ Queries(g) \/ GivesUp(g) \/ Waits(g) PROVE ChildrenOK'
  <2>1. children' = children
    BY <1>2 DEF slots, Ends, Yields, Queries, GivesUp, Waits, AmDone, Yield, QueryPathInfo, SubstWait, BuildWait, OutputsLocked, NoBuildUser
  <2>2. PICK label \in Labels : pc' = [pc EXCEPT ![g] = label]
    BY <1>2, GoalMoves
  <2>3. pc[g] \notin {"copied", "building"} /\ pc'[g] \notin {"copied", "building"}
    BY <1>2 DEF Ends, Yields, Queries, GivesUp, Waits, AmDone, Yield, QueryPathInfo, SubstWait, BuildWait, OutputsLocked, NoBuildUser, At, Goto
  <2> QED BY <2>1, <2>2, <2>3
<1>3. ASSUME NEW g \in Goals, Starts(g) PROVE ChildrenOK'
  BY <1>3 DEF Starts, SubstRun, StartBuild, ChildStarted, Goto
<1>4. ASSUME NEW g \in Goals, Finishes(g) \/ Destroy(g) PROVE ChildrenOK'
  BY <1>4 DEF Finishes, SubstFinished, BuildDone, Destroy, ChildTerminated, Goto
<1>5. ASSUME pc' = pc, children' = children PROVE ChildrenOK'
  BY <1>5
<1> QED BY <1>1, <1>2, <1>3, <1>4, <1>5, Steps, OthersLeaveGoals DEF slots

-----------------------------------------------------------------------------
(* The children of a kind, and the limit on their number.                  *)
Having(S, c) == {g \in S : Kind[g] = c}

Limit(c) == IF c = "subst" THEN Max({1, settings.maxSubstitutionJobs}) ELSE settings.maxBuildJobs

LEMMA LimitType ==
    ASSUME settings \in Settings, NEW c
    PROVE  Limit(c) \in Nat
<1>1. settings.maxBuildJobs \in Nat /\ settings.maxSubstitutionJobs \in Nat
  BY WorkerAssumption
<1>2. Max({1, settings.maxSubstitutionJobs}) \in Nat
  <2> DEFINE n == settings.maxSubstitutionJobs
  <2>1. \E x \in {1, n} : \A y \in {1, n} : x >= y
    BY <1>1
  <2> QED BY <1>1, <2>1 DEF Max
<1> QED BY <1>1, <1>2 DEF Limit

LEMMA CountChildren ==
    ASSUME NEW S \in SUBSET Goals, NEW g \in Goals, NEW c
    PROVE  /\ Cardinality(Having(S, c)) \in Nat
           /\ g \notin S /\ Kind[g] = c => Cardinality(Having(S \cup {g}, c)) = Cardinality(Having(S, c)) + 1
           /\ g \in S /\ Kind[g] = c => Cardinality(Having(S \ {g}, c)) = Cardinality(Having(S, c)) - 1
           /\ Kind[g] # c => Having(S \cup {g}, c) = Having(S, c) /\ Having(S \ {g}, c) = Having(S, c)
<1>1. IsFiniteSet(Having(S, c))
  BY WorkerAssumption, FS_Subset DEF Having
<1>2. Cardinality(Having(S, c)) \in Nat
  BY <1>1, FS_CardinalityType
<1>3. CASE Kind[g] = c
  <2>1. Having(S \cup {g}, c) = Having(S, c) \cup {g} /\ Having(S \ {g}, c) = Having(S, c) \ {g}
    BY <1>3 DEF Having
  <2>2. g \in S <=> g \in Having(S, c)
    BY <1>3 DEF Having
  <2>3. g \notin S => Cardinality(Having(S, c) \cup {g}) = Cardinality(Having(S, c)) + 1
    BY <1>1, <2>2, FS_AddElement
  <2>4. g \in S => Cardinality(Having(S, c) \ {g}) = Cardinality(Having(S, c)) - 1
    BY <1>1, <2>2, FS_RemoveElement
  <2> QED BY <1>2, <1>3, <2>1, <2>3, <2>4
<1>4. CASE Kind[g] # c
  BY <1>2, <1>4 DEF Having
<1> QED BY <1>3, <1>4

(* The counters follow the children, and a child is started only below the *)
(* limit.                                                                  *)
SlotsOK ==
    \A c \in Categories : nr[c] = Cardinality(Having(children, c)) /\ nr[c] <= Limit(c)

LEMMA StepKeepsSlots ==
    ASSUME TypeOK, KindsOK, ChildrenOK, SlotsOK, [Next]_vars
    PROVE  SlotsOK' /\ children' \subseteq Goals /\ nr' \in [Categories -> Nat]
<1> USE DEF TypeOK, GoalTypeOK, WorkerTypeOK
<1>1. settings' = settings
  BY Steps, OthersLeaveGoals DEF Ends, Awaits, Yields, Queries, GivesUp, Waits, Starts, Finishes, AmDone, Await, Yield, QueryPathInfo, SubstWait, BuildWait, OutputsLocked, NoBuildUser, SubstRun, StartBuild, SubstFinished, BuildDone, Destroy
<1>2. \A c : Limit(c)' = Limit(c) /\ Limit(c) \in Nat
  BY <1>1, LimitType DEF Limit
<1>3. ASSUME UNCHANGED slots PROVE SlotsOK' /\ children' \subseteq Goals /\ nr' \in [Categories -> Nat]
  BY <1>2, <1>3 DEF slots, SlotsOK, Having
<1>4. ASSUME NEW g \in Goals, Starts(g) PROVE SlotsOK' /\ children' \subseteq Goals /\ nr' \in [Categories -> Nat]
  <2>1. PICK c \in Categories : /\ ChildStarted(g, c) /\ SlotFree(c) /\ Kind[g] = c
                                /\ pc[g] \in {"slot", "local"}
    BY <1>4 DEF Starts, SubstRun, StartBuild, At, Categories, KindsOK, SubstLabels, BuildLabels
  <2>2. g \notin children /\ children' = children \cup {g} /\ nr' = [nr EXCEPT ![c] = @ + 1]
    BY <2>1 DEF ChildStarted, ChildrenOK
  <2>3. nr[c] < Limit(c)
    BY <2>1 DEF SlotFree, Limit
  <2>4. ASSUME NEW d \in Categories PROVE nr'[d] = Cardinality(Having(children', d)) /\ nr'[d] <= Limit(d)
    BY <1>2, <2>1, <2>2, <2>3, CountChildren DEF SlotsOK
  <2>5. SlotsOK'
    BY <1>2, <2>4 DEF SlotsOK
  <2>6. nr' \in [Categories -> Nat]
    BY <2>2
  <2> QED BY <2>2, <2>5, <2>6
<1>5. ASSUME NEW g \in Goals, NEW c \in Categories, g \in children, Kind[g] = c, children' = children \ {g},
             nr' \in [Categories -> Int], \A d \in Categories : nr'[d] = IF d = c THEN nr[d] - 1 ELSE nr[d]
      PROVE  SlotsOK' /\ children' \subseteq Goals /\ nr' \in [Categories -> Nat]
  <2>1. ASSUME NEW d \in Categories
        PROVE  nr'[d] = Cardinality(Having(children', d)) /\ nr'[d] <= Limit(d) /\ nr'[d] \in Nat
    <3>1. Cardinality(Having(children', d)) \in Nat
      BY <1>5, CountChildren
    <3>2. nr'[d] = Cardinality(Having(children', d))
      <4>1. CASE d = c
        BY <1>5, <4>1, CountChildren DEF SlotsOK
      <4>2. CASE d # c
        BY <1>5, <4>2, CountChildren DEF SlotsOK
      <4> QED BY <4>1, <4>2
    <3>3. nr[d] \in Nat /\ nr[d] <= Limit(d) /\ (nr'[d] = nr[d] - 1 \/ nr'[d] = nr[d])
      BY <1>5 DEF SlotsOK
    <3> QED BY <1>2, <3>1, <3>2, <3>3
  <2> QED BY <1>2, <1>5, <2>1 DEF SlotsOK
<1>6. ASSUME NEW g \in Goals, Finishes(g) PROVE SlotsOK' /\ children' \subseteq Goals /\ nr' \in [Categories -> Nat]
  <2>1. PICK c \in Categories : ChildTerminated(g, c) /\ Kind[g] = c /\ pc[g] \in {"copied", "building"}
    BY <1>6 DEF Finishes, SubstFinished, BuildDone, At, Categories, KindsOK, SubstLabels, BuildLabels
  <2>2. nr' = [nr EXCEPT ![c] = @ - 1] /\ children' = children \ {g} /\ g \in children
    BY <2>1 DEF ChildTerminated, ChildrenOK
  <2>3. nr' \in [Categories -> Int] /\ \A d \in Categories : nr'[d] = IF d = c THEN nr[d] - 1 ELSE nr[d]
    BY <2>2
  <2> QED BY <1>5, <2>1, <2>2, <2>3
<1>7. ASSUME NEW g \in Goals, Destroy(g) PROVE SlotsOK' /\ children' \subseteq Goals /\ nr' \in [Categories -> Nat]
  <2>1. /\ children' = children \ {g}
        /\ nr' = [c \in Categories |-> IF g \in children /\ c = Kind[g] THEN nr[c] - 1 ELSE nr[c]]
    BY <1>7 DEF Destroy
  <2>2. CASE g \in children
    <3>1. Kind[g] \in Categories
      BY <2>2 DEF ChildrenOK, KindsOK, SubstLabels, BuildLabels, Categories
    <3>2. nr' \in [Categories -> Int] /\ \A d \in Categories : nr'[d] = IF d = Kind[g] THEN nr[d] - 1 ELSE nr[d]
      BY <2>1, <2>2
    <3> QED BY <1>5, <2>1, <2>2, <3>1, <3>2
  <2>3. CASE g \notin children
    BY <1>3, <2>1, <2>3 DEF slots
  <2> QED BY <2>2, <2>3
<1>8. ASSUME NEW g \in Goals, Ends(g) \/ Awaits(g) \/ Yields(g) \/ Queries(g) \/ GivesUp(g) \/ Waits(g)
      PROVE  UNCHANGED slots
  BY <1>8 DEF Ends, Awaits, Yields, Queries, GivesUp, Waits, AmDone, Await, Yield, QueryPathInfo, SubstWait, BuildWait, OutputsLocked, NoBuildUser
<1> QED BY <1>3, <1>4, <1>6, <1>7, <1>8, Steps, OthersLeaveGoals

-----------------------------------------------------------------------------
(* Types.                                                                  *)
LEMMA StepKeepsGoalTypes ==
    ASSUME TypeOK, KindsOK, [Next]_vars
    PROVE  GoalTypeOK'
<1> USE DEF TypeOK, GoalTypeOK
<1>1. ASSUME NEW g \in Goals, Awaits(g) PROVE GoalTypeOK'
  <2>1. PICK S \in SUBSET Goals, label \in WaitLabels : Await(g, S, label)
    BY <1>1, AwaitsGoals
  <2>2. label \in Labels /\ "start" \in Labels
    BY DEF WaitLabels, Labels
  <2>3. pc' \in [Goals -> Labels] /\ exitCode' \in [Goals -> {"busy", "success", "failed", "nosubst"}]
    BY <2>1, <2>2 DEF Await
  <2>4. waitees' \in [Goals -> SUBSET Goals] /\ waiters' \in [Goals -> SUBSET Goals]
    BY <2>1 DEF Await
  <2>5. left' \in [Goals -> 0..Substituters] /\ subFailed' \subseteq Goals
    <3>1. Substituters \in 0..Substituters
      BY WorkerAssumption
    <3> QED BY <2>1, <3>1 DEF Await
  <2>6. nrFailed' \in [Goals -> Nat] /\ nrNoSubstituters' \in [Goals -> Nat]
    BY <2>1 DEF Await
  <2> QED BY <2>3, <2>4, <2>5, <2>6
<1>2. ASSUME NEW g \in Goals, Ends(g) PROVE GoalTypeOK'
  <2>1. PICK code \in Codes : AmDone(g, code)
    BY <1>2 DEF Ends
  <2>2. pc' \in [Goals -> Labels] /\ exitCode' \in [Goals -> {"busy", "success", "failed", "nosubst"}]
    BY <2>1 DEF AmDone, Goto, Codes, Labels
  <2>3. waitees' \in [Goals -> SUBSET Goals] /\ waiters' \in [Goals -> SUBSET Goals]
    BY <2>1 DEF AmDone
  <2>4. nrFailed' \in [Goals -> Nat] /\ nrNoSubstituters' \in [Goals -> Nat]
    BY <2>1 DEF AmDone
  <2>5. UNCHANGED subst
    BY <2>1 DEF AmDone
  <2> QED BY <2>2, <2>3, <2>4, <2>5 DEF subst
<1>3. ASSUME NEW g \in Goals, Destroy(g) PROVE GoalTypeOK'
  <2>1. pc' \in [Goals -> Labels]
    BY <1>3 DEF Destroy, Goto, Labels
  <2>2. waitees' \in [Goals -> SUBSET Goals] /\ waiters' \in [Goals -> SUBSET Goals]
    BY <1>3 DEF Destroy
  <2> QED BY <1>3, <2>1, <2>2 DEF Destroy, subst
<1>4. ASSUME NEW g \in Goals, Queries(g) PROVE GoalTypeOK'
  <2>1. left' \in [Goals -> 0..Substituters]
    BY <1>4, WorkerAssumption DEF Queries, QueryPathInfo
  <2>2. pc' \in [Goals -> Labels]
    BY <1>4 DEF Queries, QueryPathInfo, Goto, Labels
  <2> QED BY <1>4, <2>1, <2>2 DEF Queries, QueryPathInfo, links
<1>5. ASSUME NEW g \in Goals, GivesUp(g) PROVE GoalTypeOK'
  BY <1>5 DEF GivesUp, Goto, Labels, subst
<1>6. ASSUME NEW g \in Goals, Yields(g) \/ Waits(g) \/ Starts(g) \/ Finishes(g) PROVE GoalTypeOK'
  <2>1. pc' \in [Goals -> Labels]
    BY <1>6, GoalMoves
  <2>2. UNCHANGED <<exitCode, links, left>> /\ subFailed' \subseteq subFailed \cup {g}
    BY <1>6 DEF Yields, Waits, Starts, Finishes, Yield, SubstWait, BuildWait, OutputsLocked, NoBuildUser, SubstRun, StartBuild, SubstFinished, BuildDone, subst
  <2> QED BY <2>1, <2>2 DEF links
<1>7. ASSUME UNCHANGED <<pc, exitCode, links, subst>> PROVE GoalTypeOK'
  BY <1>7 DEF links, subst
<1> QED BY <1>1, <1>2, <1>3, <1>4, <1>5, <1>6, <1>7, Steps, OthersLeaveGoals

LEMMA WaiterWants ==
    ASSUME TypeOK, NEW c \in Categories, NEW W \in FirstWaiter(c)
    PROVE  W \subseteq wanting[c] /\ W \subseteq Goals
  BY DEF FirstWaiter, TypeOK, WorkerTypeOK

LEMMA StepKeepsWorkerTypes ==
    ASSUME TypeOK, KindsOK, ChildrenOK, [Next]_vars, children' \subseteq Goals, nr' \in [Categories -> Nat]
    PROVE  WorkerTypeOK'
<1> USE DEF TypeOK, WorkerTypeOK
<1>1. ASSUME NEW g \in Goals, Awaits(g) PROVE WorkerTypeOK'
  <2>1. PICK S \in SUBSET Goals, label \in WaitLabels : Await(g, S, label)
    BY <1>1, AwaitsGoals
  <2> QED BY <2>1 DEF Await, rounds, lists
<1>2. ASSUME NEW g \in Goals, Ends(g) PROVE WorkerTypeOK'
  <2>1. PICK code \in Codes : AmDone(g, code)
    BY <1>2 DEF Ends
  <2>2. awake' \subseteq Goals /\ doomed' \subseteq Goals /\ top' \subseteq Top
    BY <2>1 DEF AmDone, RemoveGoal, GoalTypeOK
  <2> QED BY <2>1, <2>2 DEF AmDone, rounds, lists
<1>3. ASSUME NEW g \in Goals, Yields(g) \/ Queries(g) \/ GivesUp(g) \/ Throws(g) PROVE WorkerTypeOK'
  BY <1>3 DEF Yields, Queries, GivesUp, Throws, Yield, QueryPathInfo, rounds, lists
<1>4. ASSUME NEW g \in Goals, Waits(g) PROVE WorkerTypeOK'
  <2>1. CASE SubstWait(g) \/ BuildWait(g)
    <3>1. PICK c \in Categories : \/ awake' = awake \cup {g} /\ wanting' = wanting
                                  \/ awake' = awake /\ wanting' = [wanting EXCEPT ![c] = @ \cup {g}]
      BY <2>1 DEF SubstWait, BuildWait, WaitForBuildSlot, Categories
    <3>2. wanting' \in [Categories -> SUBSET Goals] /\ awake' \subseteq Goals
      BY <3>1
    <3> QED BY <2>1, <3>2 DEF SubstWait, BuildWait, rounds
  <2>2. CASE OutputsLocked(g) \/ NoBuildUser(g)
    BY <2>2 DEF OutputsLocked, NoBuildUser, rounds
  <2> QED BY <1>4, <2>1, <2>2 DEF Waits
<1>5. ASSUME NEW g \in Goals, Starts(g) PROVE WorkerTypeOK'
  BY <1>5 DEF Starts, SubstRun, StartBuild, rounds, lists
<1>6. ASSUME NEW g \in Goals, Finishes(g) PROVE WorkerTypeOK'
  <2>1. PICK c \in Categories : ChildTerminated(g, c)
    BY <1>6 DEF Finishes, SubstFinished, BuildDone, Categories
  <2>2. PICK W \in SUBSET Goals : wanting' = [wanting EXCEPT ![c] = @ \ W] /\ awake' = awake \cup W
    BY <2>1, WaiterWants DEF ChildTerminated
  <2>3. wanting' \in [Categories -> SUBSET Goals] /\ awake' \subseteq Goals
    BY <2>2
  <2> QED BY <1>6, <2>3 DEF Finishes, SubstFinished, BuildDone, rounds
<1>7. ASSUME NEW g \in Goals, Destroy(g) PROVE WorkerTypeOK'
  <2>1. PICK W \in SUBSET Goals : /\ wanting' = [c \in Categories |-> wanting[c] \ (W \cup {g})]
                                  /\ awake' = (awake \cup W) \ {g}
    <3>1. CASE g \in children
      <4>1. Kind[g] \in Categories
        BY <3>1 DEF ChildrenOK, KindsOK, SubstLabels, BuildLabels, Categories
      <4> QED BY <1>7, <3>1, <4>1, WaiterWants DEF Destroy
    <3>2. CASE g \notin children
      BY <1>7, <3>2 DEF Destroy
    <3> QED BY <3>1, <3>2
  <2>2. wanting' \in [Categories -> SUBSET Goals] /\ awake' \subseteq Goals
    BY <2>1
  <2> QED BY <1>7, <2>2 DEF Destroy, rounds
<1>8. CASE StartRound \/ Work \/ EndRound \/ RunEnds
  BY <1>8 DEF StartRound, Work, EndRound, RunEnds, rounds, lists
<1>9. CASE WaitForInput
  BY <1>9 DEF WaitForInput, AfterPoll, rounds, OutsideTypeOK
<1>10. ASSUME NEW g \in Goals, QueryDone(g) \/ CopyDone(g) \/ Notify(g) \/ BuilderExits(g) PROVE WorkerTypeOK'
  BY <1>10 DEF QueryDone, CopyDone, Notify, BuilderExits, Enqueue, rounds, lists
<1>11. ASSUME NEW x \in Paths, ForeignLocks(x) \/ ForeignBuilt(x) PROVE WorkerTypeOK'
  BY <1>11 DEF ForeignLocks, ForeignBuilt, rounds, lists
<1>12. CASE UNCHANGED vars
  BY <1>12 DEF vars, rounds, lists
<1> QED BY <1>1, <1>2, <1>3, <1>4, <1>5, <1>6, <1>7, <1>8, <1>9, <1>10, <1>11, <1>12, Steps

LEMMA StepKeepsOutsideTypes ==
    ASSUME TypeOK, [Next]_vars
    PROVE  OutsideTypeOK'
<1> USE DEF TypeOK, OutsideTypeOK
<1>1. ASSUME UNCHANGED <<world, outside>> PROVE OutsideTypeOK'
  BY <1>1 DEF world, outside
<1>2. ASSUME NEW g \in Goals, Ends(g) \/ Awaits(g) \/ Yields(g) \/ GivesUp(g) \/ Throws(g) \/ Waits(g) \/ StartBuild(g) \/ SubstFinished(g)
      PROVE  UNCHANGED <<world, outside>>
  BY <1>2 DEF Ends, Awaits, Yields, GivesUp, Throws, Waits, AmDone, Await, Yield, SubstWait, BuildWait, OutputsLocked, NoBuildUser, StartBuild, SubstFinished
<1>3. ASSUME NEW g \in Goals, Queries(g) \/ SubstRun(g) PROVE OutsideTypeOK'
  BY <1>3 DEF Queries, QueryPathInfo, SubstRun, world
<1>4. ASSUME NEW g \in Goals, BuildDone(g) PROVE OutsideTypeOK'
  BY <1>4 DEF BuildDone, Paths
<1>5. ASSUME NEW g \in Goals, Destroy(g) PROVE OutsideTypeOK'
  BY <1>5 DEF Destroy, world
<1>6. CASE WaitForInput
  BY <1>6 DEF WaitForInput, world
<1>7. ASSUME NEW g \in Goals, QueryDone(g) \/ CopyDone(g) PROVE OutsideTypeOK'
  <2>1. PICK r \in QueryOutcomes \cup CopyOutcomes : Enqueue(g, r)
    BY <1>7 DEF QueryDone, CopyDone
  <2>2. valid' \subseteq Paths
    BY <1>7 DEF QueryDone, CopyDone, Paths
  <2> QED BY <2>1, <2>2 DEF Enqueue
<1>8. ASSUME NEW g \in Goals, Notify(g) \/ BuilderExits(g) PROVE OutsideTypeOK'
  BY <1>8 DEF Notify, BuilderExits, world
<1>9. ASSUME NEW x \in Paths, ForeignLocks(x) \/ ForeignBuilt(x) PROVE OutsideTypeOK'
  BY <1>9 DEF ForeignLocks, ForeignBuilt, outside
<1>10. CASE StartRound \/ Work \/ EndRound \/ RunEnds \/ UNCHANGED vars
  BY <1>1, <1>10 DEF StartRound, Work, EndRound, RunEnds, vars
<1> QED BY <1>1, <1>2, <1>3, <1>4, <1>5, <1>6, <1>7, <1>8, <1>9, <1>10, Steps DEF Starts, Finishes

(* What the types rest on: a slot is given back by the goal that took it.  *)
TypeInv == TypeOK /\ KindsOK /\ ChildrenOK /\ SlotsOK

LEMMA InitTypes ==
    ASSUME Init
    PROVE  TypeInv
<1> USE WorkerAssumption DEF Init
<1>1. GoalTypeOK
  BY DEF GoalTypeOK, Labels
<1>2. WorkerTypeOK
  BY DEF WorkerTypeOK
<1>3. OutsideTypeOK
  BY DEF OutsideTypeOK
<1>4. KindsOK /\ ChildrenOK
  BY DEF KindsOK, ChildrenOK, SubstLabels, DrvLabels, BuildLabels
<1>5. SlotsOK
  <2>1. ASSUME NEW c \in Categories PROVE nr[c] = Cardinality(Having(children, c)) /\ nr[c] <= Limit(c)
    <3>1. Having(children, c) = {}
      BY DEF Having
    <3>2. Cardinality(Having(children, c)) = 0
      BY <3>1, FS_EmptySet
    <3>3. Limit(c) \in Nat /\ nr[c] = 0
      BY LimitType
    <3> QED BY <3>2, <3>3
  <2> QED BY <2>1 DEF SlotsOK
<1> QED BY <1>1, <1>2, <1>3, <1>4, <1>5 DEF TypeInv, TypeOK

LEMMA StepKeepsTypes ==
    ASSUME TypeInv, [Next]_vars
    PROVE  TypeInv'
<1>1. TypeOK /\ GoalTypeOK /\ KindsOK /\ ChildrenOK /\ SlotsOK
  BY DEF TypeInv, TypeOK
<1>2. KindsOK' /\ ChildrenOK' /\ SlotsOK' /\ children' \subseteq Goals /\ nr' \in [Categories -> Nat]
  BY <1>1, StepKeepsKinds, StepKeepsChildren, StepKeepsSlots
<1>3. GoalTypeOK' /\ WorkerTypeOK' /\ OutsideTypeOK'
  BY <1>1, <1>2, StepKeepsGoalTypes, StepKeepsWorkerTypes, StepKeepsOutsideTypes
<1>4. settings' = settings
  BY Steps, OthersLeaveGoals DEF Ends, Awaits, Yields, Queries, GivesUp, Waits, Starts, Finishes, AmDone, Await, Yield, QueryPathInfo, SubstWait, BuildWait, OutputsLocked, NoBuildUser, SubstRun, StartBuild, SubstFinished, BuildDone, Destroy
<1> QED BY <1>1, <1>2, <1>3, <1>4 DEF TypeInv, TypeOK

(* Every variable of the scheduler keeps its type; in particular the slot  *)
(* counters, from which nrSubstitutions-- and nrLocalBuilds-- subtract, do *)
(* not fall below zero.                                                    *)
THEOREM TypeCorrect == Spec => []TypeOK
<1>1. Init => TypeInv
  BY InitTypes
<1>2. TypeInv /\ [Next]_vars => TypeInv'
  BY StepKeepsTypes
<1>3. TypeInv => TypeOK
  BY DEF TypeInv
<1> QED BY <1>1, <1>2, <1>3, PTL DEF Spec

(* The slot counters agree with the children of each kind and stay within  *)
(* the limits, for any settings and however goals end, fail or are dropped *)
(* while others wait for the slot.                                         *)
THEOREM SlotsRespectedHolds == Spec => []SlotsRespected
<1>1. Init => TypeInv
  BY InitTypes
<1>2. TypeInv /\ [Next]_vars => TypeInv'
  BY StepKeepsTypes
<1>3. TypeInv => SlotsRespected
  BY DEF TypeInv, SlotsOK, SlotsRespected, Having, Limit
<1> QED BY <1>1, <1>2, <1>3, PTL DEF Spec

-----------------------------------------------------------------------------
(* Labels that a goal passes through while it runs.                        *)
PassedThrough == {"resolve", "query", "succeeded", "failed"}

(* A goal is on one list at most, and the list fits to its label.          *)
OnOneList(g) ==
    /\ g \in awake \cup todo \cup {running} =>
          /\ pc[g] # "none" /\ waitees[g] = {}
          /\ g \notin aWhile \cup completion \cup wanting["subst"] \cup wanting["build"]
    /\ g \in todo => g \notin awake
    /\ g = running => g \notin awake \cup todo
    /\ g \in wanting["subst"] => pc[g] = "slot"
    /\ g \in wanting["build"] => pc[g] = "trybuild" /\ g \notin aWhile
    /\ g \in aWhile => pc[g] \in {"trybuild", "local"}
    /\ g \in completion => pc[g] \in {"info", "copied"}
    /\ waitees[g] # {} => pc[g] \in WaitLabels
    /\ pc[g] \in PassedThrough => g = running

ListsOK == \A g \in Goals : OnOneList(g)

(* A goal that has not ended is on some list, or a builder works for it.   *)
NoneForgotten ==
    \A g \in Goals :
        \/ pc[g] \in {"none", "building"} \/ waitees[g] # {}
        \/ g \in awake \cup todo \cup {running} \cup aWhile \cup completion
        \/ g \in wanting["subst"] \cup wanting["build"]

(* waitingForCompletion holds the goals with a busy thread or in the       *)
(* queue of the Waker.                                                     *)
ThreadsOK ==
    /\ \A g \in Goals : thread[g] \in {"query", "copy"} => g \in completion /\ g \notin queue
    /\ queue \subseteq completion
    /\ \A g \in Goals : g \in completion => g \in queue \/ thread[g] \in {"query", "copy"}
    /\ \A g \in exited : pc[g] = "building"

(* Whoever waits is known to the goal it waits for.                        *)
LinksOK ==
    /\ \A g, h \in Goals : h \in waiters[g] => g \in waitees[h]
    /\ \A g, h \in Goals : g \in waitees[h] => h \in waiters[g] \/ h \in doomed

(* Nobody waits for a dropped goal but goals that are dropped as well.     *)
DoomedOK ==
    /\ doomed # {} => running = NoGoal
    /\ doomed \cap awake2 = {}
    /\ \A g \in doomed, h \in Goals : g \in waitees[h] => h \in doomed

SchedulerOK == ListsOK /\ NoneForgotten /\ ThreadsOK /\ LinksOK /\ DoomedOK

(* await                                                                   *)
LEMMA AwaitsKeepsScheduler ==
    ASSUME TypeInv, SchedulerOK, NEW g \in Goals, Awaits(g)
    PROVE  SchedulerOK'
<1>a. /\ NoGoal \notin Goals /\ pc \in [Goals -> Labels]
      /\ waitees \in [Goals -> SUBSET Goals] /\ waiters \in [Goals -> SUBSET Goals]
      /\ exited \subseteq Goals
  BY WorkerAssumption DEF TypeInv, TypeOK, GoalTypeOK, OutsideTypeOK
<1>b. KindsOK /\ ListsOK /\ NoneForgotten /\ ThreadsOK /\ LinksOK /\ DoomedOK
  BY DEF TypeInv, SchedulerOK
<1>1. PICK S \in SUBSET Goals, label \in WaitLabels :
          Await(g, S, label) /\ pc[g] \in {"start", "info", "resolve", "resolved"}
  BY <1>b, AwaitsGoals
<1>2. running = g /\ doomed = {}
  BY <1>a, <1>b DEF Awaits, Runs
<1> DEFINE new == {h \in S : pc[h] = "none"}
<1>3. /\ \A h \in Goals : pc'[h] = IF h = g THEN label ELSE IF h \in new THEN "start" ELSE pc[h]
      /\ \A h \in Goals : waitees'[h] = IF h = g THEN S ELSE waitees[h]
      /\ \A h \in Goals : waiters'[h] = IF h \in S THEN waiters[h] \cup {g} ELSE waiters[h]
      /\ awake' = awake \cup new /\ running' = IF S = {} THEN g ELSE NoGoal
      /\ UNCHANGED <<todo, awake2, doomed, wanting, aWhile, completion, thread, queue, exited>>
  BY <1>a, <1>b, <1>1 DEF Await, rounds, lists, outside
<1>4. g \notin new /\ \A h \in new : h \in Goals /\ pc[h] = "none" /\ waitees[h] = {}
  BY <1>a, <1>b, <1>1 DEF ListsOK, OnOneList, WaitLabels
<1> HIDE DEF new
<1>5. ListsOK'
  <2> SUFFICES ASSUME NEW h \in Goals PROVE OnOneList(h)'
    BY <1>a, <1>b DEF ListsOK
  <2> USE DEF OnOneList, WaitLabels, PassedThrough
  <2>1. OnOneList(h)
    BY <1>a, <1>b DEF ListsOK
  <2>2. CASE h = g
    BY <1>a, <1>b, <1>2, <1>3, <1>4, <2>1, <2>2
  <2>3. CASE h \in new
    BY <1>a, <1>b, <1>2, <1>3, <1>4, <2>1, <2>3
  <2>4. CASE h # g /\ h \notin new
    BY <1>a, <1>b, <1>2, <1>3, <2>1, <2>4
  <2> QED BY <2>2, <2>3, <2>4
<1>6. NoneForgotten'
  BY <1>a, <1>b, <1>1, <1>2, <1>3, <1>4 DEF NoneForgotten
<1>7. ThreadsOK'
  BY <1>a, <1>b, <1>1, <1>3, <1>4 DEF ThreadsOK
<1>8. LinksOK'
  <2>1. waitees[g] = {}
    BY <1>a, <1>b, <1>2 DEF ListsOK, OnOneList
  <2>2. ASSUME NEW x \in Goals, NEW h \in Goals, h \in waiters'[x] PROVE x \in waitees'[h]
    <3>1. \A y \in Goals : g \notin waiters[y]
      BY <1>b, <2>1 DEF LinksOK
    <3>2. CASE h = g
      BY <1>3, <2>2, <3>1, <3>2
    <3>3. CASE h # g
      <4>1. h \in waiters[x]
        BY <1>3, <2>2, <3>3
      <4> QED BY <1>b, <1>3, <3>3, <4>1 DEF LinksOK
    <3> QED BY <3>2, <3>3
  <2>3. ASSUME NEW x \in Goals, NEW h \in Goals, x \in waitees'[h] PROVE h \in waiters'[x] \/ h \in doomed'
    BY <1>a, <1>b, <1>2, <1>3, <2>3 DEF LinksOK
  <2> QED BY <2>2, <2>3 DEF LinksOK
<1>9. DoomedOK'
  BY <1>a, <1>b, <1>2, <1>3 DEF DoomedOK
<1> QED BY <1>5, <1>6, <1>7, <1>8, <1>9 DEF SchedulerOK

(* amDone                                                                  *)
LEMMA EndsKeepsScheduler ==
    ASSUME TypeInv, SchedulerOK, NEW g \in Goals, Ends(g)
    PROVE  SchedulerOK'
<1>a. /\ NoGoal \notin Goals /\ Top \subseteq Goals /\ awake2 \subseteq Goals
      /\ pc \in [Goals -> Labels] /\ exited \subseteq Goals
      /\ waitees \in [Goals -> SUBSET Goals] /\ waiters \in [Goals -> SUBSET Goals]
  BY WorkerAssumption DEF TypeInv, TypeOK, GoalTypeOK, WorkerTypeOK, OutsideTypeOK
<1>b. KindsOK /\ ListsOK /\ NoneForgotten /\ ThreadsOK /\ LinksOK /\ DoomedOK
  BY DEF TypeInv, SchedulerOK
<1>1. PICK code \in Codes : AmDone(g, code)
  BY <1>a, <1>b DEF Ends
<1>2. running = g /\ doomed = {} /\ pc[g] \notin {"none", "copied", "building"} /\ waitees[g] = {}
  BY <1>a, <1>b DEF Ends, Runs, ListsOK, OnOneList
<1> DEFINE cut == CutShort(g, code)
           R == Reachable(waitees', Top \cup awake2)
<1>3. /\ \A h \in Goals : waitees'[h] = IF h \in cut THEN {} ELSE waitees[h] \ {g}
      /\ \A h \in Goals : waiters'[h] = IF h = g THEN {} ELSE waiters[h] \ cut
      /\ \A h \in Goals : pc'[h] = IF h = g THEN "none" ELSE pc[h]
      /\ awake' = awake \cup {h \in waiters[g] : waitees'[h] = {}}
      /\ running' = NoGoal
      /\ doomed' = {h \in Goals : pc'[h] # "none"} \ R
      /\ UNCHANGED <<todo, awake2, wanting, aWhile, completion, thread, queue, exited>>
  BY <1>a, <1>b, <1>1 DEF AmDone, Goto, rounds, lists, outside
<1>4. cut \subseteq waiters[g]
  BY <1>a, <1>b DEF CutShort
<1>5. \A h \in Goals : h \in waiters[g] <=> g \in waitees[h]
  BY <1>a, <1>b, <1>2 DEF LinksOK
<1>6. waitees' \in [Goals -> SUBSET Goals]
  BY <1>a, <1>b, <1>1 DEF AmDone
<1> HIDE DEF cut
<1>7. ListsOK'
  BY <1>a, <1>b, <1>2, <1>3, <1>4, <1>5 DEF ListsOK, OnOneList, WaitLabels, PassedThrough
<1>8. NoneForgotten'
  <2> SUFFICES ASSUME NEW h \in Goals, pc'[h] \notin {"none", "building"}, waitees'[h] = {}
               PROVE  h \in awake' \cup todo' \cup {running'} \cup aWhile' \cup completion' \cup wanting'["subst"] \cup wanting'["build"]
    BY DEF NoneForgotten
  <2>1. h # g /\ pc[h] \notin {"none", "building"}
    BY <1>3
  <2>2. CASE h \in waiters[g]
    BY <1>3, <2>2
  <2>3. CASE h \notin waiters[g]
    <3>1. waitees[h] = {}
      <4>1. h \notin cut /\ g \notin waitees[h]
        BY <1>4, <1>5, <2>3
      <4>2. waitees'[h] = waitees[h] \ {g}
        BY <1>3, <4>1
      <4> QED BY <4>1, <4>2
    <3>2. h \in awake \cup todo \cup {running} \cup aWhile \cup completion \cup wanting["subst"] \cup wanting["build"]
      BY <1>b, <2>1, <3>1 DEF NoneForgotten
    <3> QED BY <1>2, <1>3, <2>1, <3>2
  <2> QED BY <2>2, <2>3
<1>9. ThreadsOK'
  BY <1>a, <1>b, <1>2, <1>3 DEF ThreadsOK
<1>10. LinksOK'
  <2>1. ASSUME NEW x \in Goals, NEW h \in Goals, h \in waiters'[x] PROVE x \in waitees'[h]
    <3>1. x # g /\ h \in waiters[x] /\ h \notin cut
      BY <1>3, <2>1
    <3>2. x \in waitees[h]
      BY <1>b, <3>1 DEF LinksOK
    <3> QED BY <1>3, <3>1, <3>2
  <2>2. ASSUME NEW x \in Goals, NEW h \in Goals, x \in waitees'[h] PROVE h \in waiters'[x]
    <3>1. h \notin cut /\ x \in waitees[h] /\ x # g
      BY <1>3, <2>2
    <3>2. h \in waiters[x]
      BY <1>b, <1>2, <3>1 DEF LinksOK
    <3> QED BY <1>3, <3>1, <3>2
  <2> QED BY <2>1, <2>2 DEF LinksOK
<1>11. DoomedOK'
  <2>1. Top \cup awake2 \in SUBSET Goals
    BY <1>a
  <2>2. Top \cup awake2 \subseteq R /\ \A h \in R : waitees'[h] \subseteq R
    BY <1>6, <2>1, ReachableFacts
  <2>3. \A h \in Goals : waitees'[h] # {} => pc'[h] # "none"
    BY <1>a, <1>b, <1>7 DEF ListsOK, OnOneList, WaitLabels
  <2> HIDE DEF R
  <2> QED BY <1>a, <1>3, <2>2, <2>3 DEF DoomedOK
<1> QED BY <1>7, <1>8, <1>9, <1>10, <1>11 DEF SchedulerOK

(* The other steps of a goal that runs leave the links alone.              *)
Linked == <<waitees, waiters, doomed, awake2, todo>>

LEMMA LinksStay ==
    ASSUME LinksOK, DoomedOK, UNCHANGED Linked, running' = NoGoal \/ running' = running
    PROVE  LinksOK' /\ DoomedOK'
<1>1. LinksOK'
  BY DEF LinksOK, Linked
<1>2. DoomedOK'
  BY DEF DoomedOK, Linked
<1> QED BY <1>1, <1>2

(* yield, the query of a substituter, and giving up on substitution        *)
LEMMA MovesKeepScheduler ==
    ASSUME TypeInv, SchedulerOK, NEW g \in Goals, Yields(g) \/ Queries(g) \/ GivesUp(g)
    PROVE  SchedulerOK'
<1>a. /\ NoGoal \notin Goals /\ pc \in [Goals -> Labels] /\ exited \subseteq Goals
      /\ thread \in [Goals -> {"none", "query", "copy", "notify"}]
  BY WorkerAssumption DEF TypeInv, TypeOK, GoalTypeOK, OutsideTypeOK
<1>b. ListsOK /\ NoneForgotten /\ ThreadsOK /\ LinksOK /\ DoomedOK
  BY DEF SchedulerOK
<1>1. running = g /\ UNCHANGED Linked /\ UNCHANGED <<wanting, aWhile, exited, queue>>
  BY DEF Yields, Queries, GivesUp, Yield, QueryPathInfo, Linked, links, rounds, lists, outside, Runs
<1>2. \/ /\ awake' = awake \cup {g} /\ completion' = completion /\ running' = NoGoal /\ thread' = thread
         /\ pc' = [pc EXCEPT ![g] = pc'[g]] /\ pc'[g] \in {"slot", "trybuild", "local"}
      \/ /\ awake' = awake /\ completion' = completion \cup {g} /\ running' = NoGoal
         /\ thread' = [thread EXCEPT ![g] = "query"] /\ pc' = [pc EXCEPT ![g] = "info"]
      \/ /\ awake' = awake /\ completion' = completion /\ running' = g /\ thread' = thread
         /\ pc' = [pc EXCEPT ![g] = "resolve"]
  BY <1>a, <1>1 DEF Yields, Queries, GivesUp, Yield, QueryPathInfo, Goto, lists, outside
<1>3. OnOneList(g) /\ g \notin exited
  <2>1. OnOneList(g)
    BY <1>b DEF ListsOK
  <2>2. pc[g] # "building"
    BY DEF Yields, Queries, GivesUp
  <2> QED BY <1>b, <2>1, <2>2 DEF ThreadsOK
<1>4. ListsOK'
  <2> SUFFICES ASSUME NEW h \in Goals PROVE OnOneList(h)'
    BY DEF ListsOK
  <2>1. OnOneList(h)
    BY <1>b DEF ListsOK
  <2>2. CASE h = g
    BY <1>a, <1>1, <1>2, <1>3, <2>2 DEF OnOneList, WaitLabels, PassedThrough, Linked
  <2>3. CASE h # g
    <3>1. pc'[h] = pc[h] /\ (h \in awake' <=> h \in awake) /\ (h \in completion' <=> h \in completion) /\ h # running' /\ h # running
      BY <1>a, <1>1, <1>2, <2>3
    <3> QED BY <1>1, <2>1, <3>1 DEF OnOneList, Linked
  <2> QED BY <2>2, <2>3
<1>5. NoneForgotten'
  <2> SUFFICES ASSUME NEW h \in Goals, pc'[h] \notin {"none", "building"}, waitees'[h] = {}
               PROVE  h \in awake' \cup todo' \cup {running'} \cup aWhile' \cup completion' \cup wanting'["subst"] \cup wanting'["build"]
    BY DEF NoneForgotten
  <2>1. CASE h = g
    BY <1>2, <2>1
  <2>2. CASE h # g
    <3>1. pc'[h] = pc[h] /\ awake \subseteq awake' /\ completion \subseteq completion'
      BY <1>a, <1>2, <2>2
    <3>2. h \in awake \cup todo \cup {running} \cup aWhile \cup completion \cup wanting["subst"] \cup wanting["build"]
      BY <1>b, <1>1, <3>1 DEF NoneForgotten, Linked
    <3> QED BY <1>1, <2>2, <3>1, <3>2 DEF Linked
  <2> QED BY <2>1, <2>2
<1>6. ThreadsOK'
  <2>1. g \notin completion /\ g \notin queue
    BY <1>b, <1>1, <1>3 DEF OnOneList, ThreadsOK
  <2> QED BY <1>a, <1>b, <1>1, <1>2, <1>3, <2>1 DEF ThreadsOK
<1>7. LinksOK' /\ DoomedOK'
  BY <1>b, <1>1, <1>2, LinksStay
<1> QED BY <1>4, <1>5, <1>6, <1>7 DEF SchedulerOK

(* Waiting for a slot, for the locks or for a build user.                  *)
LEMMA WaitsKeepsScheduler ==
    ASSUME TypeInv, SchedulerOK, NEW g \in Goals, Waits(g)
    PROVE  SchedulerOK'
<1>a. /\ NoGoal \notin Goals /\ pc \in [Goals -> Labels] /\ exited \subseteq Goals
      /\ wanting \in [Categories -> SUBSET Goals]
  BY WorkerAssumption DEF TypeInv, TypeOK, GoalTypeOK, WorkerTypeOK, OutsideTypeOK
<1>b. ListsOK /\ NoneForgotten /\ ThreadsOK /\ LinksOK /\ DoomedOK
  BY DEF SchedulerOK
<1>1. running = g /\ running' = NoGoal /\ UNCHANGED Linked /\ UNCHANGED <<completion, thread, exited, queue>>
  BY DEF Waits, SubstWait, BuildWait, OutputsLocked, NoBuildUser, Linked, links, rounds, outside, At
<1>2. \/ /\ awake' = awake \cup {g} /\ wanting' = wanting /\ aWhile' = aWhile
         /\ pc' = [pc EXCEPT ![g] = pc'[g]] /\ pc'[g] \in {"slot", "trybuild"}
      \/ /\ awake' = awake /\ wanting' = [wanting EXCEPT !["subst"] = @ \cup {g}] /\ aWhile' = aWhile
         /\ pc' = pc /\ pc[g] = "slot"
      \/ /\ awake' = awake /\ wanting' = [wanting EXCEPT !["build"] = @ \cup {g}] /\ aWhile' = aWhile
         /\ pc' = [pc EXCEPT ![g] = "trybuild"]
      \/ /\ awake' = awake /\ wanting' = wanting /\ aWhile' = aWhile \cup {g}
         /\ pc' = pc /\ pc[g] \in {"trybuild", "local"}
  BY <1>a DEF Waits, SubstWait, BuildWait, OutputsLocked, NoBuildUser, WaitForBuildSlot, At, Goto
<1>3. OnOneList(g) /\ g \notin exited
  <2>1. OnOneList(g)
    BY <1>b DEF ListsOK
  <2>2. pc[g] # "building"
    BY DEF Waits, SubstWait, BuildWait, OutputsLocked, NoBuildUser, At
  <2> QED BY <1>b, <2>1, <2>2 DEF ThreadsOK
<1>4. ASSUME NEW h \in Goals, h # g
      PROVE  /\ pc'[h] = pc[h] /\ (h \in awake' <=> h \in awake) /\ (h \in aWhile' <=> h \in aWhile)
             /\ (h \in wanting'["subst"] <=> h \in wanting["subst"])
             /\ (h \in wanting'["build"] <=> h \in wanting["build"])
  BY <1>a, <1>2, <1>4 DEF Categories
<1>5. /\ g \in awake' \/ g \in aWhile' \/ g \in wanting'["subst"] \/ g \in wanting'["build"]
      /\ OnOneList(g)'
  <2>1. CASE wanting' = wanting
    BY <1>a, <1>1, <1>2, <1>3, <2>1 DEF Categories, OnOneList, WaitLabels, PassedThrough, Linked
  <2>2. CASE wanting' = [wanting EXCEPT !["subst"] = @ \cup {g}] /\ aWhile' = aWhile /\ awake' = awake /\ pc' = pc /\ pc[g] = "slot"
    <3>1. wanting'["subst"] = wanting["subst"] \cup {g} /\ wanting'["build"] = wanting["build"]
      BY <1>a, <2>2 DEF Categories
    <3> QED BY <1>a, <1>1, <1>3, <2>2, <3>1 DEF OnOneList, WaitLabels, PassedThrough, Linked
  <2>3. CASE wanting' = [wanting EXCEPT !["build"] = @ \cup {g}] /\ aWhile' = aWhile /\ awake' = awake /\ pc' = [pc EXCEPT ![g] = "trybuild"]
    <3>1. wanting'["build"] = wanting["build"] \cup {g} /\ wanting'["subst"] = wanting["subst"] /\ pc'[g] = "trybuild"
      BY <1>a, <2>3 DEF Categories
    <3> QED BY <1>a, <1>1, <1>3, <2>3, <3>1 DEF OnOneList, WaitLabels, PassedThrough, Linked
  <2> QED BY <1>2, <2>1, <2>2, <2>3
<1>6. ListsOK'
  <2>1. ASSUME NEW h \in Goals, h # g PROVE OnOneList(h)'
    <3>1. OnOneList(h)
      BY <1>b DEF ListsOK
    <3>2. h # running' /\ h # running
      BY <1>a, <1>1, <2>1
    <3> QED BY <1>1, <1>4, <2>1, <3>1, <3>2 DEF OnOneList, Linked
  <2> QED BY <1>5, <2>1 DEF ListsOK
<1>7. NoneForgotten'
  <2> SUFFICES ASSUME NEW h \in Goals, pc'[h] \notin {"none", "building"}, waitees'[h] = {}
               PROVE  h \in awake' \cup todo' \cup {running'} \cup aWhile' \cup completion' \cup wanting'["subst"] \cup wanting'["build"]
    BY DEF NoneForgotten
  <2>1. CASE h = g
    BY <1>5, <2>1
  <2>2. CASE h # g
    <3>1. h \in awake \cup todo \cup {running} \cup aWhile \cup completion \cup wanting["subst"] \cup wanting["build"]
      BY <1>b, <1>1, <1>4, <2>2 DEF NoneForgotten, Linked
    <3> QED BY <1>1, <1>4, <2>2, <3>1 DEF Linked
  <2> QED BY <2>1, <2>2
<1>8. ThreadsOK'
  BY <1>a, <1>b, <1>1, <1>3, <1>4 DEF ThreadsOK
<1>9. LinksOK' /\ DoomedOK'
  BY <1>b, <1>1, LinksStay
<1> QED BY <1>6, <1>7, <1>8, <1>9 DEF SchedulerOK
(* A copy or a build is started.                                           *)
LEMMA StartsKeepsScheduler ==
    ASSUME TypeInv, SchedulerOK, NEW g \in Goals, Starts(g)
    PROVE  SchedulerOK'
<1>a. /\ NoGoal \notin Goals /\ pc \in [Goals -> Labels] /\ exited \subseteq Goals
      /\ thread \in [Goals -> {"none", "query", "copy", "notify"}]
  BY WorkerAssumption DEF TypeInv, TypeOK, GoalTypeOK, OutsideTypeOK
<1>b. ListsOK /\ NoneForgotten /\ ThreadsOK /\ LinksOK /\ DoomedOK
  BY DEF SchedulerOK
<1>1. /\ running = g /\ running' = NoGoal /\ UNCHANGED Linked
      /\ UNCHANGED <<awake, wanting, aWhile, exited, queue>>
      /\ pc[g] \in {"slot", "local"}
  BY DEF Starts, SubstRun, StartBuild, Linked, links, rounds, lists, outside, At
<1>2. \/ /\ completion' = completion \cup {g} /\ thread' = [thread EXCEPT ![g] = "copy"]
         /\ pc' = [pc EXCEPT ![g] = "copied"]
      \/ /\ completion' = completion /\ thread' = thread /\ pc' = [pc EXCEPT ![g] = "building"]
  BY DEF Starts, SubstRun, StartBuild, Goto, lists, outside
<1>3. OnOneList(g) /\ g \notin exited /\ g \notin completion /\ g \notin queue
  BY <1>b, <1>1 DEF ListsOK, OnOneList, ThreadsOK
<1>4. ListsOK'
  <2> SUFFICES ASSUME NEW h \in Goals PROVE OnOneList(h)'
    BY DEF ListsOK
  <2>1. OnOneList(h)
    BY <1>b DEF ListsOK
  <2>2. CASE h = g
    BY <1>a, <1>1, <1>2, <1>3, <2>2 DEF OnOneList, WaitLabels, PassedThrough, Linked
  <2>3. CASE h # g
    <3>1. pc'[h] = pc[h] /\ (h \in completion' <=> h \in completion) /\ h # running' /\ h # running
      BY <1>a, <1>1, <1>2, <2>3
    <3> QED BY <1>1, <2>1, <3>1 DEF OnOneList, Linked
  <2> QED BY <2>2, <2>3
<1>5. NoneForgotten'
  <2> SUFFICES ASSUME NEW h \in Goals, pc'[h] \notin {"none", "building"}, waitees'[h] = {}
               PROVE  h \in awake' \cup todo' \cup {running'} \cup aWhile' \cup completion' \cup wanting'["subst"] \cup wanting'["build"]
    BY DEF NoneForgotten
  <2>1. CASE h = g
    BY <1>a, <1>2, <2>1
  <2>2. CASE h # g
    <3>1. pc'[h] = pc[h] /\ completion \subseteq completion'
      BY <1>a, <1>2, <2>2
    <3>2. h \in awake \cup todo \cup {running} \cup aWhile \cup completion \cup wanting["subst"] \cup wanting["build"]
      BY <1>b, <1>1, <3>1 DEF NoneForgotten, Linked
    <3> QED BY <1>1, <2>2, <3>1, <3>2 DEF Linked
  <2> QED BY <2>1, <2>2
<1>6. ThreadsOK'
  BY <1>a, <1>b, <1>1, <1>2, <1>3 DEF ThreadsOK
<1>7. LinksOK' /\ DoomedOK'
  BY <1>b, <1>1, LinksStay
<1> QED BY <1>4, <1>5, <1>6, <1>7 DEF SchedulerOK

(* Goals that wait for a slot fit to a label without thread or waitees.    *)
LEMMA Wanting ==
    ASSUME ListsOK, NEW h \in Goals, h \in wanting["subst"] \cup wanting["build"]
    PROVE  /\ pc[h] \in {"slot", "trybuild"} /\ waitees[h] = {}
           /\ h \notin awake \cup todo \cup {running} \cup aWhile \cup completion
           /\ ~(h \in wanting["subst"] /\ h \in wanting["build"])
  BY DEF ListsOK, OnOneList, WaitLabels

(* A copy or a build has ended: one that waits for the slot is woken.      *)
LEMMA FinishesKeepsScheduler ==
    ASSUME TypeInv, SchedulerOK, NEW g \in Goals, Finishes(g)
    PROVE  SchedulerOK'
<1>a. /\ NoGoal \notin Goals /\ pc \in [Goals -> Labels] /\ exited \subseteq Goals
      /\ wanting \in [Categories -> SUBSET Goals]
  BY WorkerAssumption DEF TypeInv, TypeOK, GoalTypeOK, WorkerTypeOK, OutsideTypeOK
<1>b. TypeOK /\ ListsOK /\ NoneForgotten /\ ThreadsOK /\ LinksOK /\ DoomedOK
  BY DEF SchedulerOK, TypeInv
<1>1. /\ running = g /\ running' = g /\ UNCHANGED Linked
      /\ UNCHANGED <<aWhile, completion, queue, thread>> /\ exited' \subseteq exited
      /\ pc[g] \in {"copied", "building"} /\ (pc[g] = "building" => g \notin exited')
      /\ pc' = [pc EXCEPT ![g] = pc'[g]] /\ pc'[g] \in {"succeeded", "query", "failed"}
  BY <1>a DEF Finishes, SubstFinished, BuildDone, Linked, links, rounds, outside, At, Goto
<1>2. PICK c \in Categories : ChildTerminated(g, c)
  BY DEF Finishes, SubstFinished, BuildDone, Categories
<1>3. PICK W \in FirstWaiter(c) : wanting' = [wanting EXCEPT ![c] = @ \ W] /\ awake' = awake \cup W
  BY <1>2 DEF ChildTerminated
<1>4. W \subseteq wanting[c] /\ W \subseteq wanting["subst"] \cup wanting["build"] /\ W \subseteq Goals
  BY <1>b, WaiterWants DEF Categories
<1>5. OnOneList(g)
  BY <1>b DEF ListsOK
<1>6. ASSUME NEW h \in Goals
      PROVE  /\ h \in awake' <=> h \in awake \/ h \in W
             /\ h \in wanting'["subst"] => h \in wanting["subst"] /\ h \notin W
             /\ h \in wanting'["build"] => h \in wanting["build"] /\ h \notin W
             /\ h \in wanting["subst"] => h \in wanting'["subst"] \/ h \in W
             /\ h \in wanting["build"] => h \in wanting'["build"] \/ h \in W
  <2>1. ASSUME NEW d \in Categories
        PROVE  wanting'[d] = IF d = c THEN wanting[d] \ W ELSE wanting[d]
    BY <1>a, <1>3
  <2>2. ASSUME h \in W, NEW d \in Categories, d # c PROVE h \notin wanting[d]
    <3>1. h \in wanting[c]
      BY <1>4, <2>2
    <3>2. ~(h \in wanting["subst"] /\ h \in wanting["build"])
      BY <1>b, <1>4, <2>2, Wanting
    <3> QED BY <2>2, <3>1, <3>2 DEF Categories
  <2> QED BY <1>3, <2>1, <2>2 DEF Categories
<1>7. g \notin W /\ g \notin awake
  BY <1>b, <1>1, <1>4, <1>5, Wanting DEF OnOneList
<1>8. ListsOK'
  <2> SUFFICES ASSUME NEW h \in Goals PROVE OnOneList(h)'
    BY DEF ListsOK
  <2>1. OnOneList(h)
    BY <1>b DEF ListsOK
  <2>2. CASE h = g
    BY <1>a, <1>1, <1>5, <1>6, <1>7, <2>2 DEF OnOneList, WaitLabels, PassedThrough, Linked
  <2>3. CASE h # g
    <3>1. pc'[h] = pc[h] /\ h # running' /\ h # running
      BY <1>a, <1>1, <2>3
    <3>2. h \in W => /\ pc[h] \in {"slot", "trybuild"} /\ waitees[h] = {}
                     /\ h \notin awake \cup todo \cup {running} \cup aWhile \cup completion
      BY <1>b, <1>4, Wanting
    <3> QED BY <1>1, <1>6, <2>1, <3>1, <3>2 DEF OnOneList, Linked
  <2> QED BY <2>2, <2>3
<1>9. NoneForgotten'
  <2> SUFFICES ASSUME NEW h \in Goals, pc'[h] \notin {"none", "building"}, waitees'[h] = {}
               PROVE  h \in awake' \cup todo' \cup {running'} \cup aWhile' \cup completion' \cup wanting'["subst"] \cup wanting'["build"]
    BY DEF NoneForgotten
  <2>1. CASE h = g
    BY <1>1, <2>1
  <2>2. CASE h # g
    <3>1. pc'[h] = pc[h]
      BY <1>a, <1>1, <2>2
    <3>2. h \in awake \cup todo \cup {running} \cup aWhile \cup completion \cup wanting["subst"] \cup wanting["build"]
      BY <1>b, <1>1, <3>1 DEF NoneForgotten, Linked
    <3> QED BY <1>1, <1>6, <3>2 DEF Linked
  <2> QED BY <2>1, <2>2
<1>10. ThreadsOK'
  <2>1. \A h \in exited' : pc'[h] = "building"
    BY <1>a, <1>b, <1>1 DEF ThreadsOK
  <2> QED BY <1>b, <1>1, <2>1 DEF ThreadsOK
<1>11. LinksOK' /\ DoomedOK'
  BY <1>b, <1>1, LinksStay
<1> QED BY <1>8, <1>9, <1>10, <1>11 DEF SchedulerOK

(* A dropped goal is destroyed; its slot may go to one that waits for it.  *)
LEMMA DestroyKeepsScheduler ==
    ASSUME TypeInv, SchedulerOK, NEW g \in Goals, Destroy(g)
    PROVE  SchedulerOK'
<1>a. /\ NoGoal \notin Goals /\ pc \in [Goals -> Labels] /\ exited \subseteq Goals /\ todo \subseteq awake2
      /\ waitees \in [Goals -> SUBSET Goals] /\ waiters \in [Goals -> SUBSET Goals]
      /\ wanting \in [Categories -> SUBSET Goals]
      /\ thread \in [Goals -> {"none", "query", "copy", "notify"}]
  BY WorkerAssumption DEF TypeInv, TypeOK, GoalTypeOK, WorkerTypeOK, OutsideTypeOK
<1>b. TypeOK /\ KindsOK /\ ChildrenOK /\ ListsOK /\ NoneForgotten /\ ThreadsOK /\ LinksOK /\ DoomedOK
  BY DEF SchedulerOK, TypeInv
<1>1. /\ g \in doomed /\ doomed' = doomed \ {g} /\ running' = running
      /\ \A h \in Goals : pc'[h] = IF h = g THEN "none" ELSE pc[h]
      /\ \A h \in Goals : waitees'[h] = IF h = g THEN {} ELSE waitees[h]
      /\ \A h \in Goals : waiters'[h] = IF h = g THEN {} ELSE waiters[h] \ {g}
      /\ \A h \in Goals : thread'[h] = IF h = g THEN "none" ELSE thread[h]
      /\ aWhile' = aWhile \ {g} /\ queue' = queue \ {g} /\ exited' = exited \ {g}
      /\ completion' = IF g \in completion THEN (completion \ {g}) \cup {NoGoal} ELSE completion
      /\ UNCHANGED <<awake2, todo>>
  BY <1>a DEF Destroy, Goto, rounds
<1>2. PICK W \in SUBSET (wanting["subst"] \cup wanting["build"]) :
          /\ wanting' = [c \in Categories |-> wanting[c] \ (W \cup {g})]
          /\ awake' = (awake \cup W) \ {g}
  <2>1. CASE g \in children
    <3>1. Kind[g] \in Categories
      BY <1>b, <2>1 DEF ChildrenOK, KindsOK, SubstLabels, BuildLabels, Categories
    <3>2. PICK W \in FirstWaiter(Kind[g]) :
              /\ wanting' = [c \in Categories |-> wanting[c] \ (W \cup {g})]
              /\ awake' = (awake \cup W) \ {g}
      BY <2>1 DEF Destroy
    <3>3. W \subseteq wanting[Kind[g]]
      BY <1>b, <3>1, WaiterWants
    <3>4. W \in SUBSET (wanting["subst"] \cup wanting["build"])
      BY <3>1, <3>3 DEF Categories
    <3> QED BY <3>2, <3>4
  <2>2. CASE g \notin children
    <3>1. {} \in SUBSET (wanting["subst"] \cup wanting["build"])
      OBVIOUS
    <3>2. /\ wanting' = [c \in Categories |-> wanting[c] \ ({} \cup {g})]
          /\ awake' = (awake \cup {}) \ {g}
      BY <2>2 DEF Destroy
    <3> QED BY <3>1, <3>2
  <2> QED BY <2>1, <2>2
<1>3. running = NoGoal /\ g \notin todo
  BY <1>a, <1>b, <1>1 DEF DoomedOK
<1>4. ASSUME NEW h \in Goals
      PROVE  /\ h \in awake' <=> h # g /\ (h \in awake \/ h \in W)
             /\ h \in wanting'["subst"] <=> h # g /\ h \in wanting["subst"] /\ h \notin W
             /\ h \in wanting'["build"] <=> h # g /\ h \in wanting["build"] /\ h \notin W
             /\ h \in completion' <=> h # g /\ h \in completion
  BY <1>a, <1>1, <1>2 DEF Categories
<1>5. \A h \in W : h \in Goals
  BY <1>a DEF Categories
<1>6. ListsOK'
  <2> SUFFICES ASSUME NEW h \in Goals PROVE OnOneList(h)'
    BY DEF ListsOK
  <2>1. OnOneList(h)
    BY <1>b DEF ListsOK
  <2>2. CASE h = g
    BY <1>a, <1>1, <1>3, <1>4, <2>2 DEF OnOneList, WaitLabels, PassedThrough
  <2>3. CASE h # g
    <3>1. h \in W => /\ pc[h] \in {"slot", "trybuild"} /\ waitees[h] = {}
                     /\ h \notin awake \cup todo \cup {running} \cup aWhile \cup completion
      BY <1>b, Wanting
    <3>2. pc'[h] = pc[h] /\ waitees'[h] = waitees[h] /\ (h \in aWhile' <=> h \in aWhile)
      BY <1>1, <2>3
    <3> QED BY <1>1, <1>4, <2>1, <2>3, <3>1, <3>2 DEF OnOneList
  <2> QED BY <2>2, <2>3
<1>7. NoneForgotten'
  <2> SUFFICES ASSUME NEW h \in Goals, pc'[h] \notin {"none", "building"}, waitees'[h] = {}
               PROVE  h \in awake' \cup todo' \cup {running'} \cup aWhile' \cup completion' \cup wanting'["subst"] \cup wanting'["build"]
    BY DEF NoneForgotten
  <2>1. h # g /\ pc'[h] = pc[h] /\ waitees[h] = {}
    BY <1>1
  <2>2. h \in awake \cup todo \cup {running} \cup aWhile \cup completion \cup wanting["subst"] \cup wanting["build"]
    BY <1>b, <2>1 DEF NoneForgotten
  <2> QED BY <1>1, <1>4, <2>1, <2>2
<1>8. ThreadsOK'
  BY <1>a, <1>b, <1>1, <1>4 DEF ThreadsOK
<1>9. LinksOK'
  <2>1. ASSUME NEW x \in Goals, NEW h \in Goals, h \in waiters'[x] PROVE x \in waitees'[h]
    <3>1. h # g /\ h \in waiters[x]
      BY <1>1, <2>1
    <3> QED BY <1>b, <1>1, <3>1 DEF LinksOK
  <2>2. ASSUME NEW x \in Goals, NEW h \in Goals, x \in waitees'[h] PROVE h \in waiters'[x] \/ h \in doomed'
    <3>1. h # g /\ x \in waitees[h]
      BY <1>1, <2>2
    <3>2. x = g => h \in doomed
      BY <1>b, <1>1, <3>1 DEF DoomedOK
    <3>3. h \in waiters[x] \/ h \in doomed
      BY <1>b, <3>1 DEF LinksOK
    <3> QED BY <1>1, <3>1, <3>2, <3>3
  <2> QED BY <2>1, <2>2 DEF LinksOK
<1>10. DoomedOK'
  BY <1>a, <1>b, <1>1, <1>3 DEF DoomedOK
<1> QED BY <1>6, <1>7, <1>8, <1>9, <1>10 DEF SchedulerOK
(* The rounds of Worker::run.                                              *)
LEMMA RoundsKeepScheduler ==
    ASSUME TypeInv, SchedulerOK, StartRound \/ Work \/ EndRound
    PROVE  SchedulerOK'
<1>a. /\ NoGoal \notin Goals /\ Top \subseteq Goals /\ todo \subseteq awake2 /\ awake2 \subseteq Goals
      /\ waitees \in [Goals -> SUBSET Goals] /\ running = NoGoal /\ doomed = {}
  BY WorkerAssumption DEF TypeInv, TypeOK, GoalTypeOK, WorkerTypeOK, StartRound, Work, EndRound, Idle
<1>b. ListsOK /\ NoneForgotten /\ ThreadsOK /\ LinksOK /\ DoomedOK
  BY DEF SchedulerOK
<1>1. UNCHANGED <<pc, waitees, waiters, wanting, aWhile, completion, thread, exited, queue>>
  BY DEF StartRound, Work, EndRound, links, lists, outside
<1>2. ThreadsOK'
  BY <1>b, <1>1 DEF ThreadsOK
<1>3. LinksOK'
  BY <1>a, <1>b, <1>1 DEF LinksOK
<1>4. CASE StartRound
  <2>1. todo = {} /\ todo' = awake /\ awake2' = awake /\ awake' = {} /\ running' = running /\ doomed' = doomed
    BY <1>a, <1>4 DEF StartRound
  <2>2. ListsOK'
    BY <1>a, <1>b, <1>1, <2>1 DEF ListsOK, OnOneList
  <2>3. NoneForgotten'
    BY <1>a, <1>b, <1>1, <2>1 DEF NoneForgotten
  <2>4. DoomedOK'
    BY <1>a, <1>b, <1>1, <2>1 DEF DoomedOK
  <2> QED BY <1>2, <1>3, <2>2, <2>3, <2>4 DEF SchedulerOK
<1>5. CASE Work
  <2>1. PICK g \in todo : running' = g /\ todo' = todo \ {g}
    BY <1>5 DEF Work
  <2>2. UNCHANGED <<awake, awake2, doomed>>
    BY <1>5 DEF Work
  <2>3. ListsOK'
    <3> SUFFICES ASSUME NEW h \in Goals PROVE OnOneList(h)'
      BY DEF ListsOK
    <3>1. OnOneList(h) /\ h # running
      BY <1>a, <1>b DEF ListsOK
    <3>2. CASE h = g
      BY <1>1, <2>1, <2>2, <3>1, <3>2 DEF OnOneList
    <3>3. CASE h # g
      BY <1>1, <2>1, <2>2, <3>1, <3>3 DEF OnOneList
    <3> QED BY <3>2, <3>3
  <2>4. NoneForgotten'
    <3> SUFFICES ASSUME NEW h \in Goals, pc'[h] \notin {"none", "building"}, waitees'[h] = {}
                 PROVE  h \in awake' \cup todo' \cup {running'} \cup aWhile' \cup completion' \cup wanting'["subst"] \cup wanting'["build"]
      BY DEF NoneForgotten
    <3>1. h \in awake \cup todo \cup aWhile \cup completion \cup wanting["subst"] \cup wanting["build"]
      BY <1>a, <1>b, <1>1 DEF NoneForgotten
    <3> QED BY <1>1, <2>1, <2>2, <3>1
  <2>5. DoomedOK'
    BY <1>a, <1>b, <1>1, <2>1, <2>2 DEF DoomedOK
  <2> QED BY <1>2, <1>3, <2>3, <2>4, <2>5 DEF SchedulerOK
<1>6. CASE EndRound
  <2> DEFINE R == Reachable(waitees, Top)
  <2>1. /\ UNCHANGED <<awake, todo, running>> /\ awake2' = {}
        /\ doomed' = {h \in Goals : pc[h] # "none"} \ R
    BY <1>6 DEF EndRound
  <2>2. \A h \in R : waitees[h] \subseteq R
    BY <1>a, ReachableFacts
  <2>3. \A h \in Goals : waitees[h] # {} => pc[h] # "none"
    BY <1>b DEF ListsOK, OnOneList, WaitLabels
  <2> HIDE DEF R
  <2>4. ListsOK' /\ NoneForgotten'
    BY <1>b, <1>1, <2>1 DEF ListsOK, OnOneList, NoneForgotten
  <2>5. DoomedOK'
    BY <1>a, <1>1, <2>1, <2>2, <2>3 DEF DoomedOK
  <2> QED BY <1>2, <1>3, <2>4, <2>5 DEF SchedulerOK
<1> QED BY <1>4, <1>5, <1>6

(* waitForInput                                                            *)
LEMMA InputKeepsScheduler ==
    ASSUME TypeInv, SchedulerOK, WaitForInput
    PROVE  SchedulerOK'
<1>a. /\ NoGoal \notin Goals /\ todo = {} /\ awake = {} /\ running = NoGoal
      /\ exited \subseteq Goals /\ queue \subseteq Goals /\ pipe \in BOOLEAN
  BY WorkerAssumption DEF TypeInv, TypeOK, WorkerTypeOK, OutsideTypeOK, WaitForInput, Waiting, Idle
<1>b. ListsOK /\ NoneForgotten /\ ThreadsOK /\ LinksOK /\ DoomedOK
  BY DEF SchedulerOK
<1> DEFINE told == IF pipe THEN queue ELSE {}
<1>1. UNCHANGED <<pc, running, wanting, thread, exited>> /\ UNCHANGED Linked
  BY DEF WaitForInput, links, rounds, outside, Linked
<1>2. PICK polled \in {{}, aWhile} : awake' = exited \cup polled \cup told /\ aWhile' = aWhile \ polled
  BY DEF WaitForInput, AfterPoll
<1>3. completion' = completion \ told /\ queue' = queue \ told /\ told \subseteq queue
  BY <1>a DEF WaitForInput
<1>4. told = queue \/ told = {}
  OBVIOUS
<1> HIDE DEF told
<1>5. ListsOK'
  <2> SUFFICES ASSUME NEW h \in Goals PROVE OnOneList(h)'
    BY DEF ListsOK
  <2>1. OnOneList(h)
    BY <1>b DEF ListsOK
  <2>2. /\ h \in exited => pc[h] = "building"
        /\ h \in told => h \in completion
    BY <1>b, <1>3 DEF ThreadsOK
  <2> QED BY <1>a, <1>1, <1>2, <1>3, <2>1, <2>2 DEF OnOneList, WaitLabels, Linked
<1>6. NoneForgotten'
  <2> SUFFICES ASSUME NEW h \in Goals, pc'[h] \notin {"none", "building"}, waitees'[h] = {}
               PROVE  h \in awake' \cup todo' \cup {running'} \cup aWhile' \cup completion' \cup wanting'["subst"] \cup wanting'["build"]
    BY DEF NoneForgotten
  <2>1. h \in aWhile \cup completion \cup wanting["subst"] \cup wanting["build"]
    BY <1>a, <1>b, <1>1 DEF NoneForgotten, Linked
  <2> QED BY <1>1, <1>2, <1>3, <2>1
<1>7. ThreadsOK'
  BY <1>b, <1>1, <1>3, <1>4 DEF ThreadsOK
<1>8. LinksOK' /\ DoomedOK'
  BY <1>b, <1>1, LinksStay
<1> QED BY <1>5, <1>6, <1>7, <1>8 DEF SchedulerOK

(* What other threads and processes do, and the end of run().              *)
LEMMA OutsideKeepsScheduler ==
    ASSUME TypeInv, SchedulerOK,
           \/ \E g \in Goals : Throws(g) \/ QueryDone(g) \/ CopyDone(g) \/ Notify(g) \/ BuilderExits(g)
           \/ \E x \in Paths : ForeignLocks(x) \/ ForeignBuilt(x)
           \/ RunEnds \/ UNCHANGED vars
    PROVE  SchedulerOK'
<1> DEFINE same == UNCHANGED Linked /\ UNCHANGED <<pc, awake, running, wanting, aWhile, completion>>
<1>a. thread \in [Goals -> {"none", "query", "copy", "notify"}]
  BY DEF TypeInv, TypeOK, OutsideTypeOK
<1>b. ListsOK /\ NoneForgotten /\ ThreadsOK /\ LinksOK /\ DoomedOK
  BY DEF SchedulerOK
<1>1. ASSUME same, ThreadsOK' PROVE SchedulerOK'
  <2>1. ListsOK'
    BY <1>b, <1>1 DEF ListsOK, OnOneList, Linked
  <2>2. NoneForgotten'
    BY <1>b, <1>1 DEF NoneForgotten, Linked
  <2>3. LinksOK' /\ DoomedOK'
    BY <1>b, <1>1, LinksStay
  <2> QED BY <1>1, <2>1, <2>2, <2>3 DEF SchedulerOK
<1>2. ASSUME NEW g \in Goals, QueryDone(g) \/ CopyDone(g) PROVE SchedulerOK'
  <2>1. PICK r : Enqueue(g, r)
    BY <1>2 DEF QueryDone, CopyDone
  <2>2. same /\ exited' = exited
    BY <2>1 DEF Enqueue, Linked, links, rounds, lists
  <2>3. thread[g] \in {"query", "copy"} /\ queue' = queue \cup {g} /\ thread' = [thread EXCEPT ![g] = "notify"]
    BY <1>2, <2>1 DEF QueryDone, CopyDone, Enqueue
  <2>4. ThreadsOK'
    BY <1>a, <1>b, <2>2, <2>3 DEF ThreadsOK
  <2> QED BY <1>1, <2>2, <2>4
<1>3. ASSUME NEW g \in Goals, Notify(g) PROVE SchedulerOK'
  <2>1. same /\ UNCHANGED <<exited, queue>> /\ thread[g] = "notify" /\ thread' = [thread EXCEPT ![g] = "none"]
    BY <1>3 DEF Notify, Linked, links, rounds, lists
  <2>2. ThreadsOK'
    BY <1>a, <1>b, <2>1 DEF ThreadsOK
  <2> QED BY <1>1, <2>1, <2>2
<1>4. ASSUME NEW g \in Goals, BuilderExits(g) PROVE SchedulerOK'
  <2>1. same /\ UNCHANGED <<thread, queue>> /\ exited' = exited \cup {g} /\ pc[g] = "building"
    BY <1>4 DEF BuilderExits, Linked, links, rounds, lists
  <2>2. ThreadsOK'
    BY <1>b, <2>1 DEF ThreadsOK
  <2> QED BY <1>1, <2>1, <2>2
<1>5. ASSUME same, UNCHANGED <<thread, queue, exited>> PROVE SchedulerOK'
  <2>1. ThreadsOK'
    BY <1>b, <1>5 DEF ThreadsOK
  <2> QED BY <1>1, <1>5, <2>1
<1>6. ASSUME NEW g \in Goals, Throws(g) PROVE SchedulerOK'
  BY <1>5, <1>6 DEF Throws, Linked, links, rounds, lists, outside
<1>7. ASSUME NEW x \in Paths, ForeignLocks(x) \/ ForeignBuilt(x) PROVE SchedulerOK'
  BY <1>5, <1>7 DEF ForeignLocks, ForeignBuilt, Linked, links, rounds, lists, outside
<1>8. CASE RunEnds \/ UNCHANGED vars
  BY <1>5, <1>8 DEF RunEnds, vars, Linked, links, rounds, lists, outside
<1> QED BY <1>2, <1>3, <1>4, <1>6, <1>7, <1>8

LEMMA StepKeepsScheduler ==
    ASSUME TypeInv, SchedulerOK, [Next]_vars
    PROVE  SchedulerOK'
  BY Steps, AwaitsKeepsScheduler, EndsKeepsScheduler, MovesKeepScheduler, WaitsKeepsScheduler,
     StartsKeepsScheduler, FinishesKeepsScheduler, DestroyKeepsScheduler, RoundsKeepScheduler,
     InputKeepsScheduler, OutsideKeepsScheduler

LEMMA InitScheduler ==
    ASSUME Init
    PROVE  SchedulerOK
<1> USE WorkerAssumption DEF Init
<1>1. ListsOK
  <2>1. wanting["subst"] = {} /\ wanting["build"] = {}
    BY DEF Categories
  <2> QED BY <2>1 DEF ListsOK, OnOneList, PassedThrough
<1>2. NoneForgotten
  BY DEF NoneForgotten
<1>3. ThreadsOK /\ LinksOK /\ DoomedOK
  BY DEF ThreadsOK, LinksOK, DoomedOK
<1> QED BY <1>1, <1>2, <1>3 DEF SchedulerOK

(* A suspended goal is resumed by exactly one thing, and one that is done  *)
(* by nothing: whatever the dependencies, outcomes and settings, no goal   *)
(* is forgotten, woken twice or resumed after amDone.                      *)
THEOREM OneResumerHolds == Spec => []OneResumer
<1>1. Init => TypeInv /\ SchedulerOK
  BY InitTypes, InitScheduler
<1>2. TypeInv /\ SchedulerOK /\ [Next]_vars => (TypeInv /\ SchedulerOK)'
  BY StepKeepsTypes, StepKeepsScheduler
<1>3. TypeInv /\ SchedulerOK => OneResumer
  <2> SUFFICES ASSUME TypeInv, SchedulerOK, NEW g \in Goals, g # running, g \notin doomed
               PROVE  Cardinality(Resumers(g)) = IF pc[g] = "none" THEN 0 ELSE 1
    BY DEF OneResumer
  <2>1. OnOneList(g)
    BY DEF SchedulerOK, ListsOK
  <2>2. g \in completion => thread[g] # "none" \/ g \in queue
    BY DEF SchedulerOK, ThreadsOK
  <2>3. \/ pc[g] \in {"none", "building"} \/ waitees[g] # {} \/ g \in awake \cup todo \cup aWhile \cup completion
        \/ g \in wanting["subst"] \cup wanting["build"]
    BY DEF SchedulerOK, NoneForgotten
  <2>4. (\E c \in Categories : g \in wanting[c]) <=> g \in wanting["subst"] \/ g \in wanting["build"]
    BY DEF Categories
  <2>5. CASE pc[g] = "none"
    <3>1. Resumers(g) = {}
      BY <2>1, <2>4, <2>5 DEF Resumers, OnOneList, WaitLabels
    <3> QED BY <2>5, <3>1, FS_EmptySet
  <2>6. CASE pc[g] # "none"
    <3>1. ASSUME NEW r, Resumers(g) = {r} PROVE Cardinality(Resumers(g)) = 1
      BY <3>1, FS_Singleton
    <3>2. CASE g \in awake
      <4>1. Resumers(g) = {"awake"}
        BY <2>1, <2>4, <3>2 DEF Resumers, OnOneList
      <4> QED BY <2>6, <3>1, <4>1
    <3>3. CASE g \in todo
      <4>1. Resumers(g) = {"todo"}
        BY <2>1, <2>4, <3>3 DEF Resumers, OnOneList
      <4> QED BY <2>6, <3>1, <4>1
    <3>4. CASE g \in wanting["subst"] \cup wanting["build"]
      <4>1. Resumers(g) = {"slot"}
        BY <2>1, <2>4, <3>4 DEF Resumers, OnOneList, WaitLabels
      <4> QED BY <2>6, <3>1, <4>1
    <3>5. CASE g \in aWhile
      <4>1. Resumers(g) = {"while"}
        BY <2>1, <2>4, <3>5 DEF Resumers, OnOneList, WaitLabels
      <4> QED BY <2>6, <3>1, <4>1
    <3>6. CASE g \in completion
      <4>1. Resumers(g) = {"thread"}
        BY <2>1, <2>2, <2>4, <3>6 DEF Resumers, OnOneList, WaitLabels
      <4> QED BY <2>6, <3>1, <4>1
    <3>7. CASE waitees[g] # {}
      <4>1. Resumers(g) = {"waitees"}
        BY <2>1, <2>4, <3>7 DEF Resumers, OnOneList, WaitLabels
      <4> QED BY <2>6, <3>1, <4>1
    <3>8. CASE pc[g] = "building" /\ g \notin awake \cup todo
      <4>1. Resumers(g) = {"builder"}
        BY <2>1, <2>4, <3>8 DEF Resumers, OnOneList, WaitLabels
      <4> QED BY <2>6, <3>1, <4>1
    <3> QED BY <2>3, <2>6, <3>2, <3>3, <3>4, <3>5, <3>6, <3>7, <3>8
  <2> QED BY <2>5, <2>6
<1> QED BY <1>1, <1>2, <1>3, PTL DEF Spec
-----------------------------------------------------------------------------
(* Why what a goal needs is valid when it copies or builds: a dependency   *)
(* it no longer waits for has made its path valid, or it is known to have  *)
(* failed.                                                                 *)
InputsOf(g) ==
    /\ pc[g] = "succeeded" => Path[g] \in valid
    /\ Kind[g] = "subst" /\ result[g] = "ok" => Path[g] \in valid
    /\ pc[g] \in {"refs", "inputs"} =>
          nrFailed[g] > 0 \/ \A h \in Deps[g] : Path[h] \in valid \/ h \in waitees[g]
    /\ pc[g] \in {"slot", "copied", "trybuild", "local", "building"} =>
          \A h \in Deps[g] : Path[h] \in valid
    /\ pc[g] = "built" => nrFailed[g] > 0 \/ Path[g] \in valid \/ BuildOf[g] \in waitees[g]

InputsOK == \A g \in Goals : InputsOf(g)

(* No path becomes invalid.                                                *)
LEMMA ValidGrows ==
    ASSUME [Next]_vars
    PROVE  valid \subseteq valid'
<1>1. ASSUME NEW g \in Goals,
             \/ Ends(g) \/ Awaits(g) \/ Yields(g) \/ Queries(g) \/ Throws(g)
             \/ GivesUp(g) \/ Waits(g) \/ Starts(g) \/ Finishes(g) \/ Destroy(g)
      PROVE  valid \subseteq valid'
  BY <1>1 DEF Ends, Awaits, Yields, Queries, Throws, GivesUp, Waits, Starts, Finishes, AmDone, Await, Yield, QueryPathInfo, SubstWait, BuildWait, OutputsLocked, NoBuildUser, SubstRun, StartBuild, SubstFinished, BuildDone, Destroy, world
<1>2. CASE StartRound \/ Work \/ EndRound \/ RunEnds \/ WaitForInput \/ UNCHANGED vars
  BY <1>2 DEF StartRound, Work, EndRound, RunEnds, WaitForInput, vars, world
<1>3. ASSUME NEW g \in Goals, QueryDone(g) \/ CopyDone(g) \/ Notify(g) \/ BuilderExits(g) PROVE valid \subseteq valid'
  BY <1>3 DEF QueryDone, CopyDone, Notify, BuilderExits, world
<1>4. ASSUME NEW x \in Paths, ForeignLocks(x) \/ ForeignBuilt(x) PROVE valid \subseteq valid'
  BY <1>4 DEF ForeignLocks, ForeignBuilt
<1> QED BY <1>1, <1>2, <1>3, <1>4, Steps

LEMMA InputsStay ==
    ASSUME NEW h \in Goals, InputsOf(h), valid \subseteq valid', pc'[h] = pc[h],
           nrFailed'[h] = nrFailed[h], waitees'[h] = waitees[h], result'[h] = result[h]
    PROVE  InputsOf(h)'
  BY DEF InputsOf

LEMMA StepKeepsInputs ==
    ASSUME TypeInv, SchedulerOK, InputsOK, [Next]_vars
    PROVE  InputsOK'
<1>a. /\ NoGoal \notin Goals /\ Deps \in [Goals -> SUBSET Goals]
      /\ pc \in [Goals -> Labels] /\ waitees \in [Goals -> SUBSET Goals]
      /\ waiters \in [Goals -> SUBSET Goals] /\ nrFailed \in [Goals -> Nat]
      /\ result \in [Goals -> {"none"} \cup QueryOutcomes \cup CopyOutcomes \cup BuildOutcomes]
      /\ "ok" \notin QueryOutcomes
  BY WorkerAssumption DEF TypeInv, TypeOK, GoalTypeOK, OutsideTypeOK
<1>b. KindsOK /\ ListsOK /\ LinksOK
  BY DEF TypeInv, SchedulerOK
<1>c. valid \subseteq valid'
  BY ValidGrows
<1>1. ASSUME NEW g \in Goals, Awaits(g) PROVE InputsOK'
  <2>1. PICK S \in SUBSET Goals, label \in WaitLabels : Await(g, S, label)
    BY <1>b, <1>1, AwaitsGoals
  <2>2. /\ pc' = [h \in Goals |-> IF h = g THEN label ELSE IF h \in S /\ pc[h] = "none" THEN "start" ELSE pc[h]]
        /\ nrFailed' = [h \in Goals |-> IF h \in S /\ pc[h] = "none" THEN 0 ELSE nrFailed[h]]
        /\ \A h \in Goals : waitees'[h] = IF h = g THEN S ELSE waitees[h]
        /\ result' = result /\ valid' = valid
    BY <1>a, <2>1 DEF Await, world, outside
  <2>3. InputsOf(g)'
    <3>1. CASE pc'[g] \in {"substituted", "resolved"}
      BY <1>c, <2>2, <3>1 DEF InputsOK, InputsOf
    <3>2. CASE pc[g] = "info" /\ Await(g, Deps[g], "refs")
      <4>1. pc'[g] = "refs" /\ waitees'[g] = Deps[g]
        BY <1>a, <3>2 DEF Await
      <4> QED BY <2>2, <4>1 DEF InputsOK, InputsOf
    <3>3. CASE pc[g] = "resolved" /\ Await(g, {BuildOf[g]}, "built")
      <4>1. pc'[g] = "built" /\ waitees'[g] = {BuildOf[g]}
        BY <1>a, <3>3 DEF Await
      <4> QED BY <2>2, <4>1 DEF InputsOK, InputsOf
    <3>4. CASE pc[g] = "start" /\ Kind[g] = "build" /\ Await(g, {h \in Deps[g] : ~IsValid(h)}, "inputs")
      <4>1. pc'[g] = "inputs" /\ waitees'[g] = {h \in Deps[g] : ~IsValid(h)}
        BY <1>a, <3>4 DEF Await
      <4> QED BY <2>2, <4>1 DEF InputsOK, InputsOf, IsValid
    <3>5. CASE pc[g] = "start" /\ Kind[g] = "drv" /\ Await(g, {SubstOf[g]} \ {NoGoal}, "substituted")
      <4>1. pc'[g] = "substituted"
        BY <3>5 DEF Await
      <4> QED BY <3>1, <4>1
    <3>6. CASE pc[g] = "resolve" /\ Await(g, Deps[g], "resolved")
      <4>1. pc'[g] = "resolved"
        BY <3>6 DEF Await
      <4> QED BY <3>1, <4>1
    <3> QED BY <1>1, <3>2, <3>3, <3>4, <3>5, <3>6 DEF Awaits
  <2>4. ASSUME NEW h \in Goals, h # g PROVE InputsOf(h)'
    <3>1. InputsOf(h)
      BY DEF InputsOK
    <3>2. CASE h \in S /\ pc[h] = "none"
      <4>1. pc'[h] = "start"
        BY <2>2, <2>4, <3>2
      <4> QED BY <2>2, <3>1, <4>1 DEF InputsOf
    <3>3. CASE ~(h \in S /\ pc[h] = "none")
      BY <1>c, <2>2, <2>4, <3>1, <3>3, InputsStay
    <3> QED BY <3>2, <3>3
  <2> QED BY <2>3, <2>4 DEF InputsOK
<1>2. ASSUME NEW g \in Goals, Ends(g) PROVE InputsOK'
  <2>1. PICK code \in Codes : AmDone(g, code) /\ (code = "success" => Succeeds(g))
    BY <1>2 DEF Ends
  <2> DEFINE cut == CutShort(g, code)
  <2>2. /\ \A h \in Goals : waitees'[h] = IF h \in cut THEN {} ELSE waitees[h] \ {g}
        /\ \A h \in Goals : nrFailed'[h] = IF h \in waiters[g] /\ code # "success" THEN nrFailed[h] + 1 ELSE nrFailed[h]
        /\ \A h \in Goals : pc'[h] = IF h = g THEN "none" ELSE pc[h]
        /\ result' = result /\ valid' = valid
    BY <1>a, <2>1 DEF AmDone, Goto, world, outside
  <2>3. cut \subseteq waiters[g] /\ (cut # {} => code # "success")
    BY DEF CutShort
  <2> HIDE DEF cut
  <2>4. waitees[g] = {} /\ doomed = {}
    BY <1>b, <1>2 DEF Ends, Runs, ListsOK, OnOneList
  <2>5. code = "success" => Path[g] \in valid
    BY <2>1, <2>4 DEF Succeeds, IsValid, SomeFailed, InputsOK, InputsOf
  <2>6. ASSUME NEW h \in Goals, h # g PROVE InputsOf(h)'
    <3>1. InputsOf(h)
      BY DEF InputsOK
    <3>2. pc'[h] = pc[h]
      BY <2>2, <2>6
    <3>3. CASE h \in waiters[g] /\ code # "success"
      <4>1. nrFailed'[h] > 0
        BY <1>a, <2>2, <3>3
      <4> QED BY <2>2, <3>1, <3>2, <4>1 DEF InputsOf
    <3>4. CASE h \in waiters[g] /\ code = "success"
      <4>1. waitees'[h] = waitees[h] \ {g} /\ nrFailed'[h] = nrFailed[h] /\ Path[g] \in valid
        BY <2>2, <2>3, <2>5, <3>4
      <4>2. pc[h] = "built" => BuildOf[h] \in Goals /\ Path[BuildOf[h]] = Path[h]
        BY <1>b, WorkerAssumption DEF KindsOK, DrvLabels
      <4> QED BY <2>2, <3>1, <3>2, <4>1, <4>2 DEF InputsOf
    <3>5. CASE h \notin waiters[g]
      <4>1. g \notin waitees[h]
        BY <1>b, <2>4, <3>5 DEF LinksOK
      <4>2. waitees'[h] = waitees[h] /\ nrFailed'[h] = nrFailed[h]
        BY <2>2, <2>3, <3>5, <4>1
      <4> QED BY <1>c, <2>2, <3>1, <3>2, <4>2, InputsStay
    <3> QED BY <3>3, <3>4, <3>5
  <2>7. InputsOf(g)'
    BY <2>2 DEF InputsOK, InputsOf
  <2> QED BY <2>6, <2>7 DEF InputsOK
<1>3. ASSUME NEW g \in Goals, Yields(g) \/ Queries(g) \/ GivesUp(g) \/ Waits(g) \/ Starts(g) \/ Finishes(g)
      PROVE  InputsOK'
  <2>1. waitees[g] = {}
    BY <1>b, <1>3 DEF Yields, Queries, GivesUp, Waits, Starts, Finishes, Runs, At, SubstWait, BuildWait, OutputsLocked, NoBuildUser, SubstRun, StartBuild, SubstFinished, BuildDone, ListsOK, OnOneList
  <2>2. UNCHANGED <<waitees, result>> /\ \A h \in Goals : h # g => pc'[h] = pc[h] /\ nrFailed'[h] = nrFailed[h]
    BY <1>a, <1>3 DEF Yields, Queries, GivesUp, Waits, Starts, Finishes, Yield, QueryPathInfo, SubstWait, BuildWait, OutputsLocked, NoBuildUser, SubstRun, StartBuild, SubstFinished, BuildDone, Goto, links, outside
  <2>3. InputsOf(g)
    BY DEF InputsOK
  <2>4. InputsOf(g)'
    <3>1. CASE Yields(g)
      <4>1. \A h \in Deps[g] : Path[h] \in valid
        BY <1>a, <2>1, <2>3, <3>1 DEF Yields, InputsOf, SomeFailed
      <4>2. pc'[g] \in {"slot", "trybuild", "local"} /\ valid' = valid
        BY <1>a, <3>1 DEF Yields, Yield, Goto, world
      <4> QED BY <2>2, <2>3, <4>1, <4>2 DEF InputsOf
    <3>2. CASE Queries(g) \/ GivesUp(g)
      <4>1. pc'[g] \in {"info", "resolve"}
        BY <1>a, <3>2 DEF Queries, GivesUp, QueryPathInfo, Goto
      <4> QED BY <1>c, <2>2, <2>3, <4>1 DEF InputsOf
    <3>3. CASE Waits(g) \/ Starts(g)
      <4>1. /\ pc[g] \in {"slot", "trybuild", "local"}
            /\ pc'[g] \in {"slot", "copied", "trybuild", "local", "building"}
        BY <1>a, <3>3 DEF Waits, Starts, SubstWait, BuildWait, OutputsLocked, NoBuildUser, SubstRun, StartBuild, At, Goto
      <4>2. \A h \in Deps[g] : Path[h] \in valid
        BY <2>3, <4>1 DEF InputsOf
      <4> QED BY <1>c, <2>2, <2>3, <4>1, <4>2 DEF InputsOf
    <3>4. CASE SubstFinished(g)
      <4>1. /\ Kind[g] = "subst" /\ pc'[g] \in {"succeeded", "query"}
            /\ (pc'[g] = "succeeded" => result[g] = "ok")
        BY <1>a, <1>b, <3>4 DEF SubstFinished, At, Goto, KindsOK, SubstLabels
      <4> QED BY <1>c, <2>2, <2>3, <4>1 DEF InputsOf
    <3>5. CASE BuildDone(g)
      <4>1. /\ Kind[g] = "build" /\ pc'[g] \in {"succeeded", "failed"}
            /\ (pc'[g] = "succeeded" => Path[g] \in valid')
        BY <1>a, <1>b, <3>5 DEF BuildDone, At, Goto, KindsOK, BuildLabels
      <4> QED BY <1>c, <2>2, <2>3, <4>1 DEF InputsOf
    <3> QED BY <1>3, <3>1, <3>2, <3>3, <3>4, <3>5 DEF Finishes
  <2>5. ASSUME NEW h \in Goals, h # g PROVE InputsOf(h)'
    BY <1>c, <2>2, <2>5, InputsStay DEF InputsOK
  <2> QED BY <2>4, <2>5 DEF InputsOK
<1>4. ASSUME NEW g \in Goals, Destroy(g) PROVE InputsOK'
  <2>1. UNCHANGED <<result, nrFailed>> /\ \A h \in Goals : h # g => pc'[h] = pc[h] /\ waitees'[h] = waitees[h]
    BY <1>a, <1>4 DEF Destroy, Goto
  <2>2. pc'[g] = "none"
    BY <1>a, <1>4 DEF Destroy, Goto
  <2>3. InputsOf(g)'
    BY <1>c, <2>1, <2>2 DEF InputsOK, InputsOf
  <2>4. ASSUME NEW h \in Goals, h # g PROVE InputsOf(h)'
    BY <1>c, <2>1, <2>4, InputsStay DEF InputsOK
  <2> QED BY <2>3, <2>4 DEF InputsOK
<1>5. ASSUME UNCHANGED <<pc, nrFailed, waitees, result>> PROVE InputsOK'
  BY <1>c, <1>5, InputsStay DEF InputsOK
<1>6. ASSUME NEW g \in Goals, QueryDone(g) \/ CopyDone(g) \/ BuilderExits(g) PROVE InputsOK'
  <2>1. UNCHANGED <<pc, nrFailed, waitees>> /\ \A h \in Goals : h # g => result'[h] = result[h]
    BY <1>a, <1>6 DEF QueryDone, CopyDone, BuilderExits, Enqueue, links
  <2>2. Kind[g] = "subst" /\ result'[g] = "ok" => Path[g] \in valid'
    <3>1. CASE QueryDone(g)
      BY <1>a, <3>1 DEF QueryDone, Enqueue
    <3>2. CASE CopyDone(g)
      BY <1>a, <3>2 DEF CopyDone, Enqueue
    <3>3. CASE BuilderExits(g)
      BY <3>3 DEF BuilderExits
    <3> QED BY <1>6, <3>1, <3>2, <3>3
  <2>3. InputsOf(g)'
    BY <1>c, <2>1, <2>2 DEF InputsOK, InputsOf
  <2>4. ASSUME NEW h \in Goals, h # g PROVE InputsOf(h)'
    BY <1>c, <2>1, <2>4, InputsStay DEF InputsOK
  <2> QED BY <2>3, <2>4 DEF InputsOK
<1>7. CASE \/ \E g \in Goals : Throws(g) \/ Notify(g)
           \/ StartRound \/ Work \/ EndRound \/ RunEnds \/ WaitForInput
           \/ \E x \in Paths : ForeignLocks(x) \/ ForeignBuilt(x)
           \/ UNCHANGED vars
  BY <1>5, <1>7 DEF Throws, Notify, StartRound, Work, EndRound, RunEnds, WaitForInput, ForeignLocks, ForeignBuilt, vars, links, outside
<1> QED BY <1>1, <1>2, <1>3, <1>4, <1>6, <1>7, Steps

(* When a path is copied or built, the paths that it refers to or is built *)
(* from are valid: whatever the graph of goals, and although waits are cut *)
(* short, substituters fail and other processes build.                     *)
THEOREM InputsValidHolds == Spec => []InputsValid
<1>1. Init => TypeInv /\ SchedulerOK /\ InputsOK
  <2>1. Init => InputsOK
    BY DEF Init, InputsOK, InputsOf
  <2> QED BY <2>1, InitTypes, InitScheduler
<1>2. TypeInv /\ SchedulerOK /\ InputsOK /\ [Next]_vars => (TypeInv /\ SchedulerOK /\ InputsOK)'
  BY StepKeepsTypes, StepKeepsScheduler, StepKeepsInputs
<1>3. TypeInv /\ SchedulerOK /\ InputsOK => InputsValid
  <2>1. ASSUME TypeInv, InputsOK, NEW g \in children, NEW h \in Deps[g] PROVE Path[h] \in valid
    <3>1. g \in Goals
      BY <2>1 DEF TypeInv, TypeOK, WorkerTypeOK
    <3> QED BY <2>1, <3>1 DEF TypeInv, ChildrenOK, InputsOK, InputsOf
  <2> QED BY <2>1 DEF InputsValid
<1> QED BY <1>1, <1>2, <1>3, PTL DEF Spec
-----------------------------------------------------------------------------
(* With --keep-going no wait is cut short: every goal there is, is waited  *)
(* for by a top-level goal that is not done, and none is dropped.          *)
Existing == {g \in Goals : pc[g] # "none"}

AllWanted ==
    /\ settings.keepGoing => Existing \subseteq Reachable(waitees, top) /\ doomed = {}
    /\ loop = "ended" => top = {}

LEMMA StepKeepsWanted ==
    ASSUME TypeInv, SchedulerOK, AllWanted, [Next]_vars
    PROVE  AllWanted'
<1>a. /\ Top \subseteq Goals /\ top \subseteq Top /\ awake2 \subseteq Goals
      /\ pc \in [Goals -> Labels] /\ waitees \in [Goals -> SUBSET Goals]
  BY WorkerAssumption DEF TypeInv, TypeOK, GoalTypeOK, WorkerTypeOK
<1>b. KindsOK /\ ListsOK
  BY DEF TypeInv, SchedulerOK
<1>c. waitees' \in [Goals -> SUBSET Goals] /\ top' \subseteq Top
  BY StepKeepsTypes DEF TypeInv, TypeOK, GoalTypeOK, WorkerTypeOK
<1> DEFINE R == Reachable(waitees, top)
           Rn == Reachable(waitees', top')
<1>d. /\ top \subseteq R /\ R \subseteq Goals /\ \A h \in R : waitees[h] \subseteq R
      /\ \A Y \in SUBSET Goals : top \subseteq Y /\ (\A h \in Y : waitees[h] \subseteq Y) => R \subseteq Y
  <2>1. top \in SUBSET Goals
    BY <1>a
  <2> QED BY <1>a, <2>1, ReachableFacts
<1>e. top' \subseteq Rn /\ Rn \subseteq Goals /\ \A h \in Rn : waitees'[h] \subseteq Rn
  <2>1. top' \in SUBSET Goals
    BY <1>a, <1>c
  <2> QED BY <1>c, <2>1, ReachableFacts
<1>f. /\ settings.keepGoing => Existing \subseteq R /\ doomed = {}
      /\ loop = "ended" => top = {}
  BY DEF AllWanted
<1>g. ASSUME settings' = settings, settings.keepGoing => Existing' \subseteq Rn /\ doomed' = {},
             loop' = "ended" => top' = {}
      PROVE  AllWanted'
  BY <1>g DEF AllWanted
<1> HIDE DEF R, Rn
<1>1. ASSUME NEW g \in Goals, Awaits(g) PROVE AllWanted'
  <2>1. PICK S \in SUBSET Goals, label \in WaitLabels :
            Await(g, S, label) /\ pc[g] \in {"start", "info", "resolve", "resolved"}
    BY <1>b, <1>1, AwaitsGoals
  <2>2. /\ \A h \in Goals : pc'[h] = IF h = g THEN label ELSE IF h \in S /\ pc[h] = "none" THEN "start" ELSE pc[h]
        /\ \A h \in Goals : waitees'[h] = IF h = g THEN S ELSE waitees[h]
        /\ UNCHANGED <<settings, top, doomed, loop>>
    BY <1>a, <2>1 DEF Await
  <2>3. waitees[g] = {}
    BY <1>b, <1>1 DEF Awaits, Runs, ListsOK, OnOneList
  <2>4. R \subseteq Rn
    <3>1. \A h \in Rn : waitees[h] \subseteq Rn
      BY <1>e, <2>2, <2>3
    <3> QED BY <1>d, <1>e, <2>2, <3>1
  <2>5. ASSUME settings.keepGoing, NEW h \in Existing' PROVE h \in Rn
    <3>1. h \in Goals /\ pc'[h] # "none"
      BY <2>5 DEF Existing
    <3>2. g \in Rn
      BY <1>f, <2>1, <2>4, <2>5 DEF Existing
    <3>3. CASE h = g
      BY <3>2, <3>3
    <3>4. CASE h \in S
      BY <1>e, <2>2, <3>2, <3>4
    <3>5. CASE h # g /\ h \notin S
      BY <1>f, <2>2, <2>4, <2>5, <3>1, <3>5 DEF Existing
    <3> QED BY <3>3, <3>4, <3>5
  <2> QED BY <1>f, <1>g, <2>2, <2>5
<1>2. ASSUME NEW g \in Goals, Ends(g) PROVE AllWanted'
  <2>1. PICK code \in Codes : AmDone(g, code)
    BY <1>2 DEF Ends
  <2>2. loop = "run" /\ waitees[g] = {}
    BY <1>b, <1>2 DEF Ends, Runs, ListsOK, OnOneList
  <2>3. /\ \A h \in Goals : pc'[h] = IF h = g THEN "none" ELSE pc[h]
        /\ UNCHANGED <<settings, loop>>
        /\ doomed' = Existing' \ Reachable(waitees', Top \cup awake2)
    BY <1>a, <2>1 DEF AmDone, Goto, Existing
  <2>4. ASSUME settings.keepGoing PROVE Existing' \subseteq Rn /\ doomed' = {}
    <3>1. top' = top \ {g} /\ \A h \in Goals : waitees'[h] = waitees[h] \ {g}
      BY <2>1, <2>4 DEF AmDone, RemoveGoal, CutShort
    <3>2. R \subseteq Rn \cup {g}
      <4>1. Rn \cup {g} \in SUBSET Goals /\ top \subseteq Rn \cup {g}
        BY <1>e, <3>1
      <4>2. \A h \in Rn \cup {g} : waitees[h] \subseteq Rn \cup {g}
        BY <1>e, <2>2, <3>1
      <4> QED BY <1>d, <4>1, <4>2
    <3>3. Existing' \subseteq Rn
      BY <1>f, <2>3, <2>4, <3>2 DEF Existing
    <3>4. Rn \subseteq Reachable(waitees', Top \cup awake2)
      <4>1. Top \cup awake2 \in SUBSET Goals /\ top' \in SUBSET Goals
        BY <1>a, <1>c
      <4> DEFINE Y == Reachable(waitees', Top \cup awake2)
      <4>2. Top \cup awake2 \subseteq Y /\ Y \in SUBSET Goals /\ \A h \in Y : waitees'[h] \subseteq Y
        BY <1>c, <4>1, ReachableFacts
      <4>3. top' \subseteq Y
        BY <1>c, <4>2
      <4> HIDE DEF Y
      <4>4. Rn \subseteq Y
        BY <1>c, <4>1, <4>2, <4>3, ReachableFacts DEF Rn
      <4> QED BY <4>4 DEF Y
    <3> QED BY <2>3, <3>3, <3>4
  <2> QED BY <1>g, <2>2, <2>3, <2>4
<1>3. CASE EndRound
  <2>1. UNCHANGED <<settings, pc, waitees, top, loop>> /\ doomed' = Existing \ Reachable(waitees, Top)
    BY <1>3 DEF EndRound, links, Existing
  <2>2. R \subseteq Reachable(waitees, Top)
    <3> DEFINE Y == Reachable(waitees, Top)
    <3>1. Top \subseteq Y /\ Y \in SUBSET Goals /\ \A h \in Y : waitees[h] \subseteq Y
      BY <1>a, ReachableFacts
    <3>2. top \subseteq Y
      BY <1>a, <3>1
    <3> HIDE DEF Y
    <3>3. R \subseteq Y
      BY <1>d, <3>1, <3>2
    <3> QED BY <3>3 DEF Y
  <2>3. Existing' = Existing /\ Rn = R
    BY <2>1 DEF Existing, R, Rn
  <2> QED BY <1>f, <1>g, <2>1, <2>2, <2>3
<1>4. ASSUME NEW g \in Goals, Destroy(g) PROVE AllWanted'
  <2>1. UNCHANGED <<settings, top, loop>> /\ doomed # {}
    BY <1>4 DEF Destroy
  <2> QED BY <1>f, <1>g, <2>1
<1>5. ASSUME UNCHANGED <<settings, waitees, top, doomed>>, Existing' \subseteq Existing,
             loop' = "ended" => loop = "ended" \/ top = {}
      PROVE  AllWanted'
  <2>1. Rn = R
    BY <1>5 DEF R, Rn
  <2> QED BY <1>f, <1>g, <1>5, <2>1
<1>6. ASSUME NEW g \in Goals, Yields(g) \/ Queries(g) \/ GivesUp(g) \/ Waits(g) \/ Starts(g) \/ Finishes(g)
      PROVE  AllWanted'
  <2>1. UNCHANGED <<settings, waitees, top, doomed, loop>>
    BY <1>6 DEF Yields, Queries, GivesUp, Waits, Starts, Finishes, Yield, QueryPathInfo, SubstWait, BuildWait, OutputsLocked, NoBuildUser, SubstRun, StartBuild, SubstFinished, BuildDone, links
  <2>2. \A h \in Goals : h # g => pc'[h] = pc[h]
    BY <1>a, <1>6 DEF Yields, Queries, GivesUp, Waits, Starts, Finishes, Yield, QueryPathInfo, SubstWait, BuildWait, OutputsLocked, NoBuildUser, SubstRun, StartBuild, SubstFinished, BuildDone, Goto
  <2>3. pc[g] # "none"
    BY <1>6 DEF Yields, Queries, GivesUp, Waits, Starts, Finishes, SubstWait, BuildWait, OutputsLocked, NoBuildUser, SubstRun, StartBuild, SubstFinished, BuildDone, At
  <2>4. Existing' \subseteq Existing
    BY <2>2, <2>3 DEF Existing
  <2> QED BY <1>5, <2>1, <2>4
<1>7. ASSUME UNCHANGED <<settings, pc, waitees, top, doomed>>, loop' = "ended" => loop = "ended" \/ top = {}
      PROVE  AllWanted'
  BY <1>5, <1>7 DEF Existing
<1>8. ASSUME NEW g \in Goals, Throws(g) \/ QueryDone(g) \/ CopyDone(g) \/ Notify(g) \/ BuilderExits(g) PROVE AllWanted'
  BY <1>7, <1>8 DEF Throws, QueryDone, CopyDone, Notify, BuilderExits, Enqueue, links
<1>9. ASSUME NEW x \in Paths, ForeignLocks(x) \/ ForeignBuilt(x) PROVE AllWanted'
  BY <1>7, <1>9 DEF ForeignLocks, ForeignBuilt, links
<1>10. CASE StartRound \/ Work \/ RunEnds \/ WaitForInput \/ UNCHANGED vars
  BY <1>7, <1>10 DEF StartRound, Work, RunEnds, WaitForInput, vars, links
<1> QED BY <1>1, <1>2, <1>3, <1>4, <1>6, <1>8, <1>9, <1>10, Steps

LEMMA InitWanted == Init => AllWanted
<1> SUFFICES ASSUME Init PROVE AllWanted
  OBVIOUS
<1>1. waitees \in [Goals -> SUBSET Goals] /\ top \in SUBSET Goals
  BY WorkerAssumption DEF Init
<1>2. top \subseteq Reachable(waitees, top)
  BY <1>1, ReachableFacts
<1>3. Existing \subseteq top
  BY DEF Init, Existing
<1>4. doomed = {} /\ loop = "run"
  BY DEF Init
<1> QED BY <1>2, <1>3, <1>4 DEF AllWanted

(* With --keep-going no goal is left when run() returns.                   *)
LEMMA NoneLeftOver ==
    ASSUME TypeInv, AllWanted, loop = "ended", settings.keepGoing
    PROVE  \A g \in Goals : pc[g] = "none"
<1>1. waitees \in [Goals -> SUBSET Goals] /\ top = {}
  BY DEF TypeInv, TypeOK, GoalTypeOK, AllWanted
<1>2. Reachable(waitees, {}) \subseteq {}
  <2>1. {} \in SUBSET Goals /\ {} \subseteq {} /\ \A h \in {} : waitees[h] \subseteq {}
    OBVIOUS
  <2> QED BY <1>1, <2>1, ReachableFacts
<1> QED BY <1>1, <1>2 DEF AllWanted, Existing

(* The assertions at the end of run() with --keep-going: for any graph of  *)
(* goals and any failures, when the top-level goals are done no goal is    *)
(* awake, waits for a build slot or has a child.                           *)
THEOREM KeepGoingCleanHolds == Spec => []KeepGoingClean
<1>1. Init => TypeInv /\ SchedulerOK /\ AllWanted
  BY InitTypes, InitScheduler, InitWanted
<1>2. TypeInv /\ SchedulerOK /\ AllWanted /\ [Next]_vars => (TypeInv /\ SchedulerOK /\ AllWanted)'
  BY StepKeepsTypes, StepKeepsScheduler, StepKeepsWanted
<1>3. TypeInv /\ SchedulerOK /\ AllWanted => KeepGoingClean
  <2> SUFFICES ASSUME TypeInv, SchedulerOK, AllWanted, loop = "ended", settings.keepGoing
               PROVE  awake = {} /\ wanting["build"] = {} /\ children = {}
    BY DEF KeepGoingClean
  <2>3. \A g \in Goals : pc[g] = "none"
    BY NoneLeftOver
  <2>4. awake \subseteq Goals /\ wanting["build"] \subseteq Goals /\ children \subseteq Goals
    BY DEF TypeInv, TypeOK, WorkerTypeOK, Categories
  <2>5. \A g \in Goals : g \notin awake /\ g \notin wanting["build"]
    BY <2>3 DEF SchedulerOK, ListsOK, OnOneList
  <2>6. \A g \in Goals : g \notin children
    BY <2>3 DEF TypeInv, ChildrenOK
  <2> QED BY <2>4, <2>5, <2>6
<1> QED BY <1>1, <1>2, <1>3, PTL DEF Spec
-----------------------------------------------------------------------------
(* Results: a success is true and stays so, and with --keep-going, where   *)
(* no goal is dropped, a top-level goal ends with a result.                *)
ResultsOK ==
    /\ \A g \in Goals : exitCode[g] = "success" => Path[g] \in valid
    /\ settings.keepGoing => \A g \in Top : pc[g] = "none" => exitCode[g] # "busy"

(* A goal that says it succeeded has its path valid.                       *)
LEMMA SuccessIsValid ==
    ASSUME TypeInv, SchedulerOK, InputsOK, NEW g \in Goals, Runs(g), Succeeds(g)
    PROVE  Path[g] \in valid
<1>1. CASE IsValid(g) \/ pc[g] = "succeeded"
  BY <1>1 DEF InputsOK, InputsOf, IsValid, Succeeds
<1>2. CASE pc[g] = "built" /\ ~SomeFailed(g)
  <2>1. waitees[g] = {}
    BY DEF SchedulerOK, ListsOK, OnOneList, Runs
  <2> QED BY <1>2, <2>1 DEF InputsOK, InputsOf, SomeFailed
<1> QED BY <1>1, <1>2 DEF Succeeds

LEMMA StepKeepsResults ==
    ASSUME TypeInv, SchedulerOK, InputsOK, AllWanted, ResultsOK, [Next]_vars
    PROVE  ResultsOK'
<1>a. /\ Top \subseteq Goals /\ pc \in [Goals -> Labels]
      /\ exitCode \in [Goals -> {"busy", "success", "failed", "nosubst"}]
  BY WorkerAssumption DEF TypeInv, TypeOK, GoalTypeOK
<1>b. KindsOK
  BY DEF TypeInv
<1>c. valid \subseteq valid'
  BY ValidGrows
<1>1. ASSUME NEW g \in Goals, Ends(g) PROVE ResultsOK'
  <2>1. PICK code \in Codes : AmDone(g, code) /\ (code = "success" => Succeeds(g))
    BY <1>1 DEF Ends
  <2>2. /\ settings' = settings /\ pc' = [pc EXCEPT ![g] = "none"]
        /\ exitCode' = [exitCode EXCEPT ![g] = code]
    BY <2>1 DEF AmDone, Goto
  <2>3. code = "success" => Path[g] \in valid
    BY <1>1, <2>1, SuccessIsValid DEF Ends
  <2>4. code # "busy"
    BY DEF Codes
  <2> QED BY <1>a, <1>c, <2>2, <2>3, <2>4 DEF ResultsOK
<1>2. ASSUME NEW g \in Goals, Awaits(g) PROVE ResultsOK'
  <2>1. PICK S \in SUBSET Goals, label \in WaitLabels : Await(g, S, label)
    BY <1>b, <1>2, AwaitsGoals
  <2>2. /\ settings' = settings
        /\ pc' = [h \in Goals |-> IF h = g THEN label ELSE IF h \in S /\ pc[h] = "none" THEN "start" ELSE pc[h]]
        /\ exitCode' = [h \in Goals |-> IF h \in S /\ pc[h] = "none" THEN "busy" ELSE exitCode[h]]
    BY <2>1 DEF Await
  <2>3. label # "none"
    BY DEF WaitLabels
  <2> QED BY <1>a, <1>c, <2>2, <2>3 DEF ResultsOK
<1>3. ASSUME NEW g \in Goals, Destroy(g) PROVE ResultsOK'
  <2>1. settings' = settings /\ exitCode' = exitCode /\ g \in doomed
    BY <1>3 DEF Destroy
  <2>2. ~settings.keepGoing
    BY <2>1 DEF AllWanted
  <2> QED BY <1>c, <2>1, <2>2 DEF ResultsOK
<1>4. ASSUME NEW g \in Goals, Yields(g) \/ Queries(g) \/ GivesUp(g) \/ Waits(g) \/ Starts(g) \/ Finishes(g)
      PROVE  ResultsOK'
  <2>1. settings' = settings /\ exitCode' = exitCode
    BY <1>4 DEF Yields, Queries, GivesUp, Waits, Starts, Finishes, Yield, QueryPathInfo, SubstWait, BuildWait, OutputsLocked, NoBuildUser, SubstRun, StartBuild, SubstFinished, BuildDone
  <2>2. \A h \in Goals : h # g => pc'[h] = pc[h]
    BY <1>a, <1>4 DEF Yields, Queries, GivesUp, Waits, Starts, Finishes, Yield, QueryPathInfo, SubstWait, BuildWait, OutputsLocked, NoBuildUser, SubstRun, StartBuild, SubstFinished, BuildDone, Goto
  <2>3. pc'[g] # "none"
    BY <1>a, <1>4 DEF Yields, Queries, GivesUp, Waits, Starts, Finishes, Yield, QueryPathInfo, SubstWait, BuildWait, OutputsLocked, NoBuildUser, SubstRun, StartBuild, SubstFinished, BuildDone, Goto, At
  <2> QED BY <1>a, <1>c, <2>1, <2>2, <2>3 DEF ResultsOK
<1>5. ASSUME UNCHANGED <<settings, pc, exitCode>> PROVE ResultsOK'
  BY <1>c, <1>5 DEF ResultsOK
<1> QED BY <1>1, <1>2, <1>3, <1>4, <1>5, Steps, OthersLeaveGoals

(* What Store::buildPaths reports is true, for any graph of goals, any     *)
(* failures and any other processes: a goal with exit code ecSuccess has   *)
(* its path valid, and with --keep-going no goal that was asked for is     *)
(* left busy when run() returns.                                           *)
THEOREM ResultsTrueHolds == Spec => []ResultsTrue
<1> DEFINE I == TypeInv /\ SchedulerOK /\ InputsOK /\ AllWanted /\ ResultsOK
<1>1. Init => I
  <2>1. ASSUME Init PROVE InputsOK /\ ResultsOK
    <3>1. Top \subseteq Goals
      BY WorkerAssumption
    <3> QED BY <2>1, <3>1 DEF Init, InputsOK, InputsOf, ResultsOK
  <2> QED BY <2>1, InitTypes, InitScheduler, InitWanted
<1>2. I /\ [Next]_vars => I'
  BY StepKeepsTypes, StepKeepsScheduler, StepKeepsInputs, StepKeepsWanted, StepKeepsResults
<1>3. I => ResultsTrue
  <2> SUFFICES ASSUME I PROVE ResultsTrue
    OBVIOUS
  <2>1. ASSUME loop = "ended", settings.keepGoing, NEW g \in Top PROVE exitCode[g] # "busy"
    <3>1. g \in Goals /\ pc[g] = "none"
      BY <2>1, NoneLeftOver, WorkerAssumption
    <3> QED BY <2>1, <3>1 DEF ResultsOK
  <2> QED BY <2>1 DEF ResultsTrue, ResultsOK, IsValid
<1> QED BY <1>1, <1>2, <1>3, PTL DEF Spec
-----------------------------------------------------------------------------
(* The goals that goal g may ever wait for.                                *)
Needs(g) == {h \in Goals : h \in Deps[g] \/ h = SubstOf[g] \/ h = BuildOf[g]}

(* No cycle of goals: each set of goals has one that needs no other of it. *)
Acyclic == \A T \in SUBSET Goals : T # {} => \E g \in T : Needs(g) \cap T = {}

(* Goals wait for goals that exist.                                        *)
WaitsOK ==
    /\ top \subseteq Existing /\ doomed \cap Top = {}
    /\ \A h \in Goals : waitees[h] \subseteq Needs(h)
    /\ \A h \in Goals \ doomed : waitees[h] \subseteq Existing

LEMMA AwaitsNeeded ==
    ASSUME KindsOK, NEW g \in Goals, Awaits(g)
    PROVE  \E S \in SUBSET Needs(g), label \in WaitLabels : Await(g, S, label)
<1> USE WorkerAssumption DEF WaitLabels, Needs
<1>1. CASE Await(g, {SubstOf[g]} \ {NoGoal}, "substituted")
  <2>1. {SubstOf[g]} \ {NoGoal} \in SUBSET Needs(g)
    OBVIOUS
  <2> QED BY <1>1, <2>1
<1>2. CASE Await(g, Deps[g], "refs") \/ Await(g, Deps[g], "resolved")
  <2>1. Deps[g] \in SUBSET Needs(g)
    OBVIOUS
  <2> QED BY <1>2, <2>1
<1>3. CASE pc[g] = "resolved" /\ Await(g, {BuildOf[g]}, "built")
  <2>1. BuildOf[g] \in Goals
    BY <1>3 DEF KindsOK, DrvLabels
  <2>2. {BuildOf[g]} \in SUBSET Needs(g)
    BY <2>1
  <2> QED BY <1>3, <2>2
<1>4. CASE Await(g, {h \in Deps[g] : ~IsValid(h)}, "inputs")
  <2>1. {h \in Deps[g] : ~IsValid(h)} \in SUBSET Needs(g)
    OBVIOUS
  <2> QED BY <1>4, <2>1
<1> QED BY <1>1, <1>2, <1>3, <1>4 DEF Awaits

LEMMA StepKeepsWaits ==
    ASSUME TypeInv, SchedulerOK, WaitsOK, [Next]_vars
    PROVE  WaitsOK'
<1>a. /\ Top \subseteq Goals /\ top \subseteq Top /\ awake2 \subseteq Goals
      /\ pc \in [Goals -> Labels] /\ waitees \in [Goals -> SUBSET Goals]
  BY WorkerAssumption DEF TypeInv, TypeOK, GoalTypeOK, WorkerTypeOK
<1>b. KindsOK /\ ListsOK /\ LinksOK /\ DoomedOK
  BY DEF TypeInv, SchedulerOK
<1>c. waitees' \in [Goals -> SUBSET Goals]
  BY StepKeepsTypes DEF TypeInv, TypeOK, GoalTypeOK
<1>d. /\ top \subseteq Existing /\ doomed \cap Top = {}
      /\ \A h \in Goals : waitees[h] \subseteq Needs(h)
      /\ \A h \in Goals \ doomed : waitees[h] \subseteq Existing
  BY DEF WaitsOK
<1>1. ASSUME NEW g \in Goals, Awaits(g) PROVE WaitsOK'
  <2>1. PICK S \in SUBSET Needs(g), label \in WaitLabels : Await(g, S, label)
    BY <1>b, <1>1, AwaitsNeeded
  <2>2. S \subseteq Goals
    BY DEF Needs
  <2>3. /\ \A h \in Goals : pc'[h] = IF h = g THEN label ELSE IF h \in S /\ pc[h] = "none" THEN "start" ELSE pc[h]
        /\ \A h \in Goals : waitees'[h] = IF h = g THEN S ELSE waitees[h]
        /\ UNCHANGED <<top, doomed>>
    BY <1>a, <2>1 DEF Await
  <2>4. Existing \subseteq Existing' /\ S \subseteq Existing'
    BY <2>2, <2>3 DEF Existing, WaitLabels
  <2>5. \A h \in Goals : waitees'[h] \subseteq Needs(h)
    BY <1>d, <2>3
  <2>6. \A h \in Goals \ doomed' : waitees'[h] \subseteq Existing'
    BY <1>d, <2>3, <2>4
  <2> QED BY <1>d, <2>3, <2>4, <2>5, <2>6 DEF WaitsOK, Needs
<1>2. ASSUME NEW g \in Goals, Ends(g) PROVE WaitsOK'
  <2>1. PICK code \in Codes : AmDone(g, code)
    BY <1>2 DEF Ends
  <2>2. doomed = {}
    BY <1>2 DEF Ends, Runs
  <2>3. /\ \A h \in Goals : pc'[h] = IF h = g THEN "none" ELSE pc[h]
        /\ \A h \in Goals : waitees'[h] \subseteq waitees[h] \ {g}
        /\ top' \subseteq top \ {g}
        /\ doomed' = Existing' \ Reachable(waitees', Top \cup awake2)
    BY <1>a, <2>1 DEF AmDone, RemoveGoal, Goto, Existing
  <2>4. Existing' = Existing \ {g}
    BY <2>3 DEF Existing
  <2>5. Top \subseteq Reachable(waitees', Top \cup awake2)
    <3>1. Top \cup awake2 \in SUBSET Goals
      BY <1>a
    <3>2. Top \cup awake2 \subseteq Reachable(waitees', Top \cup awake2)
      BY <1>c, <3>1, ReachableFacts
    <3> QED BY <3>2
  <2>6. \A h \in Goals : waitees'[h] \subseteq Needs(h) /\ waitees'[h] \subseteq Existing'
    BY <1>d, <2>2, <2>3, <2>4
  <2>7. top' \subseteq Existing' /\ doomed' \cap Top = {}
    BY <1>d, <2>3, <2>4, <2>5
  <2> QED BY <2>6, <2>7 DEF WaitsOK, Needs
<1>3. CASE EndRound
  <2>1. UNCHANGED <<pc, waitees, top>> /\ doomed = {} /\ doomed' = Existing \ Reachable(waitees, Top)
    BY <1>3 DEF EndRound, links, Existing, Idle
  <2>2. Top \subseteq Reachable(waitees, Top)
    BY <1>a, ReachableFacts
  <2>3. Existing' = Existing
    BY <2>1 DEF Existing
  <2>4. doomed' \cap Top = {}
    BY <2>1, <2>2
  <2> QED BY <1>d, <2>1, <2>3, <2>4 DEF WaitsOK, Needs
<1>4. ASSUME NEW g \in Goals, Destroy(g) PROVE WaitsOK'
  <2>1. /\ g \in doomed /\ doomed' = doomed \ {g} /\ top' = top
        /\ \A h \in Goals : pc'[h] = IF h = g THEN "none" ELSE pc[h]
        /\ \A h \in Goals : waitees'[h] = IF h = g THEN {} ELSE waitees[h]
    BY <1>a, <1>4 DEF Destroy, Goto
  <2>2. Existing' = Existing \ {g}
    BY <2>1 DEF Existing
  <2>3. ASSUME NEW h \in Goals \ doomed' PROVE waitees'[h] \subseteq Existing'
    <3>1. CASE h = g
      BY <2>1, <3>1
    <3>2. CASE h # g
      <4>1. h \notin doomed /\ g \notin waitees[h]
        BY <1>b, <2>1, <3>2 DEF DoomedOK
      <4> QED BY <1>d, <2>1, <2>2, <3>2, <4>1
    <3> QED BY <3>1, <3>2
  <2>4. top' \subseteq Existing' /\ doomed' \cap Top = {}
    BY <1>a, <1>d, <2>1, <2>2
  <2>5. \A h \in Goals : waitees'[h] \subseteq Needs(h)
    BY <1>d, <2>1
  <2> QED BY <2>3, <2>4, <2>5 DEF WaitsOK, Needs
<1>5. ASSUME UNCHANGED <<waitees, top, doomed>>, Existing' = Existing PROVE WaitsOK'
  BY <1>d, <1>5 DEF WaitsOK, Needs
<1>6. ASSUME NEW g \in Goals, Yields(g) \/ Queries(g) \/ GivesUp(g) \/ Waits(g) \/ Starts(g) \/ Finishes(g)
      PROVE  WaitsOK'
  <2>1. UNCHANGED <<waitees, top, doomed>>
    BY <1>6 DEF Yields, Queries, GivesUp, Waits, Starts, Finishes, Yield, QueryPathInfo, SubstWait, BuildWait, OutputsLocked, NoBuildUser, SubstRun, StartBuild, SubstFinished, BuildDone, links
  <2>2. \A h \in Goals : h # g => pc'[h] = pc[h]
    BY <1>a, <1>6 DEF Yields, Queries, GivesUp, Waits, Starts, Finishes, Yield, QueryPathInfo, SubstWait, BuildWait, OutputsLocked, NoBuildUser, SubstRun, StartBuild, SubstFinished, BuildDone, Goto
  <2>3. pc[g] # "none" /\ pc'[g] # "none"
    BY <1>a, <1>6 DEF Yields, Queries, GivesUp, Waits, Starts, Finishes, Yield, QueryPathInfo, SubstWait, BuildWait, OutputsLocked, NoBuildUser, SubstRun, StartBuild, SubstFinished, BuildDone, Goto, At
  <2>4. Existing' = Existing
    BY <2>2, <2>3 DEF Existing
  <2> QED BY <1>5, <2>1, <2>4
<1>7. ASSUME UNCHANGED <<pc, waitees, top, doomed>> PROVE WaitsOK'
  BY <1>5, <1>7 DEF Existing
<1>8. ASSUME NEW g \in Goals, Throws(g) \/ QueryDone(g) \/ CopyDone(g) \/ Notify(g) \/ BuilderExits(g) PROVE WaitsOK'
  BY <1>7, <1>8 DEF Throws, QueryDone, CopyDone, Notify, BuilderExits, Enqueue, links
<1>9. ASSUME NEW x \in Paths, ForeignLocks(x) \/ ForeignBuilt(x) PROVE WaitsOK'
  BY <1>7, <1>9 DEF ForeignLocks, ForeignBuilt, links
<1>10. CASE StartRound \/ Work \/ RunEnds \/ WaitForInput \/ UNCHANGED vars
  BY <1>7, <1>10 DEF StartRound, Work, RunEnds, WaitForInput, vars, links
<1> QED BY <1>1, <1>2, <1>3, <1>4, <1>6, <1>8, <1>9, <1>10, Steps

LEMMA InitWaits ==
    ASSUME Init
    PROVE  WaitsOK
  BY WorkerAssumption DEF Init, WaitsOK, Existing

(* run() has nothing to resume and expects nothing only when a goal waits  *)
(* for a slot.                                                             *)
StuckForSlot == Waiting /\ ~Expecting => \E c \in Categories : wanting[c] # {}

LEMMA SomeGoalQueued ==
    ASSUME Acyclic, TypeInv, SchedulerOK, WaitsOK
    PROVE  StuckForSlot
<1> SUFFICES ASSUME Waiting, ~Expecting PROVE \E c \in Categories : wanting[c] # {}
  BY DEF StuckForSlot
<1>1. /\ running = NoGoal /\ doomed = {} /\ awake = {} /\ todo = {} /\ top # {}
      /\ children = {} /\ aWhile = {} /\ completion = {}
  BY DEF Waiting, Idle, Expecting, TypeInv, TypeOK, WorkerTypeOK
<1>2. Existing \in SUBSET Goals /\ Existing # {}
  BY <1>1 DEF WaitsOK, Existing
<1>3. PICK g \in Existing : Needs(g) \cap Existing = {}
  BY <1>2 DEF Acyclic
<1>4. g \in Goals /\ pc[g] # "none" /\ g # running
  BY <1>1, <1>3, WorkerAssumption DEF Existing
<1>5. waitees[g] = {}
  BY <1>1, <1>3, <1>4 DEF WaitsOK
<1>6. pc[g] # "building"
  BY <1>1, <1>4 DEF TypeInv, ChildrenOK
<1>7. g \in wanting["subst"] \cup wanting["build"]
  BY <1>1, <1>4, <1>5, <1>6 DEF SchedulerOK, NoneForgotten
<1> QED BY <1>7 DEF Categories

(* Where the goals form no cycle, the assertion !awake.empty() of run()    *)
(* can fail only while goals are queued for a slot: no chain of goals that *)
(* wait for goals ends in one that nothing will resume.                    *)
THEOREM StuckOnlyForSlots ==
    ASSUME Acyclic
    PROVE  Spec => []StuckForSlot
<1>1. Init => TypeInv /\ SchedulerOK /\ WaitsOK
  BY InitTypes, InitScheduler, InitWaits
<1>2. TypeInv /\ SchedulerOK /\ WaitsOK /\ [Next]_vars => (TypeInv /\ SchedulerOK /\ WaitsOK)'
  BY StepKeepsTypes, StepKeepsScheduler, StepKeepsWaits
<1>3. TypeInv /\ SchedulerOK /\ WaitsOK => StuckForSlot
  BY SomeGoalQueued
<1> QED BY <1>1, <1>2, <1>3, PTL DEF Spec

(* A slot for each goal that may ask for one.                              *)
EnoughSlots ==
    \A s \in Settings :
        /\ Cardinality(Having(Goals, "build")) <= s.maxBuildJobs
        /\ Cardinality(Having(Goals, "subst")) <= s.maxSubstitutionJobs

NoneQueued == \A c \in Categories : wanting[c] = {}

LEMMA EnoughForAll ==
    ASSUME EnoughSlots, TypeInv, NEW c \in Categories, NEW g \in Goals, Kind[g] = c, g \notin children
    PROVE  SlotFree(c)
<1>1. settings \in Settings /\ children \in SUBSET Goals /\ nr[c] = Cardinality(Having(children, c)) /\ nr[c] \in Nat
  BY DEF TypeInv, TypeOK, WorkerTypeOK, SlotsOK
<1>2. Cardinality(Having(Goals, c)) <= Limit(c)
  <2>1. settings.maxSubstitutionJobs \in Nat /\ settings.maxBuildJobs \in Nat
    BY <1>1, WorkerAssumption
  <2>2. Max({1, settings.maxSubstitutionJobs}) \in Nat /\ settings.maxSubstitutionJobs <= Max({1, settings.maxSubstitutionJobs})
    <3> DEFINE n == settings.maxSubstitutionJobs
    <3>1. \E x \in {1, n} : \A y \in {1, n} : x >= y
      BY <2>1
    <3> QED BY <2>1, <3>1 DEF Max
  <2>3. Cardinality(Having(Goals, c)) \in Nat
    BY CountChildren
  <2> QED BY <1>1, <2>1, <2>2, <2>3 DEF EnoughSlots, Limit, Categories
<1>3. Cardinality(Having(children \cup {g}, c)) = Cardinality(Having(children, c)) + 1
  BY <1>1, CountChildren
<1>4. Cardinality(Having(children \cup {g}, c)) <= Cardinality(Having(Goals, c))
  <2>1. Having(children \cup {g}, c) \subseteq Having(Goals, c)
    BY <1>1 DEF Having
  <2>2. IsFiniteSet(Having(Goals, c))
    BY WorkerAssumption, FS_Subset DEF Having
  <2> QED BY <2>1, <2>2, FS_Subset
<1>5. Cardinality(Having(Goals, c)) \in Nat /\ Limit(c) \in Nat
  BY <1>1, CountChildren, LimitType
<1>6. nr[c] < Limit(c)
  BY <1>1, <1>2, <1>3, <1>4, <1>5
<1> QED BY <1>6 DEF SlotFree, Limit

LEMMA StepKeepsNoneQueued ==
    ASSUME EnoughSlots, TypeInv, NoneQueued, [Next]_vars
    PROVE  NoneQueued'
<1>a. wanting \in [Categories -> SUBSET Goals] /\ TypeOK /\ KindsOK /\ ChildrenOK
  BY DEF TypeInv, TypeOK, WorkerTypeOK
<1>1. ASSUME NEW g \in Goals, SubstWait(g) \/ BuildWait(g) PROVE FALSE
  <2>1. PICK c \in Categories : Kind[g] = c /\ g \notin children /\ ~SlotFree(c)
    BY <1>a, <1>1 DEF SubstWait, BuildWait, At, KindsOK, ChildrenOK, SubstLabels, BuildLabels, Categories
  <2> QED BY <2>1, EnoughForAll
<1>2. ASSUME NEW g \in Goals, Finishes(g) PROVE NoneQueued'
  <2>1. PICK c \in Categories : ChildTerminated(g, c)
    BY <1>2 DEF Finishes, SubstFinished, BuildDone, Categories
  <2>2. PICK W : wanting' = [wanting EXCEPT ![c] = @ \ W]
    BY <2>1 DEF ChildTerminated
  <2> QED BY <1>a, <2>2 DEF NoneQueued
<1>3. ASSUME NEW g \in Goals, Destroy(g) PROVE NoneQueued'
  <2>1. PICK W : wanting' = [c \in Categories |-> wanting[c] \ (W \cup {g})]
    BY <1>3 DEF Destroy
  <2> QED BY <2>1 DEF NoneQueued
<1>4. ASSUME UNCHANGED wanting PROVE NoneQueued'
  BY <1>4 DEF NoneQueued
<1>5. ASSUME NEW g \in Goals,
             \/ Ends(g) \/ Awaits(g) \/ Yields(g) \/ Queries(g) \/ Throws(g) \/ GivesUp(g) \/ Starts(g)
             \/ OutputsLocked(g) \/ NoBuildUser(g) \/ QueryDone(g) \/ CopyDone(g) \/ Notify(g) \/ BuilderExits(g)
      PROVE  UNCHANGED wanting
  BY <1>5 DEF Ends, Awaits, Yields, Queries, Throws, GivesUp, Starts, AmDone, Await, Yield, QueryPathInfo, OutputsLocked, NoBuildUser, SubstRun, StartBuild, QueryDone, CopyDone, Enqueue, Notify, BuilderExits, lists
<1>6. CASE StartRound \/ Work \/ EndRound \/ RunEnds \/ WaitForInput \/ UNCHANGED vars
  BY <1>4, <1>6 DEF StartRound, Work, EndRound, RunEnds, WaitForInput, vars, lists
<1>7. ASSUME NEW x \in Paths, ForeignLocks(x) \/ ForeignBuilt(x) PROVE UNCHANGED wanting
  BY <1>7 DEF ForeignLocks, ForeignBuilt, lists
<1> QED BY <1>1, <1>2, <1>3, <1>4, <1>5, <1>6, <1>7, Steps DEF Waits

(* The assertion !awake.empty() never fails if there is no cycle of goals  *)
(* and a slot for each goal.  With fewer slots it may: worker_stuck.       *)
THEOREM NeverStuckWithSlots ==
    ASSUME Acyclic, EnoughSlots
    PROVE  Spec => []NeverStuck
<1>1. Init => TypeInv /\ SchedulerOK /\ WaitsOK /\ NoneQueued
  <2>1. Init => NoneQueued
    BY DEF Init, NoneQueued
  <2> QED BY <2>1, InitTypes, InitScheduler, InitWaits
<1>2. TypeInv /\ SchedulerOK /\ WaitsOK /\ NoneQueued /\ [Next]_vars => (TypeInv /\ SchedulerOK /\ WaitsOK /\ NoneQueued)'
  BY StepKeepsTypes, StepKeepsScheduler, StepKeepsWaits, StepKeepsNoneQueued
<1>3. TypeInv /\ SchedulerOK /\ WaitsOK /\ NoneQueued => NeverStuck
  BY SomeGoalQueued DEF StuckForSlot, NoneQueued, NeverStuck
<1> QED BY <1>1, <1>2, <1>3, PTL DEF Spec
=============================================================================
