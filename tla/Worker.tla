------------------------------- MODULE Worker -------------------------------
(***************************************************************************)
(* The build scheduler (libstore/build/worker.cc, goal.cc) and the goals   *)
(* it runs: PathSubstitutionGoal, DerivationGoal (with the trampoline and  *)
(* the resolution goal, which only wait for others, folded into it) and    *)
(* DerivationBuildingGoal.  One thread resumes the coroutines of awake     *)
(* goals; a goal runs until it suspends.  Beside it run the threads that   *)
(* query and copy from substituters, the builders, and other Nix           *)
(* processes that build the same paths.                                    *)
(*                                                                         *)
(* Goals are numbers in the order of their keys (CompareGoalPtrs).  There  *)
(* is no build hook, and build mode is bmNormal.                           *)
(***************************************************************************)
EXTENDS Naturals, FiniteSets, FiniteSetsExt

CONSTANTS
    Goals,          \* the goals that can be made, numbered by their keys
    Kind,           \* Kind[g]: "subst", "drv" or "build"
    Path,           \* Path[g]: the store path that g is to make valid
    Deps,           \* Deps[g]: the goals of references, inputs or sources
    SubstOf,        \* SubstOf[d]: the substitution goal of derivation goal d
    BuildOf,        \* BuildOf[d]: its building goal
    Top,            \* the goals that run() is called with
    NoGoal,         \* none, or a pointer that has expired
    Settings,       \* the settings to start with: records with the fields
                    \* keepGoing, tryFallback, maxBuildJobs, maxSubstitutionJobs
    Substituters,   \* number of substituters
    BuildUsers,     \* number of build users
    QueryOutcomes, CopyOutcomes, BuildOutcomes,  \* what may happen outside
    ForeignPaths    \* the paths that another process may be building

Categories == {"subst", "build"}
Paths == {Path[g] : g \in Goals}

ASSUME WorkerAssumption ==
    /\ Goals \subseteq Nat /\ IsFiniteSet(Goals) /\ NoGoal \notin Goals
    /\ Kind \in [Goals -> {"subst", "drv", "build"}]
    /\ Deps \in [Goals -> SUBSET Goals] /\ Top \subseteq Goals
    /\ SubstOf \in [Goals -> Goals \cup {NoGoal}]
    /\ BuildOf \in [Goals -> Goals \cup {NoGoal}]
    /\ \A g \in Goals : Kind[g] = "drv" => BuildOf[g] \in Goals /\ Path[BuildOf[g]] = Path[g]
    /\ Settings \subseteq [keepGoing : BOOLEAN, tryFallback : BOOLEAN,
                           maxBuildJobs : Nat \ {0}, maxSubstitutionJobs : Nat]
    /\ Substituters \in Nat /\ BuildUsers \in Nat \ {0}
    /\ QueryOutcomes \subseteq {"found", "missing", "error"}
    /\ CopyOutcomes \subseteq {"ok", "gone", "failed"}
    /\ BuildOutcomes \subseteq {"ok", "failed", "timeout"}
    /\ ForeignPaths \subseteq Paths

VARIABLES
    settings,
    \* the store and the other processes
    valid,      \* the valid paths
    foreign,    \* foreign[x]: "idle", "building" (with the lock) or "gone"
    \* the goals
    pc,         \* pc[g]: where its coroutine continues, "none": no such object
    exitCode,   \* exitCode[g]: that of the last goal g
    waitees, waiters,
    nrFailed, nrNoSubstituters,
    left,       \* left[g]: substituters not tried yet
    subFailed,  \* the goals with substituterFailed
    \* the Worker
    top,        \* topGoals
    awake,
    awake2,     \* the goals of this round, kept alive until it ends
    todo,       \* those of them still to be resumed
    running,    \* the goal that is running
    doomed,     \* goals without a shared_ptr whose destructor runs next
    wanting,    \* wanting[c]: wantingToSubstitute and wantingToBuild
    aWhile,     \* waitingForAWhile
    completion, \* waitingForCompletion; NoGoal is an expired entry
    children,   \* the goals with a Child in a build slot
    nr,         \* nr[c]: nrSubstitutions and nrLocalBuilds
    loop,       \* "run", "ended" or "threw"
    \* threads and processes
    thread,     \* thread[g]: "query" or "copy", then "notify"
    result,     \* result[g]: what it found
    exited,     \* the children that have closed their pipe
    queue,      \* Waker::wakeupQueue
    pipe        \* Waker::wakeupPipe is readable

world == <<valid, foreign>>
links == <<waitees, waiters, nrFailed, nrNoSubstituters>>
subst == <<left, subFailed>>
rounds == <<awake2, todo>>
lists == <<wanting, aWhile, completion>>
slots == <<children, nr>>
outside == <<thread, result, exited, queue, pipe>>
vars == <<settings, world, pc, exitCode, links, subst, top, awake, rounds, running, doomed,
          lists, slots, loop, outside>>

Labels == {"none", "start", "substituted", "resolve", "resolved", "built", "query", "info", "refs",
           "slot", "copied", "inputs", "trybuild", "local", "building",
           "succeeded", "failed"}

GoalTypeOK ==
    /\ pc \in [Goals -> Labels]
    /\ exitCode \in [Goals -> {"busy", "success", "failed", "nosubst"}]
    /\ waitees \in [Goals -> SUBSET Goals] /\ waiters \in [Goals -> SUBSET Goals]
    /\ nrFailed \in [Goals -> Nat] /\ nrNoSubstituters \in [Goals -> Nat]
    /\ left \in [Goals -> 0..Substituters] /\ subFailed \subseteq Goals

WorkerTypeOK ==
    /\ top \subseteq Top /\ awake \subseteq Goals
    /\ awake2 \subseteq Goals /\ todo \subseteq awake2
    /\ running \in Goals \cup {NoGoal} /\ doomed \subseteq Goals
    /\ wanting \in [Categories -> SUBSET Goals]
    /\ aWhile \subseteq Goals /\ completion \subseteq Goals \cup {NoGoal}
    /\ children \subseteq Goals /\ nr \in [Categories -> Nat]
    /\ loop \in {"run", "ended", "threw"}

OutsideTypeOK ==
    /\ valid \subseteq Paths
    /\ foreign \in [Paths -> {"idle", "building", "gone"}]
    /\ thread \in [Goals -> {"none", "query", "copy", "notify"}]
    /\ result \in [Goals -> {"none"} \cup QueryOutcomes \cup CopyOutcomes \cup BuildOutcomes]
    /\ exited \subseteq Goals /\ queue \subseteq Goals /\ pipe \in BOOLEAN

TypeOK ==
    /\ settings \in Settings
    /\ GoalTypeOK /\ WorkerTypeOK /\ OutsideTypeOK

(* The caller has made the top-level goals, which wakes them.              *)
Init ==
    /\ settings \in Settings
    /\ valid = {}
    /\ foreign = [x \in Paths |-> IF x \in ForeignPaths THEN "idle" ELSE "gone"]
    /\ pc = [g \in Goals |-> IF g \in Top THEN "start" ELSE "none"]
    /\ exitCode = [g \in Goals |-> "busy"]
    /\ waitees = [g \in Goals |-> {}] /\ waiters = [g \in Goals |-> {}]
    /\ nrFailed = [g \in Goals |-> 0] /\ nrNoSubstituters = [g \in Goals |-> 0]
    /\ left = [g \in Goals |-> Substituters] /\ subFailed = {}
    /\ top = Top /\ awake = Top /\ awake2 = {} /\ todo = {}
    /\ running = NoGoal /\ doomed = {}
    /\ wanting = [c \in Categories |-> {}] /\ aWhile = {} /\ completion = {}
    /\ children = {} /\ nr = [c \in Categories |-> 0]
    /\ loop = "run"
    /\ thread = [g \in Goals |-> "none"] /\ result = [g \in Goals |-> "none"]
    /\ exited = {} /\ queue = {} /\ pipe = FALSE

-----------------------------------------------------------------------------
(* Worker *)

(* The goals that shared pointers lead to from the set S: the least set    *)
(* with S that contains the waitees w[h] of its members.                   *)
Reachable(w, S) ==
    LET owned == {Y \in SUBSET Goals : S \subseteq Y /\ \A h \in Y : w[h] \subseteq Y}
    IN  {g \in Goals : \A Y \in owned : g \in Y}

(* Mutant: one slot more than allowed. *)
SlotFreeOneMore(c) ==
    nr[c] <= IF c = "subst" THEN Max({1, settings.maxSubstitutionJobs})
                            ELSE settings.maxBuildJobs

(* The condition under which goals start without waiting for a slot: even  *)
(* with maxSubstitutionJobs = 0 one substitution may run.                  *)
SlotFree(c) ==
    nr[c] < IF c = "subst" THEN Max({1, settings.maxSubstitutionJobs})
                           ELSE settings.maxBuildJobs

(* waitForBuildSlot, which looks at maxSubstitutionJobs as it is.          *)
WaitForBuildSlot(g, c) ==
    IF nr[c] < (IF c = "subst" THEN settings.maxSubstitutionJobs ELSE settings.maxBuildJobs)
    THEN awake' = awake \cup {g} /\ UNCHANGED wanting
    ELSE wanting' = [wanting EXCEPT ![c] = @ \cup {g}] /\ UNCHANGED awake

(* Mutant: the slot is not counted. *)
ChildStartedUncounted(g, c) == children' = children \cup {g} /\ UNCHANGED nr

ChildStarted(g, c) ==
    /\ children' = children \cup {g}
    /\ nr' = [nr EXCEPT ![c] = @ + 1]

(* Mutant: nobody is told of the free slot. *)
FirstWaiterForgotten(c) == {{}}

(* "Wake at most one waiter to avoid starting unnecessary work": the first *)
(* in the order of the pointers, which is any.                             *)
FirstWaiter(c) == IF wanting[c] = {} THEN {{}} ELSE {{h} : h \in wanting[c]}

ChildTerminated(g, c) ==
    /\ children' = children \ {g}
    /\ nr' = [nr EXCEPT ![c] = @ - 1]
    /\ \E W \in FirstWaiter(c) :
          /\ wanting' = [wanting EXCEPT ![c] = @ \ W]
          /\ awake' = awake \cup W

(* Mutant: keepGoing is not looked at. *)
RemoveGoalAlways(g, code) ==
    top' = IF g \in top /\ code = "failed" THEN {} ELSE top \ {g}

(* removeGoal: a failed top-level goal ends the others without keepGoing.  *)
RemoveGoal(g, code) ==
    top' = IF g \in top /\ code = "failed" /\ ~settings.keepGoing THEN {} ELSE top \ {g}

-----------------------------------------------------------------------------
(* Goal *)

(* g is running and its coroutine is at the label.  The destructors of     *)
(* dropped goals run first.                                                *)
At(g, label) == loop = "run" /\ running = g /\ doomed = {} /\ pc[g] = label

Goto(g, label) == pc' = [pc EXCEPT ![g] = label]

(* await(S): make the goals that do not exist, which wakes them, and       *)
(* suspend until all are done.  Without waitees the coroutine goes on.     *)
Await(g, S, label) ==
    LET new == {h \in S : pc[h] = "none"} IN
    /\ pc' = [h \in Goals |-> IF h = g THEN label ELSE IF h \in new THEN "start" ELSE pc[h]]
    /\ exitCode' = [h \in Goals |-> IF h \in new THEN "busy" ELSE exitCode[h]]
    /\ left' = [h \in Goals |-> IF h \in new THEN Substituters ELSE left[h]]
    /\ subFailed' = subFailed \ new
    /\ nrFailed' = [h \in Goals |-> IF h \in new THEN 0 ELSE nrFailed[h]]
    /\ nrNoSubstituters' = [h \in Goals |-> IF h \in new THEN 0 ELSE nrNoSubstituters[h]]
    /\ waitees' = [waitees EXCEPT ![g] = S]
    /\ waiters' = [h \in Goals |-> IF h \in S THEN waiters[h] \cup {g} ELSE waiters[h]]
    /\ awake' = awake \cup new
    /\ running' = IF S = {} THEN g ELSE NoGoal
    /\ UNCHANGED <<settings, world, top, rounds, doomed, lists, slots, loop, outside>>

(* The waiters that a failure wakes although other waitees are not done.   *)
CutShort(g, code) ==
    {h \in waiters[g] : code = "failed" /\ ~settings.keepGoing /\ waitees[h] # {g}}

(* amDone(code): tell the waiters, removeGoal; what the cut waiters alone  *)
(* waited for has no owner any more.                                       *)
AmDone(g, code) ==
    LET cut == CutShort(g, code) IN
    /\ waitees' = [h \in Goals |-> IF h \in cut THEN {} ELSE waitees[h] \ {g}]
    /\ waiters' = [h \in Goals |-> IF h = g THEN {} ELSE waiters[h] \ cut]
    /\ nrFailed' = [h \in Goals |->
            IF h \in waiters[g] /\ code # "success" THEN nrFailed[h] + 1 ELSE nrFailed[h]]
    /\ nrNoSubstituters' = [h \in Goals |->
            IF h \in waiters[g] /\ code = "nosubst" THEN nrNoSubstituters[h] + 1
                                                    ELSE nrNoSubstituters[h]]
    /\ awake' = awake \cup {h \in waiters[g] : waitees'[h] = {}}
    /\ exitCode' = [exitCode EXCEPT ![g] = code]
    /\ Goto(g, "none")
    /\ RemoveGoal(g, code)
    /\ running' = NoGoal
    /\ doomed' = {h \in Goals : pc'[h] # "none"} \ Reachable(waitees', Top \cup awake2)
    /\ UNCHANGED <<settings, world, subst, rounds, lists, slots, loop, outside>>

(* ~Goal: joins the thread of a substitution or kills the builder, which   *)
(* frees the slot.  Entries in the lists expire; only the one in           *)
(* waitingForCompletion is never removed.                                  *)
Destroy(g) ==
    /\ g \in doomed
    /\ ~(Kind[g] = "subst" /\ g \in children /\ thread[g] # "none")
    /\ children' = children \ {g}
    /\ nr' = [c \in Categories |-> IF g \in children /\ c = Kind[g] THEN nr[c] - 1 ELSE nr[c]]
    /\ \E W \in (IF g \in children THEN FirstWaiter(Kind[g]) ELSE {{}}) :
          /\ wanting' = [c \in Categories |-> wanting[c] \ (W \cup {g})]
          /\ awake' = (awake \cup W) \ {g}
    /\ doomed' = doomed \ {g}
    /\ Goto(g, "none")
    /\ waitees' = [waitees EXCEPT ![g] = {}]
    /\ waiters' = [h \in Goals |-> IF h = g THEN {} ELSE waiters[h] \ {g}]
    /\ aWhile' = aWhile \ {g}
    /\ completion' = IF g \in completion THEN (completion \ {g}) \cup {NoGoal} ELSE completion
    /\ thread' = [thread EXCEPT ![g] = "none"]
    /\ queue' = queue \ {g}
    /\ exited' = exited \ {g}
    /\ UNCHANGED <<settings, world, exitCode, nrFailed, nrNoSubstituters, subst, top, rounds,
                   running, loop, result, pipe>>

(* yield(): suspend, but stay awake.  *)
Yield(g, label) ==
    /\ Goto(g, label)
    /\ awake' = awake \cup {g}
    /\ running' = NoGoal
    /\ UNCHANGED <<settings, world, exitCode, links, subst, top, rounds, doomed, lists,
                   slots, loop, outside>>

IsValid(g) == Path[g] \in valid

-----------------------------------------------------------------------------
(* PathSubstitutionGoal *)

(* The next substituter is asked for the path info, in the background.     *)
QueryPathInfo(g) ==
    /\ left[g] > 0
    /\ left' = [left EXCEPT ![g] = @ - 1]
    /\ thread' = [thread EXCEPT ![g] = "query"]
    /\ completion' = completion \cup {g}
    /\ Goto(g, "info")
    /\ running' = NoGoal
    /\ UNCHANGED <<settings, world, exitCode, links, subFailed, top, awake, rounds, doomed,
                   wanting, aWhile, slots, loop, result, exited, queue, pipe>>

(* None left.  "Hack: don't indicate failure if there were no              *)
(* substituters."  An error of the last one leaves run() as an exception.  *)
NoneLeft(g) ==
    /\ left[g] = 0
    /\ \/ /\ result[g] # "error" \/ settings.tryFallback
          /\ AmDone(g, IF g \in subFailed THEN "failed" ELSE "nosubst")
       \/ /\ result[g] = "error" /\ ~settings.tryFallback
          /\ loop' = "threw"
          /\ UNCHANGED <<settings, world, pc, exitCode, links, subst, top, awake, rounds,
                         running, doomed, lists, slots, outside>>

NextSubstituter(g) == QueryPathInfo(g) \/ NoneLeft(g)

SubstStart(g) ==
    /\ Kind[g] = "subst" /\ At(g, "start")
    /\ \/ IsValid(g) /\ AmDone(g, "success")
       \/ ~IsValid(g) /\ NextSubstituter(g)

(* Without the path info the next substituter is tried; with it, the       *)
(* references are realised first, "to maintain the closure invariant".     *)
GotPathInfo(g) ==
    /\ At(g, "info")
    /\ \/ result[g] = "found" /\ Await(g, Deps[g], "refs")
       \/ result[g] # "found" /\ NextSubstituter(g)

(* Mutant: what became of the references does not matter. *)
SomeFailedIgnored(g) == FALSE

SomeFailed(g) == nrFailed[g] > 0

(* All references realised.  The goal also throws if one is not valid; no  *)
(* path becomes invalid here, as each goal has made it a temporary root.   *)
RefsRealised(g) ==
    /\ At(g, "refs")
    /\ \/ SomeFailed(g) /\ AmDone(g, IF nrNoSubstituters[g] > 0 THEN "nosubst" ELSE "failed")
       \/ ~SomeFailed(g) /\ Yield(g, "slot")

SubstWait(g) ==
    /\ At(g, "slot")
    /\ ~SlotFree("subst")
    /\ WaitForBuildSlot(g, "subst")
    /\ running' = NoGoal
    /\ UNCHANGED <<settings, world, pc, exitCode, links, subst, top, rounds, doomed, aWhile,
                   completion, slots, loop, outside>>

(* The thread that copies the path is started. *)
SubstRun(g) ==
    /\ At(g, "slot")
    /\ SlotFree("subst")
    /\ ChildStarted(g, "subst")
    /\ thread' = [thread EXCEPT ![g] = "copy"]
    /\ completion' = completion \cup {g}
    /\ Goto(g, "copied")
    /\ running' = NoGoal
    /\ UNCHANGED <<settings, world, exitCode, links, subst, top, awake, rounds, doomed,
                   wanting, aWhile, loop, result, exited, queue, pipe>>

(* The thread is joined; a substitute that is gone is no failure.          *)
SubstFinished(g) ==
    /\ At(g, "copied")
    /\ thread[g] = "none"
    /\ ChildTerminated(g, "subst")
    /\ subFailed' = IF result[g] = "failed" THEN subFailed \cup {g} ELSE subFailed
    /\ Goto(g, IF result[g] = "ok" THEN "succeeded" ELSE "query")
    /\ UNCHANGED <<settings, world, exitCode, links, left, top, rounds, running, doomed,
                   aWhile, completion, loop, outside>>

Succeeded(g) == At(g, "succeeded") /\ AmDone(g, "success")

SubstRetry(g) == At(g, "query") /\ NextSubstituter(g)

-----------------------------------------------------------------------------
(* DerivationGoal *)

DrvStart(g) ==
    /\ Kind[g] = "drv" /\ At(g, "start")
    /\ \/ IsValid(g) /\ AmDone(g, "success")
       \/ ~IsValid(g) /\ Await(g, {SubstOf[g]} \ {NoGoal}, "substituted")

(* "all outputs substituted (maybe)"; then the inputs are realised.        *)
SubstitutionFailed(g) ==
    nrFailed[g] > nrNoSubstituters[g] /\ ~settings.tryFallback

OutputsSubstituted(g) ==
    /\ At(g, "substituted")
    /\ \/ SubstitutionFailed(g) /\ AmDone(g, "failed")
       \/ ~SubstitutionFailed(g) /\ IsValid(g) /\ AmDone(g, "success")
       \/ /\ ~SubstitutionFailed(g) /\ ~IsValid(g)
          /\ Goto(g, "resolve")
          /\ nrFailed' = [nrFailed EXCEPT ![g] = 0]
          /\ nrNoSubstituters' = [nrNoSubstituters EXCEPT ![g] = 0]
          /\ UNCHANGED <<settings, world, exitCode, waitees, waiters, subst, top, awake, rounds,
                         running, doomed, lists, slots, loop, outside>>

(* The resolution goal realises the inputs.  It is folded in here; its     *)
(* coroutine also owns the goals of the inputs (`inputGoals`), which after *)
(* a wait that is cut short live until it ends, here only as waitees.      *)
Resolve(g) == At(g, "resolve") /\ Await(g, Deps[g], "resolved")

(* Give up on substitution, actually build this derivation. *)
Resolved(g) ==
    /\ At(g, "resolved")
    /\ \/ SomeFailed(g) /\ AmDone(g, "failed")
       \/ ~SomeFailed(g) /\ Await(g, {BuildOf[g]}, "built")

(* Mutant: the exit code of the building goal is not passed on. *)
OuterBuildDoneBlind(g) == At(g, "built") /\ AmDone(g, "success")

(* amDone(g->exitCode) *)
OuterBuildDone(g) ==
    /\ At(g, "built")
    /\ AmDone(g, IF SomeFailed(g) THEN "failed" ELSE "success")

-----------------------------------------------------------------------------
(* DerivationBuildingGoal *)

(* The sources that are not valid are substituted; that substitution is    *)
(* disabled, for which the code throws, is left out.                       *)
BuildStart(g) ==
    /\ Kind[g] = "build" /\ At(g, "start")
    /\ Await(g, {h \in Deps[g] : ~IsValid(h)}, "inputs")

InputsRealised(g) ==
    /\ At(g, "inputs")
    /\ \/ SomeFailed(g) /\ AmDone(g, "failed")
       \/ ~SomeFailed(g) /\ Yield(g, "trybuild")

(* acquireResources: poll for the output locks while another process has   *)
(* them.                                                                   *)
OutputsLocked(g) ==
    /\ At(g, "trybuild")
    /\ foreign[Path[g]] = "building"
    /\ aWhile' = aWhile \cup {g}
    /\ running' = NoGoal
    /\ UNCHANGED <<settings, world, pc, exitCode, links, subst, top, awake, rounds, doomed,
                   wanting, completion, slots, loop, outside>>

(* With the locks: "someone beat us to it", or build locally.              *)
TryToBuild(g) ==
    /\ At(g, "trybuild")
    /\ foreign[Path[g]] # "building"
    /\ \/ IsValid(g) /\ AmDone(g, "success")
       \/ ~IsValid(g) /\ Yield(g, "local")

(* No slot: give the locks back, wait for one and start over.              *)
BuildWait(g) ==
    /\ At(g, "local")
    /\ ~SlotFree("build")
    /\ Goto(g, "trybuild")
    /\ WaitForBuildSlot(g, "build")
    /\ running' = NoGoal
    /\ UNCHANGED <<settings, world, exitCode, links, subst, top, rounds, doomed, aWhile,
                   completion, slots, loop, outside>>

(* startBuild finds no free build user: poll, with the locks held.         *)
NoBuildUser(g) ==
    /\ At(g, "local")
    /\ SlotFree("build")
    /\ nr["build"] >= BuildUsers
    /\ aWhile' = aWhile \cup {g}
    /\ running' = NoGoal
    /\ UNCHANGED <<settings, world, pc, exitCode, links, subst, top, awake, rounds, doomed,
                   wanting, completion, slots, loop, outside>>

StartBuild(g) ==
    /\ At(g, "local")
    /\ SlotFree("build")
    /\ nr["build"] < BuildUsers
    /\ ChildStarted(g, "build")
    /\ Goto(g, "building")
    /\ running' = NoGoal
    /\ UNCHANGED <<settings, world, exitCode, links, subst, top, awake, rounds, doomed,
                   lists, loop, outside>>

(* End of file: unprepareBuild registers the outputs or throws.  Timeout:  *)
(* killChild.  The post-build hook, which runs before the locks are        *)
(* released, and exceptions other than BuildError are left out.            *)
BuildDone(g) ==
    /\ At(g, "building")
    /\ ChildTerminated(g, "build")
    /\ exited' = exited \ {g}
    /\ valid' = IF result[g] = "ok" THEN valid \cup {Path[g]} ELSE valid
    /\ Goto(g, IF result[g] = "ok" THEN "succeeded" ELSE "failed")
    /\ UNCHANGED <<settings, foreign, exitCode, links, subst, top, rounds, running, doomed,
                   aWhile, completion, loop, thread, result, queue, pipe>>

BuildFailed(g) == At(g, "failed") /\ AmDone(g, "failed")

-----------------------------------------------------------------------------
(* Worker::run *)

Idle == loop = "run" /\ running = NoGoal /\ doomed = {}

(* A snapshot of the awake goals is taken. *)
StartRound ==
    /\ Idle /\ awake2 = {} /\ awake # {} /\ top # {}
    /\ awake2' = awake /\ todo' = awake
    /\ awake' = {}
    /\ UNCHANGED <<settings, world, pc, exitCode, links, subst, top, running, doomed, lists,
                   slots, loop, outside>>

(* goal->work() for the next one, in the order of CompareGoalPtrs *)
Work ==
    /\ Idle /\ top # {}
    /\ \E g \in todo :
          /\ \A h \in todo : g <= h
          /\ running' = g
          /\ todo' = todo \ {g}
    /\ UNCHANGED <<settings, world, pc, exitCode, links, subst, top, awake, awake2, doomed,
                   lists, slots, loop, outside>>

(* The snapshot goes out of scope, and with it goals nobody waits for.     *)
EndRound ==
    /\ Idle /\ awake2 # {} /\ todo = {} /\ top # {}
    /\ awake2' = {}
    /\ doomed' = {h \in Goals : pc[h] # "none"} \ Reachable(waitees, Top)
    /\ UNCHANGED <<settings, world, pc, exitCode, links, subst, top, awake, todo, running,
                   lists, slots, loop, outside>>

RunEnds ==
    /\ Idle /\ top = {}
    /\ loop' = "ended"
    /\ UNCHANGED <<settings, world, pc, exitCode, links, subst, top, awake, rounds, running,
                   doomed, lists, slots, outside>>

(* run() has nothing to call: it waits for input if it expects any ...     *)
Waiting == Idle /\ awake2 = {} /\ awake = {} /\ top # {}

Expecting == children # {} \/ aWhile # {} \/ completion # {}

(* Mutant: waitingForAWhile is not cleared. *)
StillPolling(polled) == aWhile

(* waitingForAWhile.clear() *)
AfterPoll(polled) == aWhile \ polled

(* ... that is until a builder closed its pipe, the wakeup pipe is         *)
(* readable or the time to poll for locks has come.                        *)
WaitForInput ==
    /\ Waiting /\ Expecting
    /\ exited # {} \/ pipe \/ aWhile # {}
    /\ \E polled \in {{}, aWhile} :
          /\ polled # {} \/ exited # {} \/ pipe
          /\ awake' = exited \cup polled \cup (IF pipe THEN queue ELSE {})
          /\ aWhile' = AfterPoll(polled)
    /\ completion' = IF pipe THEN completion \ queue ELSE completion
    /\ queue' = IF pipe THEN {} ELSE queue
    /\ pipe' = FALSE
    /\ UNCHANGED <<settings, world, pc, exitCode, links, subst, top, rounds, running, doomed,
                   wanting, slots, loop, thread, result, exited>>

-----------------------------------------------------------------------------
(* Threads, builders and other processes *)

(* A thread is done with the outcome r.  Waker::enqueue: first the queue,  *)
(* under its mutex, then the pipe.                                         *)
Enqueue(g, r) ==
    /\ result' = [result EXCEPT ![g] = r]
    /\ queue' = queue \cup {g}
    /\ thread' = [thread EXCEPT ![g] = "notify"]
    /\ UNCHANGED <<settings, foreign, pc, exitCode, links, subst, top, awake, rounds, running,
                   doomed, lists, slots, loop, exited, pipe>>

(* The callback of queryPathInfo. *)
QueryDone(g) ==
    /\ thread[g] = "query"
    /\ \E r \in QueryOutcomes : Enqueue(g, r)
    /\ UNCHANGED valid

(* The goals that hold the output locks of x. *)
LockHolders(x) == {g \in Goals : Path[g] = x /\ pc[g] \in {"local", "building"}}

(* copyStorePath: addToStore waits for the output lock to add the path.    *)
CopyDone(g) ==
    /\ thread[g] = "copy"
    /\ \E r \in CopyOutcomes :
          /\ r = "ok" => LockHolders(Path[g]) = {} /\ foreign[Path[g]] # "building"
          /\ Enqueue(g, r)
          /\ valid' = IF r = "ok" THEN valid \cup {Path[g]} ELSE valid

(* Mutant: the wakeup pipe is not written to. *)
NotifyForgotten(g) ==
    /\ thread[g] = "notify"
    /\ thread' = [thread EXCEPT ![g] = "none"]
    /\ UNCHANGED <<settings, world, pc, exitCode, links, subst, top, awake, rounds, running,
                   doomed, lists, slots, loop, result, exited, queue, pipe>>

Notify(g) ==
    /\ thread[g] = "notify"
    /\ pipe' = TRUE
    /\ thread' = [thread EXCEPT ![g] = "none"]
    /\ UNCHANGED <<settings, world, pc, exitCode, links, subst, top, awake, rounds, running,
                   doomed, lists, slots, loop, result, exited, queue>>

(* A builder ends or runs into its time limit. *)
BuilderExits(g) ==
    /\ Kind[g] = "build" /\ g \in children \ exited
    /\ pc[g] = "building"
    /\ \E r \in BuildOutcomes : result' = [result EXCEPT ![g] = r]
    /\ exited' = exited \cup {g}
    /\ UNCHANGED <<settings, world, pc, exitCode, links, subst, top, awake, rounds, running,
                   doomed, lists, slots, loop, thread, queue, pipe>>

(* Another process takes the output locks when its inputs are realised.    *)
Inputs(x) == UNION {{Path[h] : h \in Deps[g]} : g \in {f \in Goals : Path[f] = x}}

ForeignLocks(x) ==
    /\ foreign[x] = "idle"
    /\ x \notin valid /\ Inputs(x) \subseteq valid
    /\ LockHolders(x) = {}
    /\ foreign' = [foreign EXCEPT ![x] = "building"]
    /\ UNCHANGED <<settings, valid, pc, exitCode, links, subst, top, awake, rounds, running,
                   doomed, lists, slots, loop, outside>>

(* Its build succeeds or not, and the lock is released.  *)
ForeignBuilt(x) ==
    /\ foreign[x] = "building"
    /\ \E V \in {valid, valid \cup {x}} : valid' = V
    /\ foreign' = [foreign EXCEPT ![x] = "gone"]
    /\ UNCHANGED <<settings, pc, exitCode, links, subst, top, awake, rounds, running, doomed,
                   lists, slots, loop, outside>>

-----------------------------------------------------------------------------
GoalStep(g) ==
    \/ SubstStart(g) \/ GotPathInfo(g) \/ RefsRealised(g)
    \/ SubstWait(g) \/ SubstRun(g) \/ SubstFinished(g) \/ SubstRetry(g)
    \/ DrvStart(g) \/ OutputsSubstituted(g) \/ Resolve(g) \/ Resolved(g) \/ OuterBuildDone(g)
    \/ BuildStart(g) \/ InputsRealised(g) \/ OutputsLocked(g) \/ TryToBuild(g)
    \/ BuildWait(g) \/ NoBuildUser(g) \/ StartBuild(g) \/ BuildDone(g) \/ BuildFailed(g)
    \/ Succeeded(g) \/ Destroy(g)

WorkerStep == (\E g \in Goals : GoalStep(g)) \/ StartRound \/ Work \/ EndRound \/ RunEnds
              \/ WaitForInput

ThreadStep(g) == QueryDone(g) \/ CopyDone(g) \/ Notify(g) \/ BuilderExits(g)

Next ==
    \/ WorkerStep
    \/ \E g \in Goals : ThreadStep(g)
    \/ \E x \in Paths : ForeignLocks(x) \/ ForeignBuilt(x)

Spec == Init /\ [][Next]_vars

(* The scheduler's thread, some of the threads and builders it waits for,  *)
(* and the other process keep running; the poll interval passes.           *)
Fairness ==
    /\ WF_vars(WorkerStep)
    /\ WF_vars(\E g \in Goals : ThreadStep(g))
    /\ WF_vars(\E x \in Paths : ForeignBuilt(x))

FairSpec == Spec /\ Fairness

-----------------------------------------------------------------------------
(* assert(!awake.empty()): when no goal is awake, run() expects something  *)
(* that will wake one, so that no goal waits for a slot that is free.      *)
NeverStuck == Waiting => Expecting

(* The slot counters agree with the children and stay within max-jobs and  *)
(* max-substitution-jobs, however goals end, fail or are dropped.          *)
SlotsRespected ==
    \A c \in Categories :
        /\ nr[c] = Cardinality({g \in children : Kind[g] = c})
        /\ nr[c] <= IF c = "subst" THEN Max({1, settings.maxSubstitutionJobs})
                                   ELSE settings.maxBuildJobs

(* What can resume goal g. *)
Resumers(g) ==
    {r \in {"awake", "todo", "slot", "while", "waitees", "thread", "builder"} :
        \/ r = "awake" /\ g \in awake
        \/ r = "todo" /\ g \in todo
        \/ r = "slot" /\ \E c \in Categories : g \in wanting[c]
        \/ r = "while" /\ g \in aWhile
        \/ r = "waitees" /\ waitees[g] # {}
        \/ r = "thread" /\ g \in completion /\ (thread[g] # "none" \/ g \in queue)
        \/ r = "builder" /\ pc[g] = "building" /\ g \notin awake \cup todo}

(* A suspended goal is waiting for exactly one thing: it is neither        *)
(* forgotten nor resumed twice, and a goal that is done is never resumed   *)
(* (the assertions of Goal::work and Goal::await).                         *)
OneResumer ==
    \A g \in Goals :
        g # running /\ g \notin doomed =>
            Cardinality(Resumers(g)) = IF pc[g] = "none" THEN 0 ELSE 1

(* The assertions at the end of run(): with --keep-going nothing is left   *)
(* over when the top-level goals are done.                                 *)
KeepGoingClean ==
    loop = "ended" /\ settings.keepGoing =>
        awake = {} /\ wanting["build"] = {} /\ children = {}

(* "To maintain the closure invariant": when a path is copied or built,    *)
(* what it refers to, or is built from, is valid.                          *)
InputsValid == \A g \in children : \A h \in Deps[g] : Path[h] \in valid

(* What Store::buildPaths reads after run(): a goal that says it succeeded *)
(* has its path valid, whoever made it, and with --keep-going there is a   *)
(* result for every goal that was asked for.                               *)
ResultsTrue ==
    /\ \A g \in Goals : exitCode[g] = "success" => IsValid(g)
    /\ loop = "ended" /\ settings.keepGoing => \A g \in Top : exitCode[g] # "busy"

(* Worker::run returns, or throws. *)
RunReturns == <>(loop # "run")
=============================================================================
