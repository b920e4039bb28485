------------------------------ MODULE MCWorker ------------------------------
EXTENDS Worker

(* Derivation 4 has the substitute 3, which refers to paths 1 and 2, and   *)
(* the build 6; derivation 5 has the build 7, of which path 2 is a source. *)
TwoKind == [g \in Goals |-> CASE g <= 3 -> "subst" [] g \in 4..5 -> "drv" [] OTHER -> "build"]
TwoPath == [g \in Goals |-> CASE g <= 3 -> g [] g \in {4, 6} -> 3 [] OTHER -> 4]
TwoDeps == [g \in Goals |-> CASE g = 3 -> {1, 2} [] g = 7 -> {2} [] OTHER -> {}]
TwoSubst == [g \in Goals |-> IF g = 4 THEN 3 ELSE NoGoal]
TwoBuild == [g \in Goals |-> CASE g = 4 -> 6 [] g = 5 -> 7 [] OTHER -> NoGoal]

(* Three derivations to be built, without substitutes. *)
ThreeKind == [g \in Goals |-> IF g <= 3 THEN "drv" ELSE "build"]
ThreePath == [g \in Goals |-> IF g <= 3 THEN g ELSE g - 3]
ThreeDeps == [g \in Goals |-> {}]
ThreeSubst == [g \in Goals |-> NoGoal]
ThreeBuild == [g \in Goals |-> IF g <= 3 THEN g + 3 ELSE NoGoal]

Set(keep, fallback, builds, substs) ==
    [keepGoing |-> keep, tryFallback |-> fallback,
     maxBuildJobs |-> builds, maxSubstitutionJobs |-> substs]

ManySettings == {Set(TRUE, TRUE, 1, 1), Set(FALSE, TRUE, 2, 0), Set(FALSE, FALSE, 1, 2)}
OneJob == {Set(TRUE, FALSE, 1, 1)}
=============================================================================
