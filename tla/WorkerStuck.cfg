SPECIFICATION Spec
CONSTANTS
  Goals = {1, 2, 3, 4, 5, 6}
  Kind <- ThreeKind
  Path <- ThreePath
  Deps <- ThreeDeps
  SubstOf <- ThreeSubst
  BuildOf <- ThreeBuild
  Top = {1, 2, 3}
  NoGoal = NoGoal
  Settings <- OneJob
  Substituters = 0
  BuildUsers = 1
  QueryOutcomes = {}
  CopyOutcomes = {}
  BuildOutcomes = {"ok"}
  ForeignPaths = {2}
INVARIANT NeverStuck
CHECK_DEADLOCK FALSE
