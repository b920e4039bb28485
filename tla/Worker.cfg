SPECIFICATION FairSpec
CONSTANTS
  Goals = {1, 2, 3, 4, 5, 6, 7}
  Kind <- TwoKind
  Path <- TwoPath
  Deps <- TwoDeps
  SubstOf <- TwoSubst
  BuildOf <- TwoBuild
  Top = {4, 5}
  NoGoal = NoGoal
  Settings <- ManySettings
  Substituters = 1
  BuildUsers = 1
  QueryOutcomes = {"found", "missing", "error"}
  CopyOutcomes = {"ok", "failed"}
  BuildOutcomes = {"ok", "failed"}
  ForeignPaths = {3}
INVARIANTS TypeOK NeverStuck SlotsRespected OneResumer KeepGoingClean InputsValid ResultsTrue
PROPERTY RunReturns
CHECK_DEADLOCK FALSE
