SPECIFICATION Spec
CONSTANTS
  Specs <- MCSpecs
INVARIANTS
  TypeOK
  Verdict
  CycleIsReported
  LevelsCorrect
