SPECIFICATION FairSpec
CHECK_DEADLOCK FALSE
CONSTANTS
  Ensured <- MCEnsured
  Apps <- MCApps
  Specs <- MCSpecs
  MaxUid = 2
  MaxLag = 2
  MaxFaults = 1
INVARIANTS
  TypeOK
  AccountFirst
  QuietIsDone
PROPERTIES
  NoLostEdit
  OwnerExists
  Converges
