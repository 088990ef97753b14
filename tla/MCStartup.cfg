CONSTANT
  MaxParams = 2
SPECIFICATION LiveSpec
INVARIANTS
  ReadyTogether
  ServerProved
  RequireMeansTls
  UpgradeIsOptional
PROPERTY StartupEnds
CHECK_DEADLOCK FALSE
