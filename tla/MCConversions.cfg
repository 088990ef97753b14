CONSTANTS
  ByteValues = 8
  UsecsPerSec = 4
  SecsPerMinute = 3
  MinutesPerHour = 3
  HoursPerDay = 3
  EpochJulianDay = 40
  MaxDays = 50
  MaxSecs = 30
  GroupDigits = 2
  MaxMantissa = 65535
  MaxScale = 6
  I128Values = 262144
  IntegerInputs <- Edges
  DayInputs <- Days
  UsecInputs <- Usecs
  GroupInputs = {0, 1, 10, 25, 99}
  Weights <- GroupWeights
  DisplayScales = {0, 1, 2, 3, 4, 5, 6, 7, 8, 9, 10}
SPECIFICATION ConvSpec
INVARIANTS
  IntegersKept
  RefusalsJustified
  CopyIsFaithful
  NumericTextExact
  DecimalExact
CHECK_DEADLOCK FALSE
