CONSTANTS
  Airtimes = {0, 1, 3, 4}
  Capacity = 3
  Denominator = 2
  MinimumGap = 2
  MaxTick = 10
SPECIFICATION Spec
INVARIANTS
  TypeOK
  AirtimeBudget
  AtMostTwoDeferrals
PROPERTIES
  OnlyRegressionDisables
