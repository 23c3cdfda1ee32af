\* Rings that fill and wrap, changes that leave the window, an energy that
\* falls and rises.
CONSTANTS
  NMax = 3
  Window = 3
  EvalPeriod = 2
  PdrWindow = 2
  Full = 5
  Readings <- EmptyOrFull
  NoFile = 99
  MaxRecent = 5
SPECIFICATION FairSpec
INVARIANTS
  TypeOK
  StabilityExact
  PenaltyFresh
  PdrExact
  NeedsEvidence
PROPERTIES
  Recovers
  EmptyYields
