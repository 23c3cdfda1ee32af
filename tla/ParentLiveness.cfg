\* Losses, crashes and reloads, second by second.
CONSTANTS
  Periods <- SomePeriods
  Configured = 5
  Factor = 8
  CheckInterval = 5
  MaxFaults = 7
  MaxReloads = 1
SPECIFICATION FairSpec
INVARIANTS
  TypeOK
  SilenceBounded
  JoinsSoon
  LossAnnounced
PROPERTIES
  NoFalseAlarm
  StaysJoined
