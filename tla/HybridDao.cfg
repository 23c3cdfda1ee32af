\* Every mode on a kite, one switch of class, one restart of the root.
CONSTANTS
  root = root
  a = a
  b = b
  c = c
  Node <- Kite
  Root = root
  NoPeer = NoPeer
  Link <- KiteLinks
  RankMax = 9
  Mops <- EveryMop
  Profiles <- InnerProfiles
  Switchable <- Inner
  MaxTargets = 2
  MaxSwitches = 1
  MaxRestarts = 1
SPECIFICATION Spec
INVARIANTS
  TypeOK
  RoutesLeadDown
  PathsContinue
PROPERTY
  JoinsTree
