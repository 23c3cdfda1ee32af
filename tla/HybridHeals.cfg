\* Every mode on a line: liveness through one switch and one restart.
CONSTANTS
  root = root
  a = a
  b = b
  c = c
  Node <- Kite
  Root = root
  NoPeer = NoPeer
  Link <- LineLinks
  RankMax = 9
  Mops <- EveryMop
  Profiles <- InnerProfiles
  Switchable <- Inner
  MaxTargets = 2
  MaxSwitches = 1
  MaxRestarts = 1
SPECIFICATION FairSpec
PROPERTIES
  RoutesHeal
  RootLearns
