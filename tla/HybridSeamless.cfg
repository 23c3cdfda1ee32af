\* A line in hybrid mode, one switch of class.
CONSTANTS
  root = root
  a = a
  b = b
  c = c
  Node <- Kite
  Root = root
  NoPeer = NoPeer
  Link <- LineLinks
  RankMax = 9
  Mops <- OnlyHybrid
  Profiles <- InnerProfiles
  Switchable <- Inner
  MaxTargets = 2
  MaxSwitches = 1
  MaxRestarts = 0
SPECIFICATION Spec
INVARIANT SwitchKeepsPaths
