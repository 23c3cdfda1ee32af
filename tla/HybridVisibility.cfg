\* A triangle in hybrid mode, classes as configured.
CONSTANTS
  root = root
  a = a
  b = b
  c = c
  Node <- Triangle
  Root = root
  NoPeer = NoPeer
  Link <- TriangleLinks
  RankMax = 9
  Mops <- OnlyHybrid
  Profiles <- TriangleProfiles
  Switchable <- Inner
  MaxTargets = 2
  MaxSwitches = 0
  MaxRestarts = 0
SPECIFICATION FairSpec
PROPERTY FullVisibility
