\* No faults, a diamond in storing mode: liveness.
CONSTANTS
  root = root
  a = a
  b = b
  c = c
  Node <- Diamond
  Root = root
  NoPeer = NoPeer
  Link <- DiamondLinks
  RankMax <- MCRankMax
  Mop = 2
  SilenceLimit = 1
  StabilityNMax = 0
  MaxFaults = 0
SPECIFICATION FairSpec
INVARIANT DistanceWithoutFault
PROPERTY Converges
PROPERTY FormsTree
