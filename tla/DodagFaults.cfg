\* Crashes, restarts, cut links, missed DIOs and failed allocations on a
\* triangle in hybrid mode.
CONSTANTS
  root = root
  a = a
  b = b
  c = c
  Node <- Triangle
  Root = root
  NoPeer = NoPeer
  Link <- TriangleLinks
  RankMax <- MCRankMax
  Mop = 6
  SilenceLimit = 1
  StabilityNMax = 0
  MaxFaults = 1
SPECIFICATION Spec
INVARIANTS
  TypeOK
  RankTracksParent
  RouteFollowsParent
  NoLoopWithoutFault
PROPERTY StickyParent
SYMMETRY TriangleSymmetry
