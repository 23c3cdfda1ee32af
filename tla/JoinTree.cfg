\* The abstract tree on five nodes.
CONSTANTS
  root = root
  a = a
  b = b
  c = c
  d = d
  Node <- MCNode
  Root = root
  NoPeer = NoPeer
  Link <- MCLink
  RankMax <- MCRankMax
  Size = 5
SPECIFICATION FairSpec
INVARIANTS
  RankAtLeastDistance
  RestsAtDistance
PROPERTY Settles
CHECK_DEADLOCK FALSE
