\* Claim of dag.h:61-65 on a line, with one fault.
CONSTANTS
  root = root
  a = a
  b = b
  c = c
  Node <- Triangle
  Root = root
  NoPeer = NoPeer
  Link <- LineLinks
  RankMax <- MCRankMax
  Mop = 6
  SilenceLimit = 1
  StabilityNMax = 0
  MaxFaults = 1
SPECIFICATION FairSpec
PROPERTY Reconverges
