SPECIFICATION ThreadSpec
CONSTANTS
  g = g
  a1 = a1
  a2 = a2
  a3 = a3
  b1 = b1
  b2 = b2
  b3 = b3
  c2 = c2
  p1 = p1
  p2 = p2
  NoPeer = NoPeer
  NoBlock = NoBlock
  Block <- Branches
  Genesis = g
  Parent <- MCParent
  Number <- MCNumber
  Work <- MCWork
  HashRank <- MCHashRank
  Ancestor <- MCAncestor
  TotalWork <- MCTotalWork
  Peer <- Peers2
  RangeSize = 2
  CheckpointSize = 2
  StartTip = a1
  RemoteTips <- Worlds
  PeerHolds <- NoCandidates
  Gossiped <- OnlyA2
  MaxFaults = 1
PROPERTIES
  ThreadClearsMark
  WorkNeverDecreases
  SpoolSurvives
  CatchesUpAlone
