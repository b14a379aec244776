CONSTANTS
  m = m
  n = n
  kk = kk
  ss = ss
  h1 = h1
  h2 = h2
  p1 = p1
  q1 = q1
  q2 = q2
  pp = pp
  qq = qq
  rr = rr
  Null = Null
  Host = Host
  Plugins = {pp, qq, rr}
  Model = {m, n}
  Contract = {kk, ss}
  Populator = {h1, h2, p1, q1, q2}
  Late = {h2}
  Rank <- MCRank
  Sorting = {Host, pp, qq, rr}
  Volume <- MCVolume
  Home <- MCHome
  Bound <- MCBound
  Caps <- MCCaps
  LocalChain <- MCLocalChain
  Declared <- MCDeclared
  Partitioned = {Host, qq, rr}
  Anchored <- SharedWithBoth
SPECIFICATION Spec
INVARIANTS
  TypeOK
  FindRoutes
  PreloadRestored
  CellsOfOwnModel
  TargetsMapped
  AnchoredRouted
PROPERTIES
  RefreshReturns
