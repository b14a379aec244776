CONSTANTS
  dd = dd
  ee = ee
  kk = kk
  ss = ss
  a1 = a1
  a2 = a2
  a3 = a3
  a4 = a4
  a5 = a5
  b1 = b1
  hd = hd
  he = he
  hl = hl
  Null = Null
  Width = 8
  Fnv1aBaseline = 197
  Fnv1aPrime = 179
  DirectorySalt = 185
  ArenaSalt = 21
  Contract = {kk, ss}
  Domains <- MCDomains
  Text <- MCText
  HostAnchors <- MCHostAnchors
  PluginAnchors <- MCPluginAnchors
  NodesFor <- MCNodesFor
  HostNode <- MCHostNode
  LateNode <- MCLateNode
  Images <- MCImages
SPECIFICATION Spec
INVARIANTS
  TypeOK
  VerdictRight
  HostChainsSound
  AnchorsPaired
  BootstrapLinks
  KeysTellApart
PROPERTIES
  CallsReturn
