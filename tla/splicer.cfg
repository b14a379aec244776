CONSTANTS
  Null = Null
  host = host
  p1 = p1  p2 = p2  p3 = p3
  a1 = a1  a2 = a2  b1 = b1  h1 = h1  h2 = h2
  Host <- host
  Plugins <- MCPlugins
  HostNodes <- MCHostNodes
  Node <- MCNode
  LocalChain <- MCLocalChain
SPECIFICATION Spec
INVARIANTS
  TypeOK
  ChainIsSegments
  OwnChainRestored
  IInv
  NoDangling
  CacheCurrent
PROPERTIES
  ImplementsRegistry
  CallsReturn
