CONSTANTS
  a = a
  b = b
  p = p
  q = q
  r1 = r1
  Null = Null
  Host = Host
  Hash = {a, b}
  Plugins = {p, q}
  Partitioned = {Host, q}
  Declared <- MCDeclared
  MaxNodes = 2
  Readers = {r1}
SPECIFICATION Spec
INVARIANTS
  TypeOK
  OneSlotPerModel
  DeclaredResolvable
  FindRight
  IInv
PROPERTIES
  SlotsStable
  CallsReturn
