CONSTANTS
  m = m
  n = n
  Shell = {s1, s2}
  Type = {m, n}
  Value = {v1, v2}
  Throwing = {}
  SelfSet = FALSE
  EarlyUse = TRUE
  LocalIndex <- MCLocalIndex
  HostIndex <- MCHostIndex
  Routed = {m, n}
  Null = Null
SPECIFICATION Spec
INVARIANTS
  MemoCurrent
