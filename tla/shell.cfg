CONSTANTS
  m = m
  n = n
  Shell = {s1, s2}
  Type = {m, n}
  Value = {v1, v2}
  Throwing = {n}
  SelfSet = TRUE
  EarlyUse = FALSE
  LocalIndex <- MCLocalIndex
  HostIndex <- MCHostIndex
  Routed = {m}
  Null = Null
SPECIFICATION Spec
INVARIANTS
  Whole
  DestroyedOnce
  CallsOwnCapability
PROPERTIES
  ShellsAreVariables
CHECK_DEADLOCK FALSE
