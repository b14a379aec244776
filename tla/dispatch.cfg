CONSTANTS
  Null = Null
  NaN = NaN
  MaxBinds = 7
  Bindable = {"rule", "fallback", "none"}
  LogLanes = 2
  TopScore = 2
SPECIFICATION Spec
INVARIANTS
  TypeOK
  LowestLaneWins
  StrategiesExchangeable
  BestScoreWins
