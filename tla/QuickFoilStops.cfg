SPECIFICATION CountedSpec
CONSTANTS
  Pos <- FourPos
  Neg <- TwoNeg
  Literal <- TiedLiterals
  Fan <- TiedFan
  Uses <- NoUses
  UsesOffKey <- NoUses
  Unbound = {}
  Bindings <- MCBindings
  CoveredBindings <- MCCoveredBindings
  MaxIterations = 3
  MaxClauseLength = 2
  MaxRandomLiterals = 2
  MaxRandomTrials = 2
  InflatedPrecision = 85
  TruePrecision = 80
  FScore = 85
  TiedCoverage = 30
  BindingsPerExample = 3
  NumSavedLiterals = 2
PROPERTY
  StopsAtThreshold
