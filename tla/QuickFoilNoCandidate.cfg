SPECIFICATION CountedSpec
CONSTANTS
  Pos <- FourPos
  Neg <- TwoNeg
  Literal <- SearchLiterals
  Fan <- SearchFan
  Uses <- SearchUses
  UsesOffKey <- SearchUses
  Unbound <- SearchUnbound
  Bindings <- MCBindings
  CoveredBindings <- MCCoveredBindings
  MaxIterations = 2
  MaxClauseLength = 4
  MaxRandomLiterals = 2
  MaxRandomTrials = 2
  InflatedPrecision = 85
  TruePrecision = 80
  FScore = 85
  TiedCoverage = 60
  BindingsPerExample = 3
  NumSavedLiterals = 2
INVARIANT
  TiedLiteralIsLeft
