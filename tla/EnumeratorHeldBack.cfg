SPECIFICATION Spec
CONSTANTS
  Predicate <- BinaryPredicates
  ArgumentTypes <- BinaryTypes
  Key <- BinaryKey
  HeadTypes <- OneArgument
  MaxBody = 2
  MaxClauses = 2
  MaxRuledOut = 1
INVARIANT HeldBackIsReplaceable
CHECK_DEADLOCK FALSE
