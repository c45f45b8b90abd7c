SPECIFICATION Spec
CONSTANTS
  Predicate <- BinaryPredicates
  ArgumentTypes <- BinaryTypes
  Key <- BinaryKey
  HeadTypes <- OneArgument
  MaxBody = 2
  MaxClauses = 2
  MaxRuledOut = 1
INVARIANTS TypeOK NoLiteralTwice GeneratedIsComplete DuplicatesAreFound
CHECK_DEADLOCK FALSE
