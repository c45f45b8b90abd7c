SPECIFICATION Spec
CONSTANTS
  Candidate = {a, b, c, d}
  Info <- MCInfo
  NumSavedLiterals = 2
  Tolerance = 2
  NumBindings = 5
  NumExamples = 5
INVARIANTS TypeOK BestScoreIsKept KeptUnlessOutranked OffersRankTheHeap RandomIsBest
CHECK_DEADLOCK FALSE
