SPECIFICATION FairTestSpec
CONSTANTS
  Value <- MCValue
  Hash <- MCHash
  Input <- MCInput
  ChunkSize = 2
  BitsPerBlock = 2
  TruePrecision = 60
  FScore = 100
  Test <- MCTest
  File <- MCFile
  InitialCapacity = 2
INVARIANTS TestTypeOK ChainsEnd CountMatchesBits CoverageIsExact OutputFits LearntRuleTakesItsExamples OverrunIsOneRow RowsAreLoaded ReportIsExact
PROPERTY TestsEnd
CHECK_DEADLOCK FALSE
