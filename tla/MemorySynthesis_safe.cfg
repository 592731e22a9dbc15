CONSTANTS
  w1 = w1
  w2 = w2
  Workers = {w1, w2}
  Offered = {"retracted"}
  MaxFacts = 3
  MaxRuns = 4
  MaxRestarts = 1
  MaxDbFailures = 1
  MaxAttempts = 2
  EligibleLimit = 3
  EvidenceLimit = 3
  FirstCount = 2
  RefineCount = 2
SPECIFICATION FairSpec
INVARIANTS MemoryTypeOK RunsAreSound
PROPERTIES ConsumedOnce RunsSettle RetractionPrevails
CHECK_DEADLOCK FALSE
