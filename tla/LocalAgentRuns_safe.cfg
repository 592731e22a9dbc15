CONSTANTS
  q1 = q1
  q2 = q2
  MaxRuns = 1
  MaxFiles = 2
  Requests = {q1, q2}
  Operations = {"write", "delete"}
  MaxEdits = 2
  MaxRevisions = 2
  MaxRestarts = 1
  MaxErrors = 1
SPECIFICATION FairSpec
INVARIANTS AgentTypeOK ProcessHasTask FilesHaveOperations
PROPERTIES WritesAllowed RunsSettle
CHECK_DEADLOCK FALSE
