CONSTANTS
  q1 = q1
  q2 = q2
  MaxRuns = 1
  MaxFiles = 2
  Requests = {q1}
  Operations = {"write"}
  MaxEdits = 1
  MaxRevisions = 0
  MaxRestarts = 0
  MaxErrors = 0
SPECIFICATION Spec
PROPERTY UserEditsSurvive
CHECK_DEADLOCK FALSE
