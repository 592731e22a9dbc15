CONSTANTS
  t1 = t1
  t2 = t2
  e1 = e1
  Tasks = {t1, t2}
  Tutored = {t1}
  Editors = {e1}
  Edits = {"title"}
  NumSections = 2
  MaxCancels = 1
  MaxRestarts = 1
SPECIFICATION FairSpec
INVARIANTS BackgroundTypeOK
PROPERTIES TasksEnd PublishedIsWhole
CHECK_DEADLOCK FALSE
