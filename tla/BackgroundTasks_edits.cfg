CONSTANTS
  t1 = t1
  t2 = t2
  e1 = e1
  Tasks = {t1, t2}
  Tutored = {t1}
  Editors = {e1}
  Edits = {"text", "title", "alone"}
  NumSections = 2
  MaxCancels = 2
  MaxRestarts = 1
SPECIFICATION Spec
INVARIANTS EditsKept
CHECK_DEADLOCK FALSE
