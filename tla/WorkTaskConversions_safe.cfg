CONSTANTS
  m1 = m1
  t1 = t1
  t2 = t2
  MaxRevisions = 4
  MaxGenerations = 2
  Messages = {m1}
  Tickets = {t1, t2}
  Modes = {"learning", "design", "draft"}
  MaxRestarts = 1
SPECIFICATION FairSpec
INVARIANTS ConversionTypeOK GeneratedIsCurrent HandoffsAgree
PROPERTIES EditsHold GenerationsEnd
CHECK_DEADLOCK FALSE
