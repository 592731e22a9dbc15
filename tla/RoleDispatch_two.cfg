CONSTANTS
  j1 = j1
  j2 = j2
  c1 = c1
  e1 = e1
  e2 = e2
  Jobs = {j1, j2}
  Builds = {j2}
  Conversations = {c1}
  ConvOf <- OneConversation
  Executors = {e1}
  NoOwner = NoOwner
  NoJob = NoJob
  Root = Root
  Incidents = {"stream", "resume", "mode", "prepare", "crash", "cancel", "delete"}
  MaxDeliveries = 1
SPECIFICATION DSpec
SYMMETRY ExecutorSymmetry
INVARIANTS ClaimScope QueuedIsDeliverable
PROPERTIES FreshQueuedStops TerminalJobsStay
