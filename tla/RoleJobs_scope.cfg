CONSTANTS
  j1 = j1
  j2 = j2
  c1 = c1
  e1 = e1
  e2 = e2
  Jobs = {j1, j2}
  Builds = {j2}
  Conversations = {c1}
  ConvOf <- OneConversation
  Executors = {e1, e2}
  NoOwner = NoOwner
  NoJob = NoJob
  Root = Root
  Incidents = {"stream", "mode", "adopt", "crash", "prepare", "cancel", "delete"}
SPECIFICATION Spec
SYMMETRY ExecutorSymmetry
CONSTRAINT IncidentsAlone
INVARIANTS TypeOK ClaimScope VersionsResolve
PROPERTIES FencedWrites ImplementsLock RunningMovesForward
