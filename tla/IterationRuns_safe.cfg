CONSTANTS
  j1 = j1
  j2 = j2
  c1 = c1
  e1 = e1
  e2 = e2
  Jobs = {j1}
  Builds = {}
  Conversations = {c1}
  ConvOf <- OneConversation
  Executors = {e1, e2}
  NoOwner = NoOwner
  NoJob = NoJob
  Root = Root
  Incidents = {"stream","cancel","delete","mode","adopt","crash","prepare"}
SPECIFICATION FairIterSpec
INVARIANTS IterTypeOK VersionHasRun
PROPERTIES CompletedRunStays ClosedJobEndsRun
