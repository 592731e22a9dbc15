CONSTANTS
  u1 = u1
  r1 = r1
  s1 = s1
  e1 = e1
  e2 = e2
  Jobs = {u1, r1}
  Users = {u1}
  RepairOf <- OneRepair
  Executors = {e1}
  MountAttempts = 2
  RepairAttempts = 2
  MaxFaults = 1
  NoOwner = NoOwner
  NoJob = NoJob
  Root = Root
  MountIncidents = {"crash", "adopt", "delete", "retry"}
SPECIFICATION FairMountSpec
PROPERTIES MountsSettle
