SPECIFICATION FairSpec
CONSTANTS
  c1 = c1
  a1 = a1
  a2 = a2
  w1 = w1
  w2 = w2
  s1 = s1
  s2 = s2
  r1 = r1
  r2 = r2
  Jobs = {1}
  Copies = {c1}
  CopyOf <- MCCopyOf
  Admins = {a1}
  Workers = {w1, w2}
  Servers = {s1}
  Clients = {r1}
  Grades = {"NORMAL"}
  MaxRetries = 1
  MaxTasks = 2
  FaultLimit <- LostWorker
  MaxFaults = 2
  None = None
CHECK_DEADLOCK FALSE
PROPERTIES
  InspectionsSettle
  RejectionsAreRestocked
