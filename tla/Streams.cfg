SPECIFICATION FairStreamSpec
CONSTANTS
  c1 = c1
  a1 = a1
  w1 = w1
  s1 = s1
  r1 = r1
  v1 = v1
  Jobs = {1}
  Copies = {c1}
  CopyOf <- MCCopyOf
  Admins = {a1}
  Workers = {w1}
  Servers = {s1}
  Clients = {r1}
  Grades = {"NORMAL"}
  MaxRetries = 1
  MaxTasks = 2
  FaultLimit <- Lost
  MaxFaults = 1
  Viewers = {v1}
  MaxDrops = 1
  None = None
CHECK_DEADLOCK FALSE
INVARIANTS
  EndIsOnItsWay
  AdminsAreAlerted
PROPERTY ViewersSeeTheEnd
