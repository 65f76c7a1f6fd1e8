SPECIFICATION Spec
CONSTANTS
  p1 = p1
  p2 = p2
  t1 = t1
  t2 = t2
  Bots = {b1}
  Updates = {1, 2}
  Users = {u1}
  Procs = {p1, p2}
  Tasks = {t1, t2}
  ProcOf <- TwoProcesses
  NoOne = NoOne
  MaxTime = 3
  Hour = 1
  Day = 2
  Retention = 2
  RequestsPerHour = 1
  RequestsPerDay = 1
  ModelCallsPerHour = 1
  ModelCallsPerDay = 2
  ModelCallsPerRequest = 2
INVARIANTS
  ExclusiveExecution
  ReplayRetention
  Quotas
PROPERTIES
  LiveRowsSurvive
