CONSTANTS
  t1 = t1
  t2 = t2
  t3 = t3
  loopA = loopA
  loopB = loopB
  Tasks <- MCTasks
  Loops <- MCLoops
  LoopOf <- MCLoopOf
  Managers = {m1, m2}
  Generations = {g1, g2}
  Leases = {l1, l2}
  Configs = {c1, c2}
  Default = c1
  None = None
SPECIFICATION Spec
CHECK_DEADLOCK FALSE
INVARIANT OwnersServed
INVARIANT OneConnection
PROPERTY ClosedWhenUnused
PROPERTY CallsReturn
