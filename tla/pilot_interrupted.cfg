SPECIFICATION Safety
CONSTANTS
  r1 = r1
  r2 = r2
  Requests = {r1}
  NoRequest = NoRequest
  MaxModelCalls = 2
  MaxToolCalls = 1
INVARIANTS
  InterruptedIsUncertain
