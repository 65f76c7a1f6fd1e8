SPECIFICATION Spec
CONSTANTS
  r1 = r1
  r2 = r2
  Requests = {r1}
  NoRequest = NoRequest
  MaxModelCalls = 1
  MaxToolCalls = 1
PROPERTIES
  TurnEnds
  StopCompletes
