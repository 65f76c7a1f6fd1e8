SPECIFICATION Safety
CONSTANTS
  r1 = r1
  r2 = r2
  Requests = {r1, r2}
  NoRequest = NoRequest
  MaxModelCalls = 1
  MaxToolCalls = 1
INVARIANTS
  CompletedIsClean
  LedgerAgreement
  NoSilentOrphan
  CallsAccounted
PROPERTIES
  AdmissionClean
  Fences
SYMMETRY RequestSymmetry
