SPECIFICATION Spec
CONSTANTS
  A = A  B = B  whole = whole  dev = dev  dev2 = dev2  sc = sc  cls = cls
  Functions = {}
  Descriptors = {}
  Sources = {A}
  Slots = {whole}
  Whole = whole
  Reports = {}
  Scopes = {sc}
  Classes = {cls}
  RequestIds = {1, 2, 3}
  Operations <- SomeOperations
  MaxFunctions = 0
  MaxGrants = 0
  MaxIdempotency = 2
  MaxAssignments = 4
  MaxSources = 0
  MaxScopes = 1
  MaxCapabilities = 0
  MaxObservations = 0
  MaxHistory = 3
  StampLimit = 2
  MaxEpoch = 2
  MaxCalls = 4
  MaxOrdinal = 2
INVARIANTS
  StoreReopens
