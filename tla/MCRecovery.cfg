SPECIFICATION Spec
CONSTANTS
  A = A  B = B  whole = whole  dev = dev  dev2 = dev2  sc = sc  cls = cls
  Functions = {f1, f2}
  Descriptors = {d1, d2}
  Sources = {A, B}
  Slots = {whole, dev}
  Whole = whole
  Reports <- SomeReports
  Scopes = {sc}
  Classes = {cls}
  RequestIds = {1, 2, 3}
  Operations <- SomeOperations
  MaxFunctions = 1
  MaxGrants = 1
  MaxIdempotency = 2
  MaxAssignments = 4
  MaxSources = 6
  MaxScopes = 1
  MaxCapabilities = 1
  MaxObservations = 1
  MaxHistory = 12
  StampLimit = 2
  MaxEpoch = 3
  MaxCalls = 3
  MaxOrdinal = 2
SYMMETRY Symmetric
INVARIANTS
  CurrentIffThisLifetime
  StoreReopens
  ReplayReproduces
  AnsweredOnce
  EvictionOrderSound
  RetryFindsAnswer
  NoStampLost
PROPERTIES
  NoSourceRegresses
