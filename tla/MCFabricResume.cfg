SPECIFICATION Spec
CONSTANTS
  d1 = d1  d2 = d2  s1 = s1  s2 = s2  g0 = g0
  Devices = {d1}
  KindOf <- SrvKind
  HostStack = "HostStack"
  Capacity <- SrvCapacity
  Classes = {1}
  Registrable = {}
  Semantics = {}
  Versions = {0}
  Descriptors = {}
  Scopes = {s1}
  Global = g0
  GrantIds = {1, 2}
  GrantTerms <- SrvTerms
  Requests <- SrvRequests
  Topologies <- SrvTopologies
  Policies <- SrvPolicies
  Bodies = {}
  Livenesses = {}
  Outcomes = {"Applied"}
  Expirable = {}
  AutoAccept = TRUE
  CommitCanFail = FALSE
  MaxEpoch = 1
  MaxTopo = 1
  MaxPol = 2
  MaxCap = 1
  MaxOrdinal = 2
  MaxFence = 3
  MaxPlans = 0
INVARIANTS
  ExclusiveAuthority
