SPECIFICATION Spec
CONSTANTS
  d1 = d1  d2 = d2  s1 = s1  s2 = s2  g0 = g0
  Devices = {d1}
  KindOf <- SrvKind
  HostStack = "HostStack"
  Capacity <- PlcCapacity
  Classes = {1, 2}
  Registrable = {}
  Semantics = {}
  Versions = {0}
  Descriptors = {}
  Scopes = {s1, s2}
  Global = g0
  GrantIds = {1}
  GrantTerms <- PlcTerms
  Requests <- PlcRequests
  Topologies <- SrvTopologies
  Policies <- PlcPolicies
  Bodies = {}
  Livenesses = {}
  Outcomes = {}
  Expirable = {"pol"}
  AutoAccept = TRUE
  CommitCanFail = TRUE
  MaxEpoch = 1
  MaxTopo = 1
  MaxPol = 1
  MaxCap = 1
  MaxOrdinal = 3
  MaxFence = 3
  MaxPlans = 1
INVARIANTS
  ExclusiveAuthority
  UseBudget
  IndexSound
  NoPhantomDemand
