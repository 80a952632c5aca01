SPECIFICATION Spec
CONSTANTS
  d1 = d1  d2 = d2  s1 = s1  s2 = s2  g0 = g0
  Devices = {d1}
  KindOf <- SrvKind
  HostStack = "HostStack"
  Capacity <- SrvCapacity
  Classes = {1}
  Registrable = {}
  Semantics = {}
  Versions = {0}
  Descriptors = {}
  Scopes = {s1}
  Global = g0
  GrantIds = {1}
  GrantTerms <- SrvTerms
  Requests <- SrvRequests
  Topologies <- RebootTopologies
  Policies <- EvPolicies
  Bodies <- EvBodies
  Livenesses = {"Alive", "Degraded"}
  Outcomes = {"Applied"}
  Expirable = {"obs", "cap"}
  AutoAccept = FALSE
  CommitCanFail = FALSE
  MaxEpoch = 2
  MaxTopo = 2
  MaxPol = 2
  MaxCap = 2
  MaxOrdinal = 1
  MaxFence = 2
  MaxPlans = 0
INVARIANTS
  HoldersFenced
  TargetPresent
  CapabilityBound
PROPERTIES
  ImplementsFencing
