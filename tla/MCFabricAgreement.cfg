SPECIFICATION Spec
CONSTANTS
  d1 = d1  d2 = d2  s1 = s1  s2 = s2  g0 = g0
  Devices = {d1, d2}
  KindOf <- AgrKind
  HostStack = "HostStack"
  Capacity <- SrvCapacity
  Classes = {1, 2}
  Registrable = {1}
  Semantics = {"checksum", "segment"}
  Versions = {0}
  Descriptors <- AgrDescriptors
  Scopes = {s1}
  Global = g0
  GrantIds = {1}
  GrantTerms <- AgrTerms
  Requests <- AgrRequests
  Topologies <- SrvTopologies
  Policies <- AgrPolicies
  Bodies <- AgrBodies
  Livenesses = {"Alive", "Degraded"}
  Outcomes = {}
  Expirable = {"topo", "grant"}
  AutoAccept = TRUE
  CommitCanFail = FALSE
  MaxEpoch = 1
  MaxTopo = 1
  MaxPol = 1
  MaxCap = 1
  MaxOrdinal = 2
  MaxFence = 2
  MaxPlans = 0
INVARIANTS
  HoldersValid
