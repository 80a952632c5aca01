------------------------------ MODULE MCFabric ------------------------------
(* Small instances of Fabric for TLC. *)
EXTENDS Fabric, TLC

CONSTANTS d1, d2, s1, s2, g0

\* Rules: authority alone, and with liveness evidence.
Permit == [kinds |-> {"Nic"}, fallback |-> FALSE, reqCap |-> FALSE, reqObs |-> FALSE,
           reqAuth |-> TRUE, need |-> {}, key |-> "PerClass", maxPerDev |-> 3, maxMoves |-> 1]
Observe == [Permit EXCEPT !.reqObs = TRUE]

Ask(c, s) == [cls |-> c, scope |-> s, excl |-> TRUE, demand |-> 1,
              repl |-> FALSE, fallback |-> FALSE, dep |-> NoDep, need |-> {}, ver |-> 0]

AllTerms(actions, ceiling, max) ==
  [g \in GrantIds |-> [actions |-> actions, classes |-> Classes,
                       kinds |-> {KindOf[d] : d \in Devices}, scopes |-> Scopes,
                       ceiling |-> ceiling, max |-> max]]

\* One device and one class: restarts, re-authorization, liveness, late reports.
SrvKind == [d \in Devices |-> "Nic"]
SrvCapacity == [d \in Devices |-> 2]
SrvTerms == AllTerms(Actions, {}, 0)
SrvRequests == {Ask(1, s) : s \in Scopes}
SrvTopologies == {[d \in Devices |-> 1]}
RebootTopologies == {[d \in Devices |-> 1], [d \in Devices |-> 2]}
SrvPolicies == {[c \in Classes |-> Permit]}
ObsPolicies == {[c \in Classes |-> Observe]}
EvPolicies == {[c \in Classes |-> [Observe EXCEPT !.reqCap = TRUE]]}
\* What a function may need and what a device may support.
Described(need, ver) == [reg |-> TRUE, need |-> need, ver |-> ver]
Supports(masks) == [revoked |-> FALSE, versions |-> {0}, supported |-> masks, denied |-> {}]
EvBodies == {Supports({})}
\* A network device and a host stack.  Class 1 runs on the network device and
\* needs capability and liveness evidence; class 2 depends on class 1 and may
\* fall back to the host.  The function of class 1 is registered again and again:
\* the device does not support one of its needs, the grant does not reach the other.
AgrKind == [d \in Devices |-> IF d = d2 THEN "HostStack" ELSE "Nic"]
AgrTerms == AllTerms({"Place"}, {"checksum"}, 0)
AgrPolicies ==
  {[c \in Classes |-> IF c = 1 THEN [Permit EXCEPT !.reqCap = TRUE, !.reqObs = TRUE]
                      ELSE [Permit EXCEPT !.kinds = {"Nic", "HostStack"}, !.fallback = TRUE]]}
AgrDescriptors == {Described({}, 0), Described({"checksum"}, 0), Described({"segment"}, 0)}
AgrBodies == {Supports({"segment"})}
AgrRequests == {Ask(1, s1), [Ask(2, s1) EXCEPT !.dep = 1, !.fallback = TRUE]}
\* Two classes, one claiming a class and one the whole scope; replacements,
\* plans applied late, a use budget.
PlcCapacity == [d \in Devices |-> 3]
PlcTerms == AllTerms({"Place", "Revoke"}, {}, 2)
PlcPolicies ==
  {[c \in Classes |-> [Permit EXCEPT !.key = IF c = 1 THEN "PerClass" ELSE "PerScope"]]}
PlcRequests ==
  {[Ask(c, s1) EXCEPT !.repl = b] : c \in Classes, b \in BOOLEAN} \cup
  {[Ask(1, s2) EXCEPT !.excl = FALSE]}
=============================================================================
