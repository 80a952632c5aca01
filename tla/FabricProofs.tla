---------------------------- MODULE FabricProofs ----------------------------
(***************************************************************************)
(* The type invariant of Fabric, for every value of its constants, the     *)
(* facts about its operators that the other proof modules rest on, and     *)
(* that Fabric implements Fencing.                                         *)
(***************************************************************************)
EXTENDS Fabric, TLAPS, WellFoundedInduction

-----------------------------------------------------------------------------
(* Facts about the operators of Fabric *)

\* The least element of a non-empty set of numbers belongs to the set; the code
\* walks its ordered maps and takes the first match.
LEMMA MinInSet ==
  ASSUME NEW S, S \subseteq Nat, S # {}
  PROVE  Min(S) \in S
<1>1. PICK x \in S : \A y \in S : ~(<<y, x>> \in OpToRel(<, Nat))
  BY NatLessThanWellFounded, WFMin, Zenon
<1>2. \A y \in S : x <= y
  <2>1. TAKE y \in S
  <2>2. ~(y < x)
    BY <1>1 DEF OpToRel
  <2> QED BY <2>2
<1> QED BY <1>2 DEF Min

\* release_claims keeps the indexes well formed: a subtraction that would
\* underflow leaves zero.
LEMMA ReleasedType ==
  ASSUME NEW c \in Claims, NEW a, NEW S
  PROVE  Released(c, a, S) \in Claims
<1>1. \A m \in Nat : \A n : Monus(m, n) \in Nat
  BY DEF Monus
<1>2. ASSUME NEW d \in Devices
      PROVE  Released(c, a, S).committed[d] \in Nat
  BY <1>1 DEF Released, Claims
<1> QED BY <1>2 DEF Released, Claims

\* acquire_claims keeps the indexes well formed.
LEMMA AcquiredType ==
  ASSUME NEW c \in Claims, NEW i \in Ids, NEW r \in Assignment
  PROVE  Acquired(c, i, r) \in Claims
BY DEF Acquired, Claims, Assignment

\* A stored record keeps the map of assignments well formed.
AssignmentMap(a) == DOMAIN a \subseteq Ids /\ a \in [DOMAIN a -> Assignment]

LEMMA PutType ==
  ASSUME NEW a, AssignmentMap(a), NEW i \in Ids, NEW r \in Assignment
  PROVE  AssignmentMap(Put(a, i, r))
BY DEF AssignmentMap, Put

\* store_assignment, on the type invariant.
LEMMA StoreType ==
  ASSUME TypeOK, NEW i \in Ids, NEW r \in Assignment, Store(i, r)
  PROVE  AssignmentMap(asg') /\ claims' \in Claims
<1>1. AssignmentMap(asg) /\ claims \in Claims
  BY DEF TypeOK, AssignmentMap
<1>2. AssignmentMap(asg')
  BY <1>1, PutType DEF Store
<1>3. claims' \in Claims
  BY <1>1, ReleasedType, AcquiredType DEF Store, Inserted
<1> QED BY <1>2, <1>3

\* Changing the state of a record to another one keeps it a record.
LEMMA RestateType ==
  ASSUME NEW r \in Assignment, NEW st \in Live \cup Terminal
  PROVE  [r EXCEPT !.st = st] \in Assignment
BY DEF Assignment

\* revalidate_locked, complete or stopped half way, on the type invariant.
LEMMA RevalidateType ==
  ASSUME TypeOK, NEW e, NEW last, RevalidateUpTo(e, last)
  PROVE  AssignmentMap(asg') /\ claims' \in Claims /\ unjudged' \subseteq Ids
<1> DEFINE S == {i \in Restored(asg, e) : i <= last}
<1>1. claims' \in Claims
  BY ReleasedType DEF RevalidateUpTo, TypeOK
<1>2. ASSUME NEW i \in DOMAIN asg
      PROVE  (IF i \in S THEN [asg[i] EXCEPT !.st = Revalidated(asg[i], e)]
                         ELSE asg[i]) \in Assignment
  <2>1. asg[i] \in Assignment
    BY DEF TypeOK
  <2>2. Revalidated(asg[i], e) \in Live \cup Terminal
    <3>1. asg[i].st \in Live \cup Terminal
      BY <2>1 DEF Assignment
    <3> QED BY <3>1 DEF Revalidated, Live
  <2> QED BY <2>1, <2>2, RestateType
<1>3. AssignmentMap(asg')
  BY <1>2 DEF RevalidateUpTo, TypeOK, AssignmentMap
<1>4. unjudged' \subseteq Ids
  BY DEF RevalidateUpTo, TypeOK
<1> QED BY <1>1, <1>3, <1>4

\* A superseded holder leaves the map well formed, whoever it is.
LEMMA SupersededType ==
  ASSUME NEW a, AssignmentMap(a), NEW h
  PROVE  AssignmentMap(Superseded(a, h))
<1>1. CASE h \in DOMAIN a
  <2>1. [a[h] EXCEPT !.st = "Superseded"] \in Assignment
    BY <1>1, RestateType DEF AssignmentMap, Terminal
  <2> QED BY <1>1, <2>1 DEF AssignmentMap, Superseded
<1>2. CASE h \notin DOMAIN a
  BY <1>2 DEF AssignmentMap, Superseded
<1> QED BY <1>1, <1>2

\* A plan that plan_locked accepts is a plan.
LEMMA PlanForType ==
  ASSUME TypeOK, NEW q \in Request, NEW d \in Devices, Plannable(q, d)
  PROVE  PlanFor(q, d) \in PlanRecord
<1>1. ev \in Evidence /\ ev.topo \in Topology /\ ev.pol \in Policy
  BY DEF TypeOK, Evidence
<1>2. ev.topo.inc[d] \in Nat \ {0} /\ ev.topo.gen \in Nat /\ ev.pol.gen \in Nat
  BY <1>1 DEF Plannable, Eligible, Topology, Policy
<1> DEFINE f == Required(q)
           need == f.need \cup ev.pol.rule[q.cls].need
<1>3. CapabilityGeneration(f, q.cls, d) \in Nat
  <2>1. ev.cap[<<d, q.cls>>] \in Capability
    BY <1>1 DEF Evidence, Request
  <2> QED BY <2>1 DEF CapabilityGeneration, Capability
<1>4. (IF ev.pol.rule[q.cls].reqAuth
       THEN Min(Admitting(ev, asg, q.cls, d, q.scope, need)) ELSE NoGrant)
        \in GrantIds \cup {NoGrant}
  <2>1. CASE ev.pol.rule[q.cls].reqAuth
    <3>1. Admitting(ev, asg, q.cls, d, q.scope, need) # {}
      BY <2>1 DEF Plannable, Eligible
    <3>2. Admitting(ev, asg, q.cls, d, q.scope, need) \subseteq GrantIds
      BY DEF Admitting
    <3>3. GrantIds \subseteq Nat
      BY ConstantsAssumption
    <3> QED BY <2>1, <3>1, <3>2, <3>3, MinInSet
  <2> QED BY <2>1
<1>5. need \subseteq Semantics
  <2>1. ev.functions[q.cls] \in Function /\ ev.pol.rule[q.cls] \in Rule
    BY <1>1 DEF Evidence, Policy, Request
  <2> QED BY <2>1 DEF Required, Function, Rule, Request
<1> QED BY <1>2, <1>3, <1>4, <1>5 DEF PlanFor, PlanRecord, Request

\* The record authorize_locked stores for a plan is an assignment.
LEMMA NewAssignmentType ==
  ASSUME TypeOK, NEW p \in PlanRecord
  PROVE  NewAssignment(p) \in Assignment
<1>1. ev.pol.rule[p.cls].key \in KeyModes
  <2>1. ev.pol.rule[p.cls] \in Rule
    BY DEF TypeOK, Evidence, Policy, PlanRecord
  <2> QED BY <2>1 DEF Rule
<1>2. NewFence \in Fence
  BY DEF NewFence, Fence, TypeOK
<1> QED BY <1>1, <1>2 DEF NewAssignment, Assignment, PlanRecord, Live, Holding

\* authorize_locked, complete or interrupted, keeps the type invariant.
LEMMA AuthorizeType ==
  ASSUME TypeOK, NEW p \in PlanRecord,
         Authorize(p) \/ AuthorizeInterrupted(p) \/ AuthorizeFails
  PROVE  TypeOK'
<1> DEFINE h == Displaced(p)
<1>1. AssignmentMap(asg) /\ claims \in Claims /\ nextOrd \in 0..MaxOrdinal
  BY DEF TypeOK, AssignmentMap
<1>2. AssignmentMap(Superseded(asg, h))
  BY <1>1, SupersededType
<1>3. Relinquished(claims, asg, h) \in Claims
  BY <1>1, ReleasedType DEF Relinquished
<1>4. Stamped(p) \in [Scopes \X Classes -> Nat]
  BY DEF Stamped, TypeOK, PlanRecord
<1>5. NoClaims \in Claims
  BY DEF NoClaims, Claims
<1>6. MaxOrdinal \in Nat
  BY ConstantsAssumption
<1>7. CASE Authorize(p)
  <2>1. nextOrd + 1 \in Ids
    BY <1>1, <1>6, <1>7 DEF Authorize, Issue, Ids
  <2>2. AssignmentMap(asg')
    BY <1>2, <1>7, <2>1, PutType, NewAssignmentType DEF Authorize
  <2>3. claims' \in Claims
    <3>1. Released(Relinquished(claims, asg, h), Superseded(asg, h),
                   DOMAIN Superseded(asg, h) \cap {nextOrd + 1}) \in Claims
      BY <1>3, ReleasedType
    <3> QED BY <1>7, <2>1, <3>1, AcquiredType, NewAssignmentType DEF Authorize, Inserted
  <2>4. nextOrd' \in 0..MaxOrdinal /\ nextFence' \in Nat
    BY <1>6, <1>7 DEF Authorize, Issue, TypeOK
  <2> QED BY <1>4, <1>7, <2>2, <2>3, <2>4 DEF Authorize, TypeOK, AssignmentMap
<1>8. CASE AuthorizeInterrupted(p)
  <2>1. AssignmentMap(asg')
    BY <1>2, <1>8 DEF AuthorizeInterrupted
  <2>2. claims' \in Claims /\ moves' \in [Scopes \X Classes -> Nat]
    BY <1>3, <1>4, <1>5, <1>8 DEF AuthorizeInterrupted, LoseMemory, TypeOK
  <2>3. nextOrd' \in 0..MaxOrdinal /\ nextFence' \in Nat
    BY <1>6, <1>8 DEF AuthorizeInterrupted, LoseMemory, Issue, TypeOK
  <2>4. phase' \in {"down", "recovering", "up"}
    BY <1>8 DEF AuthorizeInterrupted, LoseMemory, TypeOK
  <2> QED BY <1>8, <2>1, <2>2, <2>3, <2>4
          DEF AuthorizeInterrupted, TypeOK, AssignmentMap
<1>9. CASE AuthorizeFails
  BY <1>6, <1>9 DEF AuthorizeFails, Issue, TypeOK
<1> QED BY <1>7, <1>8, <1>9

\* apply_locked, also when replace calls it, keeps the type invariant.
LEMMA ApplyType ==
  ASSUME TypeOK, NEW q \in Request, NEW d \in Devices, Apply(q, d)
  PROVE  TypeOK'
BY PlanForType, AuthorizeType DEF Apply

\* Accepting a well-formed piece of evidence keeps the type invariant.
LEMMA AcceptType ==
  ASSUME TypeOK, NEW e \in Evidence, Accept(e)
  PROVE  TypeOK'
<1>1. PICK last : RevalidateUpTo(e, last)
  BY DEF Accept, RevalidateAll
<1>2. AssignmentMap(asg') /\ claims' \in Claims /\ unjudged' \subseteq Ids
  BY <1>1, RevalidateType
<1> QED BY <1>2 DEF Accept, TypeOK, AssignmentMap

-----------------------------------------------------------------------------
(* Type correctness *)

\* The steps of the evidence producers keep the type invariant.
LEMMA EvidenceStepType == TypeOK /\ EvidenceStep => TypeOK'
<1> SUFFICES ASSUME TypeOK, EvidenceStep PROVE TypeOK'
  OBVIOUS
<1>0. ev \in Evidence /\ epoch \in Nat
  BY DEF TypeOK
<1>1. ASSUME NEW c \in Registrable, NEW f \in Descriptors, RegisterFunction(c, f)
      PROVE  TypeOK'
  <2>1. c \in Classes /\ f \in Function
    BY ConstantsAssumption
  <2>2. ev' \in Evidence
    BY <1>0, <1>1, <2>1 DEF RegisterFunction, Evidence
  <2>3. unjudged' \subseteq Ids
    BY <1>1 DEF RegisterFunction, TypeOK
  <2> QED BY <1>1, <2>2, <2>3 DEF RegisterFunction, TypeOK
<1>2. ASSUME NEW inc \in Topologies, IngestTopology(inc) PROVE TypeOK'
  <2> DEFINE t == [gen |-> NextGeneration(ev.topo), ep |-> epoch, fresh |-> TRUE, inc |-> inc]
  <2>1. t \in Topology
    BY <1>0, ConstantsAssumption DEF Evidence, Topology, NextGeneration
  <2>2. [ev EXCEPT !.topo = t] \in Evidence
    BY <1>0, <2>1 DEF Evidence
  <2> QED BY <1>2, <2>2, AcceptType DEF IngestTopology
<1>3. ASSUME NEW rule \in Policies, IngestPolicy(rule) PROVE TypeOK'
  <2> DEFINE t == [gen |-> NextGeneration(ev.pol), ep |-> epoch, fresh |-> TRUE, rule |-> rule]
  <2>1. t \in Policy
    BY <1>0, ConstantsAssumption DEF Evidence, Policy, NextGeneration
  <2>2. [ev EXCEPT !.pol = t] \in Evidence
    BY <1>0, <2>1 DEF Evidence
  <2> QED BY <1>3, <2>2, AcceptType DEF IngestPolicy
<1>4. ASSUME NEW d \in Devices, NEW c \in Classes, NEW gen \in 1..MaxCap, NEW body \in Bodies,
             NEW inc \in {t[d] : t \in Topologies} \ {0},
             IngestCapability(d, c, gen, inc, body)
      PROVE  TypeOK'
  <2> DEFINE r == [gen |-> gen, ep |-> epoch, fresh |-> TRUE, inc |-> inc, body |-> body]
  <2>1. r \in Capability
    BY <1>0, ConstantsAssumption DEF Capability
  <2>2. [ev EXCEPT !.cap[<<d, c>>] = r] \in Evidence
    BY <1>0, <2>1 DEF Evidence
  <2> QED BY <1>4, <2>2, AcceptType DEF IngestCapability
<1>5. ASSUME NEW d \in Devices, NEW live \in Livenesses, IngestObservation(d, live)
      PROVE  TypeOK'
  <2> DEFINE o == [ep |-> epoch, fresh |-> TRUE, inc |-> ev.topo.inc[d], live |-> live]
  <2>1. o \in Observation
    BY <1>0 DEF Observation, Evidence, Topology
  <2>2. [ev EXCEPT !.obs[d] = o] \in Evidence
    BY <1>0, <2>1 DEF Evidence
  <2> QED BY <1>5, <2>2, AcceptType DEF IngestObservation
<1>6. ASSUME NEW g \in GrantIds, GrantAuthority(g) PROVE TypeOK'
  <2> DEFINE r == [pgen |-> ev.pol.gen, ep |-> epoch, fresh |-> TRUE, revoked |-> FALSE]
  <2>1. r \in Grant
    BY <1>0 DEF Grant, Evidence, Policy
  <2>2. ev' \in Evidence
    BY <1>0, <1>6, <2>1 DEF GrantAuthority, Evidence
  <2> QED BY <1>6, <2>2 DEF GrantAuthority, TypeOK
<1>7. ASSUME NEW g \in GrantIds, WithdrawAuthority(g) PROVE TypeOK'
  <2>1. [ev.grants[g] EXCEPT !.revoked = TRUE] \in Grant
    BY <1>0 DEF Evidence, Grant
  <2>2. [ev EXCEPT !.grants[g].revoked = TRUE] \in Evidence
    BY <1>0, <2>1 DEF Evidence
  <2> QED BY <1>7, <2>2, AcceptType DEF WithdrawAuthority
<1>8. CASE Revalidate
  <2>1. PICK last : RevalidateUpTo(ev, last)
    BY <1>8 DEF Revalidate
  <2>2. AssignmentMap(asg') /\ claims' \in Claims /\ unjudged' \subseteq Ids
    BY <2>1, RevalidateType
  <2> QED BY <1>8, <2>2 DEF Revalidate, TypeOK, AssignmentMap
<1>9. CASE Expire
  <2>1. ev.topo \in Topology /\ ev.pol \in Policy
    BY <1>0 DEF Evidence
  <2>2. ev' \in Evidence
    <3>1. CASE ev' = [ev EXCEPT !.topo.fresh = FALSE]
      BY <1>0, <2>1, <3>1 DEF Evidence, Topology
    <3>2. CASE ev' = [ev EXCEPT !.pol.fresh = FALSE]
      BY <1>0, <2>1, <3>2 DEF Evidence, Policy
    <3>3. ASSUME NEW k \in Devices \X Classes, ev' = [ev EXCEPT !.cap[k].fresh = FALSE]
          PROVE  ev' \in Evidence
      <4>1. [ev.cap[k] EXCEPT !.fresh = FALSE] \in Capability
        <5>1. ev.cap[k] \in Capability
          BY <1>0 DEF Evidence
        <5> QED BY <5>1 DEF Capability
      <4> QED BY <1>0, <3>3, <4>1 DEF Evidence
    <3>4. ASSUME NEW d \in Devices, ev' = [ev EXCEPT !.obs[d].fresh = FALSE]
          PROVE  ev' \in Evidence
      <4>1. [ev.obs[d] EXCEPT !.fresh = FALSE] \in Observation
        BY <1>0 DEF Evidence, Observation
      <4> QED BY <1>0, <3>4, <4>1 DEF Evidence
    <3>5. ASSUME NEW g \in GrantIds, ev' = [ev EXCEPT !.grants[g].fresh = FALSE]
          PROVE  ev' \in Evidence
      <4>1. [ev.grants[g] EXCEPT !.fresh = FALSE] \in Grant
        BY <1>0 DEF Evidence, Grant
      <4> QED BY <1>0, <3>5, <4>1 DEF Evidence
    <3> QED BY <1>9, <3>1, <3>2, <3>3, <3>4, <3>5 DEF Expire
  <2> QED BY <1>9, <2>2 DEF Expire, TypeOK
<1> QED BY <1>1, <1>2, <1>3, <1>4, <1>5, <1>6, <1>7, <1>8, <1>9 DEF EvidenceStep

\* The steps of the clients and of the enforcement plane keep the type invariant.
LEMMA PlacementStepType == TypeOK /\ PlacementStep => TypeOK'
<1> SUFFICES ASSUME TypeOK, PlacementStep PROVE TypeOK'
  OBVIOUS
<1>0. \A i \in DOMAIN asg : i \in Ids /\ asg[i] \in Assignment
  BY DEF TypeOK
<1>1. ASSUME NEW q \in Requests, NEW d \in Devices, Plan(q, d) PROVE TypeOK'
  <2>1. PlanFor(q, d) \in PlanRecord
    BY <1>1, ConstantsAssumption, PlanForType DEF Plan
  <2> QED BY <1>1, <2>1 DEF Plan, TypeOK
<1>2. ASSUME NEW q \in Requests, NEW d \in Devices, Apply(q, d) PROVE TypeOK'
  BY <1>2, ConstantsAssumption, ApplyType
<1>3. ASSUME NEW p \in plans, NEW allow \in BOOLEAN, ApplyPlan(p, allow) PROVE TypeOK'
  BY <1>3, AuthorizeType DEF ApplyPlan, TypeOK
<1>4. ASSUME NEW i \in DOMAIN asg, NEW d \in Devices, Replace(i, d) PROVE TypeOK'
  <2> DEFINE q == [cls |-> asg[i].cls, scope |-> asg[i].scope, excl |-> asg[i].excl,
                   demand |-> asg[i].demand, repl |-> TRUE, fallback |-> FALSE,
                   dep |-> NoDep, need |-> {}, ver |-> 0]
  <2>1. q \in Request
    BY <1>0, ConstantsAssumption DEF Assignment, Request
  <2> QED BY <1>4, <2>1, ApplyType DEF Replace
<1>5. ASSUME NEW i \in DOMAIN asg, NEW g \in GrantIds \cup {NoGrant}, Revoke(i, g)
      PROVE  TypeOK'
  <2>1. [asg[i] EXCEPT !.st = "Revoked"] \in Assignment
    BY <1>0, RestateType DEF Terminal
  <2>2. AssignmentMap(asg') /\ claims' \in Claims
    BY <1>0, <1>5, <2>1, StoreType DEF Revoke
  <2> QED BY <1>5, <2>2 DEF Revoke, TypeOK, AssignmentMap
<1>6. ASSUME NEW i \in DOMAIN asg, NEW g \in GrantIds, Reauthorize(i, g) PROVE TypeOK'
  <2>1. PICK st \in {"Dispatched", "Degraded"}, cap \in Nat :
          Store(i, [asg[i] EXCEPT !.st = st, !.fence = NewFence, !.auth = g,
                                  !.bPol = ev.pol.gen, !.bTopo = ev.topo.gen,
                                  !.bCap = cap, !.eff = {}])
    <3>1. ev.cap[<<asg[i].dev, asg[i].cls>>].gen \in Nat /\ asg[i].bCap \in Nat
      <4>1. ev.cap[<<asg[i].dev, asg[i].cls>>] \in Capability /\ asg[i].bCap \in Nat
        BY <1>0 DEF TypeOK, Evidence, Assignment
      <4> QED BY <4>1 DEF Capability
    <3> QED BY <1>6, <3>1 DEF Reauthorize, Reauthorizable
  <2> DEFINE r == [asg[i] EXCEPT !.st = st, !.fence = NewFence, !.auth = g,
                                 !.bPol = ev.pol.gen, !.bTopo = ev.topo.gen,
                                 !.bCap = cap, !.eff = {}]
  <2>2. r \in Assignment
    <3>1. NewFence \in Fence
      BY DEF NewFence, Fence, TypeOK
    <3>2. ev.pol.gen \in Nat /\ ev.topo.gen \in Nat
      BY DEF TypeOK, Evidence, Policy, Topology
    <3>3. st \in Live \cup Terminal
      BY DEF Live, Holding
    <3>4. asg[i] \in Assignment
      BY <1>0
    <3> QED BY <3>1, <3>2, <3>3, <3>4 DEF Assignment
  <2>3. AssignmentMap(asg') /\ claims' \in Claims
    BY <1>0, <2>1, <2>2, StoreType
  <2>4. nextFence' \in Nat
    BY <1>6 DEF Reauthorize, TypeOK
  <2> QED BY <1>6, <2>3, <2>4 DEF Reauthorize, TypeOK, AssignmentMap
<1>7. ASSUME NEW i \in DOMAIN asg, NEW f \in Tokens, NEW o \in Outcomes, ReportEffect(i, f, o)
      PROVE  TypeOK'
  <2> DEFINE r == [asg[i] EXCEPT !.st = AfterEffect(asg[i].st, o),
                                 !.eff = asg[i].eff \cup {o}]
  <2>1. AfterEffect(asg[i].st, o) \in Live \cup Terminal
    <3>1. asg[i].st \in Live \cup Terminal
      BY <1>0 DEF Assignment
    <3>2. o \in {"Applied", "Rejected", "Failed", "Unknown"}
      BY ConstantsAssumption
    <3> QED BY <3>1, <3>2 DEF AfterEffect, Live, Holding, Terminal
  <2>2. r \in Assignment
    BY <1>0, <2>1 DEF Assignment
  <2>3. AssignmentMap(asg') /\ claims' \in Claims
    BY <1>0, <1>7, <2>2, StoreType DEF ReportEffect
  <2> QED BY <1>7, <2>3 DEF ReportEffect, TypeOK, AssignmentMap
<1>8. ASSUME NEW i \in DOMAIN asg, NEW g \in GrantIds, ReauthorizeFails(i, g) PROVE TypeOK'
  BY <1>8 DEF ReauthorizeFails, TypeOK
<1> QED BY <1>1, <1>2, <1>3, <1>4, <1>5, <1>6, <1>7, <1>8 DEF PlacementStep

\* Starts, crashes, recoveries and compactions keep the type invariant.
LEMMA ProcessStepType == TypeOK /\ ProcessStep => TypeOK'
<1> SUFFICES ASSUME TypeOK, ProcessStep PROVE TypeOK'
  OBVIOUS
<1>0. MaxOrdinal \in Nat /\ NoClaims \in Claims
  BY ConstantsAssumption DEF NoClaims, Claims
<1>1. ASSUME NEW last PROVE AssignmentMap(Suspended(asg, last))
  <2>1. ASSUME NEW i \in DOMAIN asg
        PROVE  asg[i] \in Assignment /\ [asg[i] EXCEPT !.st = "Suspended"] \in Assignment
    BY RestateType DEF TypeOK, Live
  <2> QED BY <2>1 DEF Suspended, AssignmentMap, TypeOK
<1>2. CASE Start
  <2>1. ev' \in Evidence
    <3>1. NoObservation \in Observation
      BY DEF NoObservation, Observation
    <3> QED BY <1>2, <3>1 DEF Start, TypeOK, Evidence
  <2>2. nextOrd' \in 0..MaxOrdinal
    BY <1>0, <1>2 DEF Start, TypeOK, LiveIds, Ids
  <2>3. AssignmentMap(asg')
    BY <1>1, <1>2 DEF Start
  <2> QED BY <1>0, <1>2, <2>1, <2>2, <2>3 DEF Start, TypeOK, AssignmentMap
<1>3. CASE StartInterrupted
  <2>1. AssignmentMap(asg')
    BY <1>1, <1>3 DEF StartInterrupted
  <2> QED BY <1>3, <2>1 DEF StartInterrupted, TypeOK, AssignmentMap
<1>4. CASE Stop
  BY <1>0, <1>4 DEF Stop, LoseMemory, TypeOK
<1>5. CASE AcceptRecovery
  BY <1>5 DEF AcceptRecovery, TypeOK
<1>6. CASE Compact
  BY <1>6 DEF Compact, TypeOK
<1> QED BY <1>2, <1>3, <1>4, <1>5, <1>6 DEF ProcessStep

\* Type correctness: no sequence of operations, restarts and late calls takes a
\* variable out of its type; in particular the committed demand of a device
\* never goes below zero and an index never names what is not an identifier.
THEOREM TypeCorrect == Spec => []TypeOK
<1>1. Init => TypeOK
  <2> SUFFICES ASSUME Init PROVE TypeOK
    OBVIOUS
  <2>1. NoRule \in Rule /\ NoBody \in Body /\ Unregistered \in Function
    BY ConstantsAssumption DEF NoRule, Rule, KeyModes, NoBody, Body, Unregistered, Function
  <2>2. NoEvidence \in Evidence
    BY <2>1 DEF NoEvidence, Evidence, Topology, Policy, Capability, Observation,
                NoObservation, Grant
  <2>3. NoClaims \in Claims
    BY DEF NoClaims, Claims
  <2> QED BY <2>2, <2>3, ConstantsAssumption DEF Init, TypeOK
<1>2. TypeOK /\ [Next]_vars => TypeOK'
  <2>1. TypeOK /\ UNCHANGED vars => TypeOK'
    BY DEF TypeOK, vars
  <2> QED BY <2>1, EvidenceStepType, PlacementStepType, ProcessStepType DEF Next
<1> QED BY <1>1, <1>2, PTL DEF Spec

-----------------------------------------------------------------------------
(* Fabric implements Fencing: each step does one of three things to the records.  It *)
(* carries every token over, it gives one identifier a new token, or it strips the    *)
(* records of a new lifetime of their authority.                                      *)

\* A record r that becomes s keeps its token; it leaves a terminal state never,
\* and regains authority only under a token of this lifetime.
Carried(r, s) ==
  /\ s.fence = r.fence
  /\ IsTerminal(r) => IsTerminal(s)
  /\ HoldsAuthority(s) /\ ~HoldsAuthority(r) => r.fence.ep = epoch

\* Every record of a is carried over into b.
AllCarried(a, b) == DOMAIN b = DOMAIN a /\ \A i \in DOMAIN a : Carried(a[i], b[i])

\* A record that is carried over is a May step of its attempt.
LEMMA CarriedMay ==
  ASSUME NEW r, NEW s, Carried(r, s)
  PROVE  [fence |-> s.fence, mode |-> Mode(s)]
           \in Promise!May([fence |-> r.fence, mode |-> Mode(r)])
BY DEF Carried, Mode, Promise!May, Promise!Modes, HoldsAuthority, IsTerminal, Holding, Terminal

\* Revalidation takes authority away and gives none, and leaves terminal
\* records alone.
LEMMA RevalidateCarries ==
  ASSUME TypeOK, NEW e, NEW last, RevalidateUpTo(e, last)
  PROVE  AllCarried(asg, asg')
<1>1. ASSUME NEW i \in DOMAIN asg PROVE Carried(asg[i], asg'[i])
  <2>1. CASE asg'[i] = asg[i]
    BY <2>1 DEF Carried
  <2>2. CASE /\ i \in Restored(asg, e)
             /\ asg'[i] = [asg[i] EXCEPT !.st = Revalidated(asg[i], e)]
    <3>1. IsLive(asg[i]) /\ Validity(asg[i], e) # "Ok"
      BY <2>2 DEF Restored
    <3>2. asg[i] \in Assignment
      BY DEF TypeOK
    <3>3. asg'[i].st \in {"Degraded", "Suspended"} /\ asg'[i].fence = asg[i].fence
      BY <2>2, <3>1, <3>2 DEF Revalidated, Assignment
    <3> QED BY <3>1, <3>3 DEF Carried, IsLive, IsTerminal, HoldsAuthority, Live, Holding, Terminal
  <2> QED BY <2>1, <2>2 DEF RevalidateUpTo
<1> QED BY <1>1 DEF AllCarried, RevalidateUpTo

\* Storing a record that is carried over carries every record over.
LEMMA StoreCarries ==
  ASSUME NEW i \in DOMAIN asg, NEW r, Carried(asg[i], r), Store(i, r)
  PROVE  AllCarried(asg, asg')
BY DEF Store, Put, AllCarried, Carried

\* Superseding a holder carries every record over.
LEMMA SupersededCarries ==
  ASSUME TypeOK, NEW h
  PROVE  AllCarried(asg, Superseded(asg, h))
<1>1. ASSUME NEW i \in DOMAIN asg PROVE Carried(asg[i], Superseded(asg, h)[i])
  <2>1. asg[i] \in Assignment
    BY DEF TypeOK
  <2>2. \/ Superseded(asg, h)[i] = asg[i]
        \/ Superseded(asg, h)[i] = [asg[i] EXCEPT !.st = "Superseded"]
    BY DEF Superseded
  <2> QED BY <2>1, <2>2 DEF Carried, IsTerminal, HoldsAuthority, Holding, Terminal, Assignment
<1> QED BY <1>1 DEF AllCarried, Superseded

\* A running process that only carries tokens over takes a Carry step.
LEMMA CarryStep ==
  ASSUME Running, AllCarried(asg, asg'), phase' = phase, epoch' = epoch,
         nextFence' \in {nextFence, nextFence + 1}
  PROVE  Promise!Carry
<1>1. \A i \in DOMAIN asg :
        [fence |-> asg'[i].fence, mode |-> Mode(asg'[i])]
          \in Promise!May([fence |-> asg[i].fence, mode |-> Mode(asg[i])])
  BY CarriedMay DEF AllCarried
<1> QED BY <1>1 DEF Promise!Carry, Attempts, AllCarried, Running, Mode

\* A process that stops carries tokens over and takes a Halt step.
LEMMA HaltStep ==
  ASSUME Running, AllCarried(asg, asg'), LoseMemory, epoch' = epoch
  PROVE  Promise!Halt
<1>1. \A i \in DOMAIN asg :
        [fence |-> asg'[i].fence, mode |-> Mode(asg'[i])]
          \in Promise!May([fence |-> asg[i].fence, mode |-> Mode(asg[i])])
  BY CarriedMay DEF AllCarried
<1> QED BY <1>1 DEF Promise!Halt, Attempts, AllCarried, Running, Mode, LoseMemory

\* A new attempt of i next to records that are carried over is a Try step.
LEMMA TryStep ==
  ASSUME NEW i \in Ids, Running, phase' = phase, epoch' = epoch,
         nextFence' = nextFence + 1,
         DOMAIN asg' = DOMAIN asg \cup {i},
         asg'[i].fence = NewFence, ~IsTerminal(asg'[i]),
         \A j \in DOMAIN asg \ {i} : Carried(asg[j], asg'[j])
  PROVE  Promise!Try(i)
<1>1. \A j \in DOMAIN asg \ {i} :
        [fence |-> asg'[j].fence, mode |-> Mode(asg'[j])]
          \in Promise!May([fence |-> asg[j].fence, mode |-> Mode(asg[j])])
  BY CarriedMay
<1>2. Mode(asg'[i]) \in {"holding", "idle"}
  BY DEF Mode
<1>3. Attempts'[i] = [fence |-> NewFence, mode |-> Mode(asg'[i])]
  BY DEF Attempts, Mode
<1>4. \A j \in DOMAIN asg \ {i} : Attempts'[j] \in Promise!May(Attempts[j])
  BY <1>1 DEF Attempts, Mode
<1>5. DOMAIN Attempts' = DOMAIN Attempts \cup {i} /\ DOMAIN Attempts = DOMAIN asg
  BY DEF Attempts
<1>6. Running'
  BY DEF Running
<1> QED BY <1>2, <1>3, <1>4, <1>5, <1>6 DEF Promise!Try, NewFence

\* authorize_locked issues one token, or only supersedes.
LEMMA AuthorizeSteps ==
  ASSUME TypeOK, Up, NEW p \in PlanRecord,
         Authorize(p) \/ AuthorizeInterrupted(p) \/ AuthorizeFails
  PROVE  Promise!Next
<1> DEFINE h == Displaced(p)
           n == nextOrd + 1
<1>0. Running
  BY DEF Up, Running
<1>1. AllCarried(asg, Superseded(asg, h))
  BY SupersededCarries
<1>2. CASE Authorize(p)
  <2>1. n \in Ids /\ nextFence' = nextFence + 1
    BY <1>2, ConstantsAssumption DEF Authorize, Issue, Ids, TypeOK
  <2>2. /\ DOMAIN asg' = DOMAIN asg \cup {n}
        /\ asg'[n] = NewAssignment(p)
        /\ \A j \in DOMAIN asg \ {n} : asg'[j] = Superseded(asg, h)[j]
    BY <1>1, <1>2 DEF Authorize, Put, AllCarried
  <2>3. asg'[n].fence = NewFence /\ ~IsTerminal(asg'[n])
    BY <2>2 DEF NewAssignment, IsTerminal, Terminal
  <2>4. \A j \in DOMAIN asg \ {n} : Carried(asg[j], asg'[j])
    BY <1>1, <2>2 DEF AllCarried
  <2>5. Promise!Try(n)
    BY <1>0, <1>2, <2>1, <2>2, <2>3, <2>4, TryStep DEF Authorize
  <2> QED BY <2>1, <2>5 DEF Promise!Next
<1>3. CASE AuthorizeInterrupted(p)
  <2>1. AllCarried(asg, asg')
    BY <1>1, <1>3 DEF AuthorizeInterrupted
  <2>2. CASE LoseMemory
    BY <1>0, <1>3, <2>1, <2>2, HaltStep DEF AuthorizeInterrupted, Promise!Next
  <2>3. CASE Issue /\ phase' = phase
    BY <1>0, <1>3, <2>1, <2>3, CarryStep DEF AuthorizeInterrupted, Issue, Promise!Next
  <2> QED BY <1>3, <2>2, <2>3 DEF AuthorizeInterrupted
<1>4. CASE AuthorizeFails
  <2>1. AllCarried(asg, asg')
    BY <1>4 DEF AuthorizeFails, AllCarried, Carried
  <2> QED BY <1>0, <1>4, <2>1, CarryStep DEF AuthorizeFails, Issue, Promise!Next
<1> QED BY <1>2, <1>3, <1>4

\* apply_locked, also when replace calls it.
LEMMA ApplySteps ==
  ASSUME TypeOK, NEW q \in Request, NEW d \in Devices, Apply(q, d)
  PROVE  Promise!Next
BY PlanForType, AuthorizeSteps DEF Apply

\* The steps of the evidence producers never issue a token.
LEMMA EvidenceSteps ==
  ASSUME TypeOK, EvidenceStep
  PROVE  [Promise!Next]_Promise!fvars
<1>1. ASSUME NEW e, Accept(e), Running PROVE Promise!Next
  BY <1>1, RevalidateCarries, CarryStep DEF Accept, RevalidateAll, Promise!Next
<1>2. CASE Revalidate
  BY <1>2, RevalidateCarries, CarryStep DEF Revalidate, Promise!Next
<1>3. CASE UNCHANGED <<phase, epoch, asg, nextFence>>
  BY <1>3 DEF Promise!fvars, Attempts, Running, Mode
<1>4. Up => Running
  BY DEF Up, Running
<1> QED BY <1>1, <1>2, <1>3, <1>4
        DEF EvidenceStep, RegisterFunction, IngestTopology, IngestPolicy, IngestCapability,
            IngestObservation, GrantAuthority, WithdrawAuthority, Expire

\* The steps of the clients and of the enforcement plane.
LEMMA PlacementSteps ==
  ASSUME TypeOK, PlacementStep
  PROVE  [Promise!Next]_Promise!fvars
<1>0. /\ \A i \in DOMAIN asg : i \in Ids /\ asg[i] \in Assignment
      /\ Up => Running
  BY DEF TypeOK, Up, Running
<1>1. ASSUME NEW q \in Requests, NEW d \in Devices, Plan(q, d)
      PROVE  UNCHANGED Promise!fvars
  BY <1>1 DEF Plan, Promise!fvars, Attempts, Running, Mode
<1>2. ASSUME NEW q \in Requests, NEW d \in Devices, Apply(q, d) PROVE Promise!Next
  BY <1>2, ConstantsAssumption, ApplySteps
<1>3. ASSUME NEW p \in plans, NEW allow \in BOOLEAN, ApplyPlan(p, allow) PROVE Promise!Next
  BY <1>3, AuthorizeSteps DEF ApplyPlan, TypeOK
<1>4. ASSUME NEW i \in DOMAIN asg, NEW d \in Devices, Replace(i, d) PROVE Promise!Next
  <2> DEFINE q == [cls |-> asg[i].cls, scope |-> asg[i].scope, excl |-> asg[i].excl,
                   demand |-> asg[i].demand, repl |-> TRUE, fallback |-> FALSE,
                   dep |-> NoDep, need |-> {}, ver |-> 0]
  <2>1. q \in Request
    BY <1>0, ConstantsAssumption DEF Assignment, Request
  <2> QED BY <1>4, <2>1, ApplySteps DEF Replace
<1>5. ASSUME NEW i \in DOMAIN asg, NEW g \in GrantIds \cup {NoGrant}, Revoke(i, g)
      PROVE  Promise!Next
  <2>1. Carried(asg[i], [asg[i] EXCEPT !.st = "Revoked"])
    BY <1>0 DEF Carried, IsTerminal, HoldsAuthority, Terminal, Holding, Assignment
  <2> QED BY <1>0, <1>5, <2>1, StoreCarries, CarryStep DEF Revoke, Promise!Next
<1>6. ASSUME NEW i \in DOMAIN asg, NEW g \in GrantIds, Reauthorize(i, g)
      PROVE  Promise!Next
  <2>1. PICK r : Store(i, r) /\ r.fence = NewFence /\ r.st \in {"Dispatched", "Degraded"}
    <3> DEFINE r == [asg[i] EXCEPT
                       !.st = IF TargetValidity(asg[i], ev, FALSE) = "Ok"
                              THEN "Dispatched" ELSE "Degraded",
                       !.fence = NewFence, !.auth = g,
                       !.bPol = ev.pol.gen, !.bTopo = ev.topo.gen,
                       !.bCap = IF ev.cap[<<asg[i].dev, asg[i].cls>>].gen # 0
                                THEN ev.cap[<<asg[i].dev, asg[i].cls>>].gen ELSE @,
                       !.eff = {}]
    <3>1. Store(i, r)
      BY <1>6 DEF Reauthorize
    <3>2. r.fence = NewFence /\ r.st \in {"Dispatched", "Degraded"}
      BY <1>0 DEF Assignment
    <3> QED BY <3>1, <3>2
  <2>2. /\ DOMAIN asg' = DOMAIN asg \cup {i} /\ asg'[i] = r
        /\ \A j \in DOMAIN asg \ {i} : Carried(asg[j], asg'[j])
    BY <2>1 DEF Store, Put, Carried
  <2>3. ~IsTerminal(asg'[i])
    BY <2>1, <2>2 DEF IsTerminal, Terminal
  <2>4. Promise!Try(i)
    BY <1>0, <1>6, <2>1, <2>2, <2>3, TryStep DEF Reauthorize, Reauthorizable
  <2> QED BY <1>0, <2>4 DEF Promise!Next
<1>7. ASSUME NEW i \in DOMAIN asg, NEW f \in Tokens, NEW o \in Outcomes, ReportEffect(i, f, o)
      PROVE  Promise!Next
  <2> DEFINE r == [asg[i] EXCEPT !.st = AfterEffect(asg[i].st, o),
                                 !.eff = asg[i].eff \cup {o}]
  <2>1. asg[i].fence.ep = epoch /\ ~IsTerminal(asg[i])
    BY <1>7 DEF ReportEffect, TokenAccepted
  <2>2. Carried(asg[i], r)
    BY <1>0, <2>1 DEF Carried, Assignment
  <2> QED BY <1>0, <1>7, <2>2, StoreCarries, CarryStep DEF ReportEffect, Promise!Next
<1>8. ASSUME NEW i \in DOMAIN asg, NEW g \in GrantIds, ReauthorizeFails(i, g)
      PROVE  Promise!Next
  <2>1. AllCarried(asg, asg')
    BY <1>8 DEF ReauthorizeFails, AllCarried, Carried
  <2> QED BY <1>0, <1>8, <2>1, CarryStep DEF ReauthorizeFails, Reauthorizable, Promise!Next
<1> QED BY <1>1, <1>2, <1>3, <1>4, <1>5, <1>6, <1>7, <1>8 DEF PlacementStep

\* Starts, crashes, recoveries and compactions.
LEMMA ProcessSteps ==
  ASSUME TypeOK, ProcessStep
  PROVE  [Promise!Next]_Promise!fvars
<1>0. ASSUME NEW last, NEW i \in DOMAIN asg
      PROVE  LET r == asg[i]
                 s == Suspended(asg, last)[i]
                 x == [fence |-> r.fence, mode |-> Mode(r)]
                 y == [fence |-> s.fence, mode |-> Mode(s)]
             IN y \in {x, Promise!Stripped(x)} /\ (i <= last => y = Promise!Stripped(x))
  <2>1. asg[i] \in Assignment
    BY DEF TypeOK
  <2>2. asg[i].st \in Live \cup Terminal
    BY <2>1 DEF Assignment
  <2>3. CASE Suspended(asg, last)[i] = asg[i] /\ ~(IsLive(asg[i]) /\ i <= last)
    BY <2>2, <2>3 DEF Mode, Promise!Stripped, IsLive, Live, HoldsAuthority
  <2>4. CASE Suspended(asg, last)[i] = [asg[i] EXCEPT !.st = "Suspended"] /\ IsLive(asg[i])
    BY <2>1, <2>4 DEF Mode, Promise!Stripped, IsLive, Live, HoldsAuthority, IsTerminal,
                      Holding, Terminal, Assignment
  <2> QED BY <2>3, <2>4 DEF Suspended
<1>1. CASE Start
  <2>1. asg' = Suspended(asg, MaxOrdinal) /\ \A i \in DOMAIN asg : i <= MaxOrdinal
    BY <1>1, ConstantsAssumption DEF Start, TypeOK, Ids
  <2>2. DOMAIN asg' = DOMAIN asg
    BY <2>1 DEF Suspended
  <2>3. \A i \in DOMAIN Attempts : Attempts'[i] = Promise!Stripped(Attempts[i])
    BY <1>0, <2>1, <2>2 DEF Attempts, Mode
  <2>4. DOMAIN Attempts' = DOMAIN Attempts
    BY <2>2 DEF Attempts
  <2>5. ~Running /\ Running'
    BY <1>1 DEF Start, Running
  <2>6. Promise!Begin
    BY <1>1, <2>3, <2>4, <2>5 DEF Start, Promise!Begin
  <2> QED BY <2>6 DEF Promise!Next
<1>2. CASE StartInterrupted
  <2>1. PICK last : asg' = Suspended(asg, last)
    BY <1>2 DEF StartInterrupted
  <2>2. DOMAIN asg' = DOMAIN asg
    BY <2>1 DEF Suspended
  <2>3. \A i \in DOMAIN Attempts : Attempts'[i] \in {Attempts[i], Promise!Stripped(Attempts[i])}
    BY <1>0, <2>1, <2>2 DEF Attempts, Mode
  <2>4. DOMAIN Attempts' = DOMAIN Attempts
    BY <2>2 DEF Attempts
  <2>5. Promise!BeginInVain
    BY <1>2, <2>3, <2>4 DEF StartInterrupted, Promise!BeginInVain, Running
  <2> QED BY <2>5 DEF Promise!Next
<1>3. CASE Stop
  <2>1. AllCarried(asg, asg')
    BY <1>3 DEF Stop, AllCarried, Carried
  <2> QED BY <1>3, <2>1, HaltStep DEF Stop, Promise!Next
<1>4. CASE AcceptRecovery
  BY <1>4 DEF AcceptRecovery, Promise!fvars, Attempts, Running, Mode
<1>5. CASE Compact
  BY <1>5 DEF Compact, Promise!fvars, Attempts, Running, Mode
<1> QED BY <1>1, <1>2, <1>3, <1>4, <1>5 DEF ProcessStep

-----------------------------------------------------------------------------
\* The coordinator implements the fencing promise.
THEOREM FabricImplementsFencing == Spec => ImplementsFencing
<1>1. Init => Promise!Init
  BY DEF Init, Promise!Init, Running, Attempts
<1>2. TypeOK /\ [Next]_vars => [Promise!Next]_Promise!fvars
  <2>1. UNCHANGED vars => UNCHANGED Promise!fvars
    BY DEF vars, Promise!fvars, Running, Attempts, Mode
  <2> QED BY <2>1, EvidenceSteps, PlacementSteps, ProcessSteps DEF Next
<1> QED BY <1>1, <1>2, TypeCorrect, PTL DEF Spec, ImplementsFencing, Promise!Spec

\* No token of an earlier lifetime, and none that was not issued, is behind a
\* holder of a running process.
THEOREM FabricHoldersFenced == Spec => []HoldersFenced
<1>1. TypeOK /\ Promise!FenceInv => HoldersFenced
  BY DEF Promise!FenceInv, Promise!Held, Promise!Issued, HoldersFenced, Attempts, Mode
<1> QED BY <1>1, TypeCorrect, FabricImplementsFencing, Promise!FencingSafe, PTL
        DEF ImplementsFencing

\* Two assignments never carry the same fencing token.
THEOREM FabricFencesUnique == Spec => []FencesUnique
<1>1. Promise!FenceInv => FencesUnique
  BY DEF Promise!FenceInv, Promise!Unique, FencesUnique, Attempts
<1> QED BY <1>1, FabricImplementsFencing, Promise!FencingSafe, PTL DEF ImplementsFencing

\* A terminal record comes back to life only as a new attempt, whose token
\* dominates the old one.
THEOREM FabricNoAttemptRevives == Spec => NoAttemptRevives
<1> DEFINE Stays == \A i \in DOMAIN asg :
                      IsTerminal(asg[i]) /\ ~IsTerminal(asg'[i]) =>
                        Dominates(asg'[i].fence, asg[i].fence)
<1>1. [Promise!Next]_Promise!fvars /\ [Promise!EndedStays]_Promise!fvars => [Stays]_vars
  <2> SUFFICES ASSUME [Promise!Next]_Promise!fvars, [Promise!EndedStays]_Promise!fvars,
                      NEW i \in DOMAIN asg, IsTerminal(asg[i]), ~IsTerminal(asg'[i])
               PROVE  Dominates(asg'[i].fence, asg[i].fence)
    OBVIOUS
  <2>1. i \in DOMAIN asg'
    <3>1. DOMAIN Attempts \subseteq DOMAIN Attempts'
      BY DEF Promise!Next, Promise!Carry, Promise!Try, Promise!Halt, Promise!Begin,
             Promise!BeginInVain, Promise!fvars
    <3> QED BY <3>1 DEF Attempts
  <2>2. Attempts[i].mode = "ended" /\ Attempts[i].fence = asg[i].fence
    BY DEF Attempts, Mode, IsTerminal, HoldsAuthority, Terminal, Holding
  <2>3. Attempts'[i].mode # "ended" /\ Attempts'[i].fence = asg'[i].fence
    BY <2>1 DEF Attempts, Mode, IsTerminal
  <2>4. Promise!Later(Attempts'[i].fence, Attempts[i].fence)
    BY <2>2, <2>3 DEF Promise!EndedStays, Promise!fvars, Attempts
  <2> QED BY <2>2, <2>3, <2>4 DEF Promise!Later, Dominates
<1>2. Spec => [][Stays]_vars
  BY <1>1, FabricImplementsFencing, Promise!FencingMonotone, PTL
     DEF ImplementsFencing, Promise!Spec
<1> QED BY <1>2 DEF NoAttemptRevives
=============================================================================
