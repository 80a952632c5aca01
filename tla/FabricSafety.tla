---------------------------- MODULE FabricSafety ----------------------------
(***************************************************************************)
(* The safety of Fabric beyond tokens: what holds authority has its target *)
(* and its capability, exclusive claims exclude each other, grants stay    *)
(* within their budget, the books charge nobody for demand that is not     *)
(* held, and placement and revalidation agree.                             *)
(*                                                                         *)
(* A theorem assumes what the code needs for it to be true and no more;    *)
(* each hypothesis on the constants names a behaviour of the program       *)
(* without which the README has a counterexample.                          *)
(***************************************************************************)
EXTENDS FabricProofs, FiniteSetTheorems

-----------------------------------------------------------------------------
(* What a step does to the records and their claims *)

\* Evidence f says what e says, but for its freshness, for the functions that are
\* registered and for grants that e does not know.
SameEvidence(e, f) ==
  /\ f.topo.gen = e.topo.gen /\ f.topo.ep = e.topo.ep /\ f.topo.inc = e.topo.inc
  /\ f.pol.gen = e.pol.gen /\ f.pol.ep = e.pol.ep /\ f.pol.rule = e.pol.rule
  /\ \A k \in Devices \X Classes :
       /\ f.cap[k].gen = e.cap[k].gen /\ f.cap[k].ep = e.cap[k].ep
       /\ f.cap[k].inc = e.cap[k].inc /\ f.cap[k].body = e.cap[k].body
  /\ \A d \in Devices :
       f.obs[d].ep = e.obs[d].ep /\ f.obs[d].inc = e.obs[d].inc /\ f.obs[d].live = e.obs[d].live
  /\ \A g \in GrantIds : e.grants[g].ep # 0 =>
       /\ f.grants[g].ep = e.grants[g].ep /\ f.grants[g].pgen = e.grants[g].pgen
       /\ f.grants[g].revoked = e.grants[g].revoked

\* Evidence f is later than e: an observation is one that may be reported, a capability
\* is the old one or accepted in this lifetime.
LaterEvidence(e, f) ==
  /\ \A d \in Devices : f.obs[d].live \in Livenesses \cup {e.obs[d].live}
  /\ \A k \in Devices \X Classes : f.cap[k] = e.cap[k] \/ f.cap[k].ep = epoch

\* A record that counts as judged was judged already, for the function still registered.
StillJudged ==
  \A i \in DOMAIN asg \ unjudged' :
    i \notin unjudged /\ ev'.functions[asg[i].cls] = ev.functions[asg[i].cls]

\* No record and no claim changes, nor what the evidence says.
StillStep ==
  /\ asg' = asg /\ claims' = claims /\ (Running' <=> Running) /\ epoch' = epoch
  /\ SameEvidence(ev, ev') /\ StillJudged

\* Records are looked at again, all of them or up to some identifier.
RevalidateStep ==
  /\ Running /\ Running' /\ epoch' = epoch
  /\ LaterEvidence(ev, ev')
  /\ \E last : /\ RevalidateUpTo(ev', last)
               /\ ~CommitCanFail => last = MaxOrdinal \/ ev' = ev

\* A record stored again keeps what it claims.
SameClaim(r, s) ==
  /\ s.cls = r.cls /\ s.scope = r.scope /\ s.excl = r.excl /\ s.key = r.key
  /\ s.demand = r.demand /\ s.dev = r.dev /\ s.inc = r.inc

\* A record is stored again: with no more authority than it had, because a degraded
\* one is reported to be applied, or as a new attempt.
Kept(r, s) ==
  /\ s.auth = r.auth /\ s.bCap = r.bCap
  /\ s.fence = r.fence /\ s.bTopo = r.bTopo /\ s.bPol = r.bPol
  /\ HoldsAuthority(s) => HoldsAuthority(r)
  /\ s.st = "Degraded" => r.st = "Degraded"

Regained(r, s) ==
  /\ s.auth = r.auth /\ s.bCap = r.bCap
  /\ r.st = "Degraded" /\ "Applied" \in Outcomes /\ s.st = "AppliedVerified"

Resumed(i, s) ==
  LET c == ev.cap[<<asg[i].dev, asg[i].cls>>] IN
  /\ Reauthorizable(i, s.auth) /\ s.auth \in GrantIds
  /\ s.st = IF TargetValidity(asg[i], ev, FALSE) = "Ok" THEN "Dispatched" ELSE "Degraded"
  /\ s.bCap = IF c.gen # 0 THEN c.gen ELSE asg[i].bCap

StoreStep ==
  /\ Running /\ Running' /\ ev' = ev /\ epoch' = epoch
  /\ \E i \in DOMAIN asg, r \in Assignment :
       /\ Store(i, r) /\ SameClaim(asg[i], r)
       /\ Kept(asg[i], r) \/ Regained(asg[i], r) \/ Resumed(i, r)
       /\ unjudged' = unjudged \/ (Resumed(i, r) /\ unjudged' = unjudged \ {i})

\* A plan just made or kept is authorized, or the holder in its way superseded.
AuthorizeStep ==
  /\ Up /\ ev' = ev /\ epoch' = epoch
  /\ \E p \in PlanRecord, allow \in BOOLEAN :
       /\ p \in plans \/ \E q \in Request, d \in Devices : Plannable(q, d) /\ p = PlanFor(q, d)
       /\ Authorizable(p, allow)
       /\ Authorize(p) \/ AuthorizeInterrupted(p)

\* A process ends, or dies in its start.
DownStep ==
  /\ ~Running' /\ claims' \in {claims, NoClaims} /\ (Running => claims' = NoClaims)
  /\ ev' = ev /\ (asg' = asg \/ \E last : asg' = Suspended(asg, last))
  /\ epoch' = epoch \/ (epoch' = epoch + 1 /\ epoch < MaxEpoch - 1)

\* authorize_locked, called with a plan, does one of these.
LEMMA AuthorizeCases ==
  ASSUME TypeOK, Up, NEW p \in PlanRecord, NEW allow \in BOOLEAN, Authorizable(p, allow),
         p \in plans \/ \E q \in Request, d \in Devices : Plannable(q, d) /\ p = PlanFor(q, d),
         Authorize(p) \/ AuthorizeInterrupted(p) \/ AuthorizeFails
  PROVE  StillStep \/ AuthorizeStep
<1>1. CASE AuthorizeFails
  BY <1>1 DEF AuthorizeFails, StillStep, SameEvidence, StillJudged, Running
<1>2. CASE Authorize(p) \/ AuthorizeInterrupted(p)
  <2>1. ev' = ev /\ epoch' = epoch
    BY <1>2 DEF Authorize, AuthorizeInterrupted
  <2> QED BY <1>2, <2>1 DEF AuthorizeStep
<1> QED BY <1>1, <1>2

\* apply_locked.
LEMMA ApplyCases ==
  ASSUME TypeOK, NEW q \in Request, NEW d \in Devices, Apply(q, d)
  PROVE  StillStep \/ AuthorizeStep
<1> DEFINE p == PlanFor(q, d)
<1>1. /\ Up /\ Plannable(q, d) /\ Authorizable(p, q.repl) /\ q.repl \in BOOLEAN
      /\ Authorize(p) \/ AuthorizeInterrupted(p) \/ AuthorizeFails
  BY DEF Apply, Request
<1>2. p \in PlanRecord
  BY <1>1, PlanForType
<1>3. \E qq \in Request, dd \in Devices : Plannable(qq, dd) /\ p = PlanFor(qq, dd)
  BY <1>1
<1> HIDE DEF p
<1> QED BY <1>1, <1>2, <1>3, AuthorizeCases

\* Accepted evidence, under which the records are looked at again.
LEMMA AcceptCases ==
  ASSUME NEW e, Accept(e), Running, LaterEvidence(ev, e)
  PROVE  RevalidateStep
<1>1. PICK last : RevalidateUpTo(e, last) /\ (~CommitCanFail => last = MaxOrdinal)
  BY DEF Accept, RevalidateAll
<1>2. ev' = e /\ phase' = phase /\ epoch' = epoch
  BY DEF Accept
<1> QED BY <1>1, <1>2 DEF RevalidateStep, Running

\* Evidence that leaves observations and capabilities alone is later.
LEMMA LaterAtOnce ==
  ASSUME NEW e, NEW f, f.obs = e.obs, f.cap = e.cap
  PROVE  LaterEvidence(e, f)
BY DEF LaterEvidence

\* The steps of the evidence producers.
LEMMA EvidenceCases ==
  ASSUME TypeOK, EvidenceStep
  PROVE  StillStep \/ RevalidateStep
<1>0. /\ ev \in Evidence /\ ev.topo \in Topology /\ ev.pol \in Policy
      /\ ev.cap \in [Devices \X Classes -> Capability]
      /\ ev.obs \in [Devices -> Observation] /\ ev.grants \in [GrantIds -> Grant]
      /\ Up => Running
  BY DEF TypeOK, Evidence, Up, Running
<1>1. ASSUME NEW c \in Registrable, NEW f \in Descriptors, RegisterFunction(c, f)
      PROVE  StillStep
  <2>1. /\ ev'.topo = ev.topo /\ ev'.pol = ev.pol /\ ev'.cap = ev.cap /\ ev'.obs = ev.obs
        /\ ev'.grants = ev.grants /\ ev'.functions = [ev.functions EXCEPT ![c] = f]
    BY <1>0, <1>1 DEF RegisterFunction, Evidence
  <2>2. /\ asg' = asg /\ claims' = claims /\ phase' = phase /\ epoch' = epoch
        /\ unjudged' = unjudged \cup {i \in DOMAIN asg : asg[i].cls = c}
    BY <1>1 DEF RegisterFunction
  <2>3. StillJudged
    BY <2>1, <2>2 DEF StillJudged
  <2> QED BY <2>1, <2>2, <2>3 DEF StillStep, SameEvidence, Running
<1>2. ASSUME NEW inc \in Topologies, IngestTopology(inc) PROVE RevalidateStep
  <2> DEFINE e == [ev EXCEPT !.topo = [gen |-> NextGeneration(ev.topo), ep |-> epoch,
                                       fresh |-> TRUE, inc |-> inc]]
  <2>1. Accept(e) /\ Running
    BY <1>0, <1>2 DEF IngestTopology
  <2>2. e.obs = ev.obs /\ e.cap = ev.cap
    BY <1>0 DEF Evidence
  <2> HIDE DEF e
  <2> QED BY <2>1, <2>2, LaterAtOnce, AcceptCases
<1>3. ASSUME NEW rule \in Policies, IngestPolicy(rule) PROVE RevalidateStep
  <2> DEFINE e == [ev EXCEPT !.pol = [gen |-> NextGeneration(ev.pol), ep |-> epoch,
                                      fresh |-> TRUE, rule |-> rule]]
  <2>1. Accept(e) /\ Running
    BY <1>0, <1>3 DEF IngestPolicy
  <2>2. e.obs = ev.obs /\ e.cap = ev.cap
    BY <1>0 DEF Evidence
  <2> HIDE DEF e
  <2> QED BY <2>1, <2>2, LaterAtOnce, AcceptCases
<1>4. ASSUME NEW d \in Devices, NEW c \in Classes, NEW gen \in 1..MaxCap, NEW body \in Bodies,
             NEW inc \in {t[d] : t \in Topologies} \ {0},
             IngestCapability(d, c, gen, inc, body)
      PROVE  RevalidateStep
  <2> DEFINE e == [ev EXCEPT !.cap[<<d, c>>] = [gen |-> gen, ep |-> epoch, fresh |-> TRUE,
                                                inc |-> inc, body |-> body]]
  <2>1. Accept(e) /\ Running
    BY <1>0, <1>4 DEF IngestCapability
  <2>2. /\ e.obs = ev.obs
        /\ e.cap = [ev.cap EXCEPT ![<<d, c>>] = [gen |-> gen, ep |-> epoch, fresh |-> TRUE,
                                                 inc |-> inc, body |-> body]]
    BY <1>0 DEF Evidence
  <2> HIDE DEF e
  <2>3. LaterEvidence(ev, e)
    BY <1>0, <2>2 DEF LaterEvidence
  <2> QED BY <2>1, <2>3, AcceptCases
<1>5. ASSUME NEW d \in Devices, NEW live \in Livenesses, IngestObservation(d, live)
      PROVE  RevalidateStep
  <2> DEFINE e == [ev EXCEPT !.obs[d] = [ep |-> epoch, fresh |-> TRUE,
                                         inc |-> ev.topo.inc[d], live |-> live]]
  <2>1. Accept(e) /\ Running
    BY <1>0, <1>5 DEF IngestObservation
  <2>2. /\ \A x \in Devices : e.obs[x].live \in Livenesses \cup {ev.obs[x].live}
        /\ e.cap = ev.cap
    BY <1>0 DEF Evidence
  <2> HIDE DEF e
  <2>3. LaterEvidence(ev, e)
    BY <2>2 DEF LaterEvidence
  <2> QED BY <2>1, <2>3, AcceptCases
<1>6. ASSUME NEW g \in GrantIds, GrantAuthority(g) PROVE StillStep
  <2>1. /\ ev.grants[g].ep = 0 /\ asg' = asg /\ claims' = claims /\ phase' = phase /\ epoch' = epoch
        /\ ev'.topo = ev.topo /\ ev'.pol = ev.pol /\ ev'.cap = ev.cap /\ ev'.obs = ev.obs
        /\ \A x \in GrantIds : x # g => ev'.grants[x] = ev.grants[x]
        /\ ev'.functions = ev.functions /\ unjudged' = unjudged
    BY <1>0, <1>6 DEF GrantAuthority, Evidence
  <2> QED BY <2>1 DEF StillStep, SameEvidence, StillJudged, Running
<1>7. ASSUME NEW g \in GrantIds, WithdrawAuthority(g) PROVE RevalidateStep
  <2> DEFINE e == [ev EXCEPT !.grants[g].revoked = TRUE]
  <2>1. Accept(e) /\ Running
    BY <1>7 DEF WithdrawAuthority
  <2>2. e.obs = ev.obs /\ e.cap = ev.cap
    BY <1>0 DEF Evidence
  <2> HIDE DEF e
  <2> QED BY <2>1, <2>2, LaterAtOnce, AcceptCases
<1>8. CASE Revalidate
  BY <1>8 DEF Revalidate, RevalidateStep, LaterEvidence, Running
<1>9. CASE Expire
  <2>1. /\ asg' = asg /\ claims' = claims /\ phase' = phase /\ epoch' = epoch
        /\ unjudged' = unjudged /\ ev'.functions = ev.functions
    BY <1>0, <1>9 DEF Expire, Evidence
  <2>2. SameEvidence(ev, ev')
    <3>1. CASE ev' = [ev EXCEPT !.topo.fresh = FALSE]
      BY <1>0, <3>1 DEF Evidence, Topology, SameEvidence
    <3>2. CASE ev' = [ev EXCEPT !.pol.fresh = FALSE]
      BY <1>0, <3>2 DEF Evidence, Policy, SameEvidence
    <3>3. ASSUME NEW k \in Devices \X Classes, ev' = [ev EXCEPT !.cap[k].fresh = FALSE]
          PROVE  SameEvidence(ev, ev')
      <4>1. /\ ev'.topo = ev.topo /\ ev'.pol = ev.pol /\ ev'.obs = ev.obs /\ ev'.grants = ev.grants
            /\ ev'.cap = [ev.cap EXCEPT ![k].fresh = FALSE]
        BY <1>0, <3>3 DEF Evidence
      <4>2. ASSUME NEW x \in Devices \X Classes
            PROVE  /\ ev'.cap[x].gen = ev.cap[x].gen /\ ev'.cap[x].ep = ev.cap[x].ep
                   /\ ev'.cap[x].inc = ev.cap[x].inc /\ ev'.cap[x].body = ev.cap[x].body
        <5>1. ev.cap[x] \in Capability
          BY <1>0
        <5> QED BY <1>0, <4>1, <5>1 DEF Capability
      <4> QED BY <4>1, <4>2 DEF SameEvidence
    <3>4. ASSUME NEW d \in Devices, ev' = [ev EXCEPT !.obs[d].fresh = FALSE]
          PROVE  SameEvidence(ev, ev')
      <4>1. /\ ev'.topo = ev.topo /\ ev'.pol = ev.pol /\ ev'.cap = ev.cap /\ ev'.grants = ev.grants
            /\ ev'.obs = [ev.obs EXCEPT ![d].fresh = FALSE]
        BY <1>0, <3>4 DEF Evidence
      <4>2. ASSUME NEW x \in Devices
            PROVE  /\ ev'.obs[x].ep = ev.obs[x].ep /\ ev'.obs[x].inc = ev.obs[x].inc
                   /\ ev'.obs[x].live = ev.obs[x].live
        <5>1. ev.obs[x] \in Observation
          BY <1>0
        <5> QED BY <1>0, <4>1, <5>1 DEF Observation
      <4> QED BY <4>1, <4>2 DEF SameEvidence
    <3>5. ASSUME NEW g \in GrantIds, ev' = [ev EXCEPT !.grants[g].fresh = FALSE]
          PROVE  SameEvidence(ev, ev')
      <4>1. /\ ev'.topo = ev.topo /\ ev'.pol = ev.pol /\ ev'.cap = ev.cap /\ ev'.obs = ev.obs
            /\ ev'.grants = [ev.grants EXCEPT ![g].fresh = FALSE]
        BY <1>0, <3>5 DEF Evidence
      <4>2. ASSUME NEW x \in GrantIds
            PROVE  /\ ev'.grants[x].ep = ev.grants[x].ep /\ ev'.grants[x].pgen = ev.grants[x].pgen
                   /\ ev'.grants[x].revoked = ev.grants[x].revoked
        <5>1. ev.grants[x] \in Grant
          BY <1>0
        <5> QED BY <1>0, <4>1, <5>1 DEF Grant
      <4> QED BY <4>1, <4>2 DEF SameEvidence
    <3> QED BY <1>9, <3>1, <3>2, <3>3, <3>4, <3>5 DEF Expire
  <2> QED BY <2>1, <2>2 DEF StillStep, StillJudged, Running
<1> QED BY <1>1, <1>2, <1>3, <1>4, <1>5, <1>6, <1>7, <1>8, <1>9 DEF EvidenceStep

\* The steps of the clients and of the enforcement plane.
LEMMA PlacementCases ==
  ASSUME TypeOK, PlacementStep
  PROVE  StillStep \/ StoreStep \/ AuthorizeStep
<1>0. /\ \A i \in DOMAIN asg : i \in Ids /\ asg[i] \in Assignment
      /\ Up => Running
  BY DEF TypeOK, Up, Running
<1>1. ASSUME NEW q \in Requests, NEW d \in Devices, Plan(q, d) PROVE StillStep
  BY <1>1 DEF Plan, StillStep, SameEvidence, StillJudged, Running
<1>2. ASSUME NEW q \in Requests, NEW d \in Devices, Apply(q, d)
      PROVE  StillStep \/ AuthorizeStep
  BY <1>2, ConstantsAssumption, ApplyCases
<1>3. ASSUME NEW p \in plans, NEW allow \in BOOLEAN, ApplyPlan(p, allow)
      PROVE  StillStep \/ AuthorizeStep
  <2>1. p \in PlanRecord /\ p.replace \in BOOLEAN
    BY DEF TypeOK, PlanRecord
  <2> DEFINE b == allow \/ p.replace
  <2>2. /\ b \in BOOLEAN /\ Up /\ Authorizable(p, b)
        /\ Authorize(p) \/ AuthorizeInterrupted(p) \/ AuthorizeFails
    BY <1>3, <2>1 DEF ApplyPlan
  <2> HIDE DEF b
  <2> QED BY <2>1, <2>2, AuthorizeCases
<1>4. ASSUME NEW i \in DOMAIN asg, NEW d \in Devices, Replace(i, d)
      PROVE  StillStep \/ AuthorizeStep
  <2> DEFINE q == [cls |-> asg[i].cls, scope |-> asg[i].scope, excl |-> asg[i].excl,
                   demand |-> asg[i].demand, repl |-> TRUE, fallback |-> FALSE,
                   dep |-> NoDep, need |-> {}, ver |-> 0]
  <2>1. q \in Request
    BY <1>0, ConstantsAssumption DEF Assignment, Request
  <2> QED BY <1>4, <2>1, ApplyCases DEF Replace
<1>5. ASSUME NEW i \in DOMAIN asg, NEW g \in GrantIds \cup {NoGrant}, Revoke(i, g)
      PROVE  StoreStep
  <2> DEFINE r == [asg[i] EXCEPT !.st = "Revoked"]
  <2>1. r \in Assignment
    BY <1>0, RestateType DEF Terminal
  <2>2. /\ r.st = "Revoked" /\ SameClaim(asg[i], r) /\ r.auth = asg[i].auth /\ r.bCap = asg[i].bCap
        /\ r.fence = asg[i].fence /\ r.bTopo = asg[i].bTopo /\ r.bPol = asg[i].bPol
    BY <1>0 DEF Assignment, SameClaim
  <2>3. Kept(asg[i], r)
    BY <2>2 DEF Kept, HoldsAuthority, Holding
  <2>4. Store(i, r) /\ ev' = ev /\ epoch' = epoch /\ Running /\ Running' /\ unjudged' = unjudged
    BY <1>0, <1>5 DEF Revoke, Running
  <2> QED BY <2>1, <2>2, <2>3, <2>4 DEF StoreStep
<1>6. ASSUME NEW i \in DOMAIN asg, NEW g \in GrantIds, Reauthorize(i, g)
      PROVE  StoreStep
  <2> DEFINE c == ev.cap[<<asg[i].dev, asg[i].cls>>]
             st == IF TargetValidity(asg[i], ev, FALSE) = "Ok" THEN "Dispatched" ELSE "Degraded"
             cap == IF c.gen # 0 THEN c.gen ELSE asg[i].bCap
             r == [asg[i] EXCEPT !.st = st, !.fence = NewFence, !.auth = g,
                                 !.bPol = ev.pol.gen, !.bTopo = ev.topo.gen,
                                 !.bCap = cap, !.eff = {}]
  <2>1. /\ Store(i, r) /\ ev' = ev /\ epoch' = epoch /\ Running /\ Running' /\ Reauthorizable(i, g)
        /\ unjudged' = unjudged \ {i}
    BY <1>0, <1>6 DEF Reauthorize, Reauthorizable, Running, Up
  <2>2. cap \in Nat
    <3>1. c \in Capability /\ asg[i].bCap \in Nat
      BY <1>0 DEF TypeOK, Evidence, Assignment
    <3> QED BY <3>1 DEF Capability
  <2>3. st \in {"Dispatched", "Degraded"}
    OBVIOUS
  <2>4. /\ st = IF TargetValidity(asg[i], ev, FALSE) = "Ok" THEN "Dispatched" ELSE "Degraded"
        /\ cap = IF ev.cap[<<asg[i].dev, asg[i].cls>>].gen # 0
                 THEN ev.cap[<<asg[i].dev, asg[i].cls>>].gen ELSE asg[i].bCap
    OBVIOUS
  <2> HIDE DEF c, st, cap
  <2>5. r \in Assignment
    <3>1. NewFence \in Fence
      BY DEF NewFence, Fence, TypeOK
    <3>2. ev.pol.gen \in Nat /\ ev.topo.gen \in Nat
      BY DEF TypeOK, Evidence, Policy, Topology
    <3>3. st \in Live \cup Terminal
      BY <2>3 DEF Live, Holding
    <3> QED BY <1>0, <2>2, <3>1, <3>2, <3>3 DEF Assignment
  <2>6. SameClaim(asg[i], r) /\ r.st = st /\ r.auth = g /\ r.bCap = cap
    BY <1>0 DEF Assignment, SameClaim
  <2> HIDE DEF r
  <2>7. Resumed(i, r)
    BY <2>1, <2>4, <2>6 DEF Resumed
  <2> QED BY <2>1, <2>5, <2>6, <2>7 DEF StoreStep
<1>7. ASSUME NEW i \in DOMAIN asg, NEW f \in Tokens, NEW o \in Outcomes, ReportEffect(i, f, o)
      PROVE  StoreStep
  <2> DEFINE r == [asg[i] EXCEPT !.st = AfterEffect(asg[i].st, o),
                                 !.eff = asg[i].eff \cup {o}]
  <2>0. o \in {"Applied", "Rejected", "Failed", "Unknown"} /\ asg[i] \in Assignment
    BY <1>0, ConstantsAssumption
  <2>1. AfterEffect(asg[i].st, o) \in Live \cup Terminal
    BY <2>0 DEF AfterEffect, Live, Holding, Terminal, Assignment
  <2>2. r \in Assignment
    BY <1>0, <2>1 DEF Assignment
  <2>3. /\ SameClaim(asg[i], r) /\ r.auth = asg[i].auth /\ r.bCap = asg[i].bCap
        /\ r.st = AfterEffect(asg[i].st, o)
        /\ r.fence = asg[i].fence /\ r.bTopo = asg[i].bTopo /\ r.bPol = asg[i].bPol
    BY <2>0 DEF Assignment, SameClaim
  <2>4. Store(i, r) /\ ev' = ev /\ epoch' = epoch /\ Running /\ Running' /\ unjudged' = unjudged
    BY <1>0, <1>7 DEF ReportEffect, Running
  <2>5. Kept(asg[i], r) \/ Regained(asg[i], r)
    <3>1. CASE o = "Applied"
      <4>1. asg[i].st \in {"Dispatched", "Acknowledged", "Degraded"} /\ r.st = "AppliedVerified"
        BY <1>7, <2>3, <3>1 DEF ReportEffect, AfterEffect
      <4> QED BY <2>3, <3>1, <4>1 DEF Kept, Regained, HoldsAuthority, Holding
    <3>2. CASE o # "Applied"
      <4>1. r.st = asg[i].st \/ r.st \in {"Rejected", "Failed"}
        BY <2>0, <2>3, <3>2 DEF AfterEffect
      <4> QED BY <2>3, <4>1 DEF Kept, HoldsAuthority, Holding
    <3> QED BY <3>1, <3>2
  <2> HIDE DEF r
  <2> QED BY <2>2, <2>3, <2>4, <2>5 DEF StoreStep
<1>8. ASSUME NEW i \in DOMAIN asg, NEW g \in GrantIds, ReauthorizeFails(i, g) PROVE StillStep
  BY <1>8 DEF ReauthorizeFails, StillStep, SameEvidence, StillJudged, Running
<1> QED BY <1>1, <1>2, <1>3, <1>4, <1>5, <1>6, <1>7, <1>8 DEF PlacementStep

\* Every step.
LEMMA StepCases ==
  ASSUME TypeOK, [Next]_vars
  PROVE  StillStep \/ RevalidateStep \/ StoreStep \/ AuthorizeStep \/ Start \/ DownStep
<1>1. CASE UNCHANGED vars
  BY <1>1 DEF vars, StillStep, SameEvidence, StillJudged, Running
<1>2. CASE StartInterrupted \/ Stop
  BY <1>2 DEF StartInterrupted, Stop, LoseMemory, DownStep, Running
<1>3. CASE AcceptRecovery \/ Compact
  BY <1>3 DEF AcceptRecovery, Compact, StillStep, SameEvidence, StillJudged, Running
<1> QED BY <1>1, <1>2, <1>3, EvidenceCases, PlacementCases DEF Next, ProcessStep

-----------------------------------------------------------------------------
(* Targets *)

Governed(r) == HoldsAuthority(r) \/ r.st = "Degraded"

\* r is bound to the target and to the capability generation that e has.
Bound(r, e) ==
  /\ e.topo.inc[r.dev] = r.inc
  /\ r.bCap # 0 => e.cap[<<r.dev, r.cls>>].gen = r.bCap

TargetsBound == Running => \A i \in DOMAIN asg : Governed(asg[i]) => Bound(asg[i], ev)

\* What revalidation lets stand has its target.
LEMMA ValidIsBound ==
  ASSUME NEW r, NEW e, Validity(r, e) \in {"Ok", "LivenessDegraded"}
  PROVE  Bound(r, e)
<1>1. TargetValidity(r, e, TRUE) \in {"Ok", "LivenessDegraded"}
  BY DEF Validity
<1>2. TargetSound(r, e, TRUE)
  BY <1>1 DEF TargetValidity
<1> QED BY <1>2 DEF TargetSound, SameTarget, CapabilityHolds, Bound

\* A revalidation.
LEMMA RevalidateBinds ==
  ASSUME TypeOK, TargetsBound, RevalidateStep, ~CommitCanFail,
         NEW i \in DOMAIN asg', Governed(asg'[i])
  PROVE  Bound(asg'[i], ev')
<1>1. PICK last : /\ RevalidateUpTo(ev', last)
                  /\ last = MaxOrdinal \/ ev' = ev
  BY DEF RevalidateStep
<1> DEFINE e == ev'
           S == {j \in Restored(asg, e) : j <= last}
           v == Validity(asg[i], e)
<1>2. i \in DOMAIN asg /\ asg[i] \in Assignment /\ i \in Ids
  BY <1>1 DEF RevalidateUpTo, TypeOK
<1>3. asg'[i] = IF i \in S THEN [asg[i] EXCEPT !.st = Revalidated(asg[i], e)] ELSE asg[i]
  BY <1>1, <1>2 DEF RevalidateUpTo
<1>4. CASE i \in S
  <2>1. v # "Ok" /\ asg'[i] = [asg[i] EXCEPT !.st = Revalidated(asg[i], e)]
    BY <1>3, <1>4 DEF Restored
  <2>2. asg'[i].st = Revalidated(asg[i], e)
    BY <1>2, <2>1 DEF Assignment
  <2>3. v = "LivenessDegraded"
    BY <2>1, <2>2 DEF Revalidated, Governed, HoldsAuthority, Holding
  <2>4. Bound(asg[i], e)
    BY <2>3, ValidIsBound
  <2>5. asg'[i].dev = asg[i].dev /\ asg'[i].inc = asg[i].inc /\ asg'[i].bCap = asg[i].bCap
        /\ asg'[i].cls = asg[i].cls
    BY <1>2, <2>1 DEF Assignment
  <2> QED BY <2>4, <2>5 DEF Bound
<1>5. CASE i \notin S
  <2>1. asg'[i] = asg[i] /\ Governed(asg[i])
    BY <1>3, <1>5
  <2>2. CASE last = MaxOrdinal
    <3>1. i \notin Restored(asg, e) /\ IsLive(asg[i])
      BY <1>2, <1>5, <2>1, <2>2, ConstantsAssumption
         DEF Ids, Governed, IsLive, HoldsAuthority, Live
    <3>2. v \in {"Ok", "LivenessDegraded"}
      BY <1>2, <3>1 DEF Restored
    <3> QED BY <2>1, <3>2, ValidIsBound
  <2>3. CASE ev' = ev
    BY <1>2, <2>1, <2>3 DEF TargetsBound, RevalidateStep
  <2> QED BY <1>1, <2>2, <2>3
<1> QED BY <1>4, <1>5

\* Every step, where no append fails.
LEMMA BoundKept ==
  ASSUME ~CommitCanFail, TypeOK, TargetsBound, [Next]_vars
  PROVE  TargetsBound'
<1> SUFFICES ASSUME Running', NEW i \in DOMAIN asg', Governed(asg'[i])
             PROVE  Bound(asg'[i], ev')
  BY DEF TargetsBound, Bound, Governed, HoldsAuthority
<1>0. \A j \in DOMAIN asg : asg[j] \in Assignment
  BY DEF TypeOK
<1>1. CASE StillStep
  <2>1. i \in DOMAIN asg /\ asg'[i] = asg[i] /\ Bound(asg[i], ev)
    BY <1>1 DEF StillStep, TargetsBound
  <2>2. <<asg[i].dev, asg[i].cls>> \in Devices \X Classes
    BY <1>0, <2>1 DEF Assignment
  <2> QED BY <1>1, <2>1, <2>2 DEF StillStep, SameEvidence, Bound
<1>2. CASE RevalidateStep
  BY <1>2, RevalidateBinds
<1>3. CASE StoreStep
  <2>1. PICK n \in DOMAIN asg, r \in Assignment :
          /\ Store(n, r) /\ SameClaim(asg[n], r)
          /\ Kept(asg[n], r) \/ Regained(asg[n], r) \/ Resumed(n, r)
    BY <1>3 DEF StoreStep
  <2>2. /\ i \in DOMAIN asg /\ asg'[n] = r /\ (i # n => asg'[i] = asg[i])
        /\ Running /\ ev' = ev
    BY <1>3, <2>1 DEF Store, Put, StoreStep
  <2>3. CASE i # n
    BY <2>2, <2>3 DEF TargetsBound
  <2>4. CASE i = n
    <3>1. CASE Kept(asg[n], r) \/ Regained(asg[n], r)
      <4>1. Governed(asg[n]) /\ r.bCap = asg[n].bCap
        BY <2>2, <2>4, <3>1 DEF Kept, Regained, Governed
      <4>2. Bound(asg[n], ev)
        BY <2>2, <4>1 DEF TargetsBound
      <4> QED BY <2>1, <2>2, <2>4, <4>1, <4>2 DEF Bound, SameClaim
    <3>2. CASE Resumed(n, r)
      <4>1. TargetSound(asg[n], ev, FALSE)
        BY <3>2 DEF Resumed, Reauthorizable, TargetValidity
      <4>2. /\ ev.topo.inc[asg[n].dev] = asg[n].inc
            /\ asg[n].bCap # 0 => ev.cap[<<asg[n].dev, asg[n].cls>>].gen # 0
        BY <4>1 DEF TargetSound, SameTarget, CapabilityHolds
      <4>3. r.bCap # 0 => ev.cap[<<asg[n].dev, asg[n].cls>>].gen = r.bCap
        BY <3>2, <4>2 DEF Resumed
      <4> QED BY <2>1, <2>2, <2>4, <4>2, <4>3 DEF Bound, SameClaim
    <3> QED BY <2>1, <3>1, <3>2
  <2> QED BY <2>3, <2>4
<1>4. CASE AuthorizeStep
  <2>1. PICK p \in PlanRecord, allow \in BOOLEAN :
          Authorizable(p, allow) /\ (Authorize(p) \/ AuthorizeInterrupted(p))
    BY <1>4 DEF AuthorizeStep
  <2>2. Running /\ ev' = ev
    BY <1>4 DEF AuthorizeStep, Running, Up
  <2> DEFINE h == Displaced(p)
  <2>3. ASSUME NEW j \in DOMAIN Superseded(asg, h), Governed(Superseded(asg, h)[j])
        PROVE  Bound(Superseded(asg, h)[j], ev)
    <3>1. j \in DOMAIN asg
      BY DEF Superseded
    <3>2. \/ Superseded(asg, h)[j] = asg[j]
          \/ Superseded(asg, h)[j] = [asg[j] EXCEPT !.st = "Superseded"]
      BY <3>1 DEF Superseded
    <3>3. Superseded(asg, h)[j] = asg[j]
      BY <1>0, <2>3, <3>1, <3>2 DEF Governed, HoldsAuthority, Holding, Assignment
    <3> QED BY <2>2, <2>3, <3>1, <3>3 DEF TargetsBound
  <2>4. CASE AuthorizeInterrupted(p)
    BY <2>2, <2>3, <2>4 DEF AuthorizeInterrupted
  <2>5. CASE Authorize(p)
    <3>1. asg' = Put(Superseded(asg, h), nextOrd + 1, NewAssignment(p))
      BY <2>5 DEF Authorize
    <3>2. Bound(NewAssignment(p), ev)
      BY <2>1 DEF Authorizable, NewAssignment, Bound
    <3>3. CASE i = nextOrd + 1
      BY <2>2, <3>1, <3>2, <3>3 DEF Put
    <3>4. CASE i # nextOrd + 1
      <4>1. i \in DOMAIN Superseded(asg, h) /\ asg'[i] = Superseded(asg, h)[i]
        BY <3>1, <3>4 DEF Put
      <4> QED BY <2>2, <2>3, <4>1
    <3> QED BY <3>3, <3>4
  <2> QED BY <2>1, <2>4, <2>5
<1>5. CASE Start
  <2>1. asg' = Suspended(asg, MaxOrdinal)
    BY <1>5 DEF Start
  <2>2. i \in DOMAIN asg /\ i <= MaxOrdinal
    BY <2>1, ConstantsAssumption DEF Suspended, TypeOK, Ids
  <2>3. asg'[i] = IF IsLive(asg[i]) THEN [asg[i] EXCEPT !.st = "Suspended"] ELSE asg[i]
    BY <2>1, <2>2 DEF Suspended
  <2>4. ~Governed(asg'[i])
    BY <1>0, <2>2, <2>3 DEF Governed, HoldsAuthority, IsLive, Live, Holding, Assignment
  <2> QED BY <2>4
<1>6. CASE DownStep
  BY <1>6 DEF DownStep
<1> QED BY <1>1, <1>2, <1>3, <1>4, <1>5, <1>6, StepCases

\* Where no append fails, whatever holds authority, or may regain it, has its target in
\* the topology, in its incarnation, and the capability generation it is bound to.
THEOREM FabricTargetsBound ==
  ASSUME ~CommitCanFail
  PROVE  Spec => []TargetsBound
<1>1. Init => TargetsBound
  BY DEF Init, TargetsBound, Running
<1>2. TypeOK /\ TargetsBound /\ [Next]_vars => TargetsBound'
  BY BoundKept
<1> QED BY <1>1, <1>2, TypeCorrect, PTL DEF Spec

\* Where no append fails, no holder, and no record an effect report could make one,
\* outlives its target: reboots and decommissionings suspend it in the same step.
THEOREM FabricTargetPresent ==
  ASSUME ~CommitCanFail
  PROVE  Spec => []TargetPresent
<1>1. TargetsBound => TargetPresent
  BY DEF TargetsBound, TargetPresent, Governed, Bound
<1> QED BY <1>1, FabricTargetsBound, PTL

\* Where no append fails, no holder, and no record an effect report could make one,
\* is bound to another capability generation than the one the fabric has.
THEOREM FabricCapabilityBound ==
  ASSUME ~CommitCanFail
  PROVE  Spec => []CapabilityBound
<1>1. TargetsBound => CapabilityBound
  BY DEF TargetsBound, CapabilityBound, Governed, Bound
<1> QED BY <1>1, FabricTargetsBound, PTL

-----------------------------------------------------------------------------
(* The exclusivity indexes *)

\* i is an exclusive holder in a that claims in this mode.
Claimant(a, i, mode) ==
  i \in DOMAIN a /\ HoldsAuthority(a[i]) /\ a[i].excl /\ a[i].key = mode

\* The indexes c name holders of a only, each under its key.
Sound(c, a) ==
  /\ \A k \in Scopes \X Classes :
       c.byClass[k] # 0 => /\ Claimant(a, c.byClass[k], "PerClass")
                           /\ <<a[c.byClass[k]].scope, a[c.byClass[k]].cls>> = k
  /\ \A s \in Scopes :
       c.byScope[s] # 0 => /\ Claimant(a, c.byScope[s], "PerScope")
                           /\ a[c.byScope[s]].scope = s

\* The indexes name every exclusive holder.
Complete(c, a) ==
  \A i \in DOMAIN a :
    /\ Claimant(a, i, "PerClass") => c.byClass[<<a[i].scope, a[i].cls>>] = i
    /\ Claimant(a, i, "PerScope") => c.byScope[a[i].scope] = i

\* r gets along with the holders of a other than i.
Compatible(a, i, r) ==
  HoldsAuthority(r) => \A j \in DOMAIN a \ {i} : HoldsAuthority(a[j]) => ~Overlap(a[j], r)

Exclusive(a) == \A i \in DOMAIN a : Compatible(a, i, a[i])

\* release_claims for records that give up their authority, if they had any.
LEMMA ReleasedSound ==
  ASSUME NEW c, NEW a, NEW S, Sound(c, a), NEW b, DOMAIN b = DOMAIN a,
         \A j \in DOMAIN a \ S : b[j] = a[j]
  PROVE  Sound(Released(c, a, S), b)
<1> DEFINE t == Released(c, a, S)
<1>1. ASSUME NEW k \in Scopes \X Classes, t.byClass[k] # 0
      PROVE  /\ Claimant(b, t.byClass[k], "PerClass")
             /\ <<b[t.byClass[k]].scope, b[t.byClass[k]].cls>> = k
  <2> DEFINE h == c.byClass[k]
  <2>1. t.byClass[k] = IF h \in S /\ <<a[h].scope, a[h].cls>> = k THEN 0 ELSE h
    BY DEF Released
  <2>2. h # 0 /\ t.byClass[k] = h
    BY <1>1, <2>1
  <2>3. Claimant(a, h, "PerClass") /\ <<a[h].scope, a[h].cls>> = k
    BY <2>2 DEF Sound
  <2>4. h \notin S
    BY <2>1, <2>2, <2>3
  <2>5. b[h] = a[h] /\ h \in DOMAIN b
    BY <2>3, <2>4 DEF Claimant
  <2> QED BY <2>2, <2>3, <2>5 DEF Claimant
<1>2. ASSUME NEW s \in Scopes, t.byScope[s] # 0
      PROVE  /\ Claimant(b, t.byScope[s], "PerScope")
             /\ b[t.byScope[s]].scope = s
  <2> DEFINE h == c.byScope[s]
  <2>1. t.byScope[s] = IF h \in S /\ a[h].scope = s THEN 0 ELSE h
    BY DEF Released
  <2>2. h # 0 /\ t.byScope[s] = h
    BY <1>2, <2>1
  <2>3. Claimant(a, h, "PerScope") /\ a[h].scope = s
    BY <2>2 DEF Sound
  <2>4. h \notin S
    BY <2>1, <2>2, <2>3
  <2>5. b[h] = a[h] /\ h \in DOMAIN b
    BY <2>3, <2>4 DEF Claimant
  <2> QED BY <2>2, <2>3, <2>5 DEF Claimant
<1> QED BY <1>1, <1>2 DEF Sound

LEMMA ReleasedComplete ==
  ASSUME NEW c, NEW a, AssignmentMap(a), NEW S, Complete(c, a), Exclusive(a),
         NEW b, DOMAIN b = DOMAIN a,
         \A j \in DOMAIN a \ S : b[j] = a[j],
         \A j \in DOMAIN a \cap S : ~HoldsAuthority(b[j])
  PROVE  Complete(Released(c, a, S), b) /\ Exclusive(b)
<1> DEFINE t == Released(c, a, S)
<1>1. \A j \in DOMAIN a : HoldsAuthority(b[j]) => j \notin S /\ b[j] = a[j]
  OBVIOUS
<1>2. Exclusive(b)
  BY <1>1 DEF Exclusive, Compatible
<1>3. ASSUME NEW i \in DOMAIN b, Claimant(b, i, "PerClass")
      PROVE  t.byClass[<<b[i].scope, b[i].cls>>] = i
  <2>1. i \notin S /\ b[i] = a[i] /\ i \in DOMAIN a /\ Claimant(a, i, "PerClass")
    BY <1>1, <1>3 DEF Claimant
  <2> DEFINE k == <<a[i].scope, a[i].cls>>
  <2>2. k \in Scopes \X Classes /\ c.byClass[k] = i
    BY <2>1 DEF Complete, AssignmentMap, Assignment
  <2> QED BY <2>1, <2>2 DEF Released
<1>4. ASSUME NEW i \in DOMAIN b, Claimant(b, i, "PerScope")
      PROVE  t.byScope[b[i].scope] = i
  <2>1. i \notin S /\ b[i] = a[i] /\ i \in DOMAIN a /\ Claimant(a, i, "PerScope")
    BY <1>1, <1>4 DEF Claimant
  <2>2. a[i].scope \in Scopes /\ c.byScope[a[i].scope] = i
    BY <2>1 DEF Complete, AssignmentMap, Assignment
  <2> QED BY <2>1, <2>2 DEF Released
<1> QED BY <1>2, <1>3, <1>4 DEF Complete

\* insert_assignment.
LEMMA InsertedSound ==
  ASSUME NEW c, NEW a, Sound(c, a), NEW i \in Ids, NEW r
  PROVE  Sound(Inserted(c, a, i, r), Put(a, i, r))
<1> DEFINE S == DOMAIN a \cap {i}
           u == Released(c, a, S)
           t == Inserted(c, a, i, r)
           b == Put(a, i, r)
<1>0. /\ DOMAIN b = DOMAIN a \cup {i} /\ b[i] = r /\ \A j \in DOMAIN a \ {i} : b[j] = a[j]
      /\ i # 0
  BY DEF Put, Ids
<1>1. Sound(u, a)
  BY ReleasedSound
<1>2. ASSUME NEW k \in Scopes \X Classes, t.byClass[k] # 0
      PROVE  /\ Claimant(b, t.byClass[k], "PerClass")
             /\ <<b[t.byClass[k]].scope, b[t.byClass[k]].cls>> = k
  <2> DEFINE h == u.byClass[k]
             g == c.byClass[k]
  <2>1. t.byClass[k] = IF HoldsAuthority(r) /\ r.excl /\ r.key = "PerClass" /\ k = <<r.scope, r.cls>>
                       THEN i ELSE h
    BY DEF Inserted, Acquired
  <2>2. CASE HoldsAuthority(r) /\ r.excl /\ r.key = "PerClass" /\ k = <<r.scope, r.cls>>
    BY <1>0, <2>1, <2>2 DEF Claimant
  <2>3. CASE t.byClass[k] = h
    <3>1. Claimant(a, h, "PerClass") /\ <<a[h].scope, a[h].cls>> = k
      BY <1>1, <1>2, <2>3 DEF Sound
    <3>2. h = IF g \in S /\ <<a[g].scope, a[g].cls>> = k THEN 0 ELSE g
      BY DEF Released
    <3>3. h # i
      BY <1>0, <3>1, <3>2 DEF Claimant
    <3>4. h \in DOMAIN b /\ b[h] = a[h]
      BY <1>0, <3>1, <3>3 DEF Claimant
    <3> QED BY <2>3, <3>1, <3>4 DEF Claimant
  <2> QED BY <2>1, <2>2, <2>3
<1>3. ASSUME NEW s \in Scopes, t.byScope[s] # 0
      PROVE  /\ Claimant(b, t.byScope[s], "PerScope")
             /\ b[t.byScope[s]].scope = s
  <2> DEFINE h == u.byScope[s]
             g == c.byScope[s]
  <2>1. t.byScope[s] = IF HoldsAuthority(r) /\ r.excl /\ r.key = "PerScope" /\ s = r.scope
                       THEN i ELSE h
    BY DEF Inserted, Acquired
  <2>2. CASE HoldsAuthority(r) /\ r.excl /\ r.key = "PerScope" /\ s = r.scope
    BY <1>0, <2>1, <2>2 DEF Claimant
  <2>3. CASE t.byScope[s] = h
    <3>1. Claimant(a, h, "PerScope") /\ a[h].scope = s
      BY <1>1, <1>3, <2>3 DEF Sound
    <3>2. h = IF g \in S /\ a[g].scope = s THEN 0 ELSE g
      BY DEF Released
    <3>3. h # i
      BY <1>0, <3>1, <3>2 DEF Claimant
    <3>4. h \in DOMAIN b /\ b[h] = a[h]
      BY <1>0, <3>1, <3>3 DEF Claimant
    <3> QED BY <2>3, <3>1, <3>4 DEF Claimant
  <2> QED BY <2>1, <2>2, <2>3
<1> QED BY <1>2, <1>3 DEF Sound

LEMMA InsertedComplete ==
  ASSUME NEW c, NEW a, AssignmentMap(a), Complete(c, a), Exclusive(a),
         NEW i \in Ids, NEW r \in Assignment, Compatible(a, i, r)
  PROVE  Complete(Inserted(c, a, i, r), Put(a, i, r)) /\ Exclusive(Put(a, i, r))
<1> DEFINE S == DOMAIN a \cap {i}
           t == Inserted(c, a, i, r)
           b == Put(a, i, r)
<1>0. /\ DOMAIN b = DOMAIN a \cup {i} /\ b[i] = r /\ \A j \in DOMAIN a \ {i} : b[j] = a[j]
      /\ \A j \in DOMAIN a : a[j] \in Assignment
  BY DEF Put, AssignmentMap
<1>1. Exclusive(b)
  <2> SUFFICES ASSUME NEW j \in DOMAIN b, NEW k \in DOMAIN b \ {j},
                      HoldsAuthority(b[j]), HoldsAuthority(b[k])
               PROVE  ~Overlap(b[k], b[j])
    BY DEF Exclusive, Compatible
  <2>1. CASE j = i
    BY <1>0, <2>1 DEF Compatible
  <2>2. CASE k = i
    <3>1. ~Overlap(a[j], r)
      BY <1>0, <2>2 DEF Compatible
    <3> QED BY <1>0, <2>2, <3>1 DEF Overlap
  <2>3. CASE j # i /\ k # i
    BY <1>0, <2>3 DEF Exclusive, Compatible
  <2> QED BY <2>1, <2>2, <2>3
<1>2. ASSUME NEW j \in DOMAIN b, Claimant(b, j, "PerClass")
      PROVE  t.byClass[<<b[j].scope, b[j].cls>>] = j
  <2> DEFINE k == <<b[j].scope, b[j].cls>>
  <2>1. b[j] \in Assignment /\ k \in Scopes \X Classes
    BY <1>0 DEF Assignment
  <2>2. t.byClass[k] = IF HoldsAuthority(r) /\ r.excl /\ r.key = "PerClass" /\ k = <<r.scope, r.cls>>
                       THEN i ELSE Released(c, a, S).byClass[k]
    BY <2>1 DEF Inserted, Acquired
  <2>3. CASE j = i
    BY <1>0, <1>2, <2>2, <2>3 DEF Claimant
  <2>4. CASE j # i
    <3>1. j \in DOMAIN a /\ b[j] = a[j] /\ c.byClass[k] = j
      BY <1>0, <1>2, <2>4 DEF Complete, Claimant
    <3>2. ~(HoldsAuthority(r) /\ r.excl /\ k = <<r.scope, r.cls>>)
      BY <1>2, <2>4, <3>1 DEF Claimant, Compatible, Overlap
    <3>3. Released(c, a, S).byClass[k] = j
      BY <2>1, <2>4, <3>1 DEF Released
    <3> QED BY <2>2, <3>2, <3>3
  <2> QED BY <2>3, <2>4
<1>3. ASSUME NEW j \in DOMAIN b, Claimant(b, j, "PerScope")
      PROVE  t.byScope[b[j].scope] = j
  <2> DEFINE k == b[j].scope
  <2>1. b[j] \in Assignment /\ k \in Scopes
    BY <1>0 DEF Assignment
  <2>2. t.byScope[k] = IF HoldsAuthority(r) /\ r.excl /\ r.key = "PerScope" /\ k = r.scope
                       THEN i ELSE Released(c, a, S).byScope[k]
    BY <2>1 DEF Inserted, Acquired
  <2>3. CASE j = i
    BY <1>0, <1>3, <2>2, <2>3 DEF Claimant
  <2>4. CASE j # i
    <3>1. j \in DOMAIN a /\ b[j] = a[j] /\ c.byScope[k] = j
      BY <1>0, <1>3, <2>4 DEF Complete, Claimant
    <3>2. ~(HoldsAuthority(r) /\ r.excl /\ k = r.scope)
      BY <1>3, <2>4, <3>1 DEF Claimant, Compatible, Overlap
    <3>3. Released(c, a, S).byScope[k] = j
      BY <2>1, <2>4, <3>1 DEF Released
    <3> QED BY <2>2, <3>2, <3>3
  <2> QED BY <2>3, <2>4
<1> QED BY <1>1, <1>2, <1>3 DEF Complete

\* What a revalidation does to the records.
LEMMA RevalidateParts ==
  ASSUME TypeOK, NEW e, NEW last, RevalidateUpTo(e, last),
         NEW S, S = {i \in Restored(asg, e) : i <= last}
  PROVE  /\ DOMAIN asg' = DOMAIN asg /\ claims' = Released(claims, asg, S)
         /\ \A j \in DOMAIN asg \ S : asg'[j] = asg[j]
         /\ \A j \in DOMAIN asg \cap S :
              /\ ~HoldsAuthority(asg'[j]) /\ asg'[j].auth = asg[j].auth
              /\ asg'[j].dev = asg[j].dev /\ asg'[j].demand = asg[j].demand
              /\ asg'[j].st = "Degraded" => e.obs[asg[j].dev].live = "Degraded"
<1>1. ASSUME NEW j \in DOMAIN asg \cap S
      PROVE  /\ ~HoldsAuthority(asg'[j]) /\ asg'[j].auth = asg[j].auth
             /\ asg'[j].dev = asg[j].dev /\ asg'[j].demand = asg[j].demand
             /\ asg'[j].st = "Degraded" => e.obs[asg[j].dev].live = "Degraded"
  <2>1. asg[j] \in Assignment
    BY DEF TypeOK
  <2>2. asg'[j] = [asg[j] EXCEPT !.st = Revalidated(asg[j], e)] /\ Validity(asg[j], e) # "Ok"
    BY DEF RevalidateUpTo, Restored
  <2>3. /\ asg'[j].st = Revalidated(asg[j], e) /\ asg'[j].auth = asg[j].auth
        /\ asg'[j].dev = asg[j].dev /\ asg'[j].demand = asg[j].demand
    BY <2>1, <2>2 DEF Assignment
  <2>4. asg'[j].st \in {"Degraded", "Suspended"}
    BY <2>2, <2>3 DEF Revalidated
  <2>5. asg'[j].st = "Degraded" => Validity(asg[j], e) = "LivenessDegraded"
    BY <2>2, <2>3 DEF Revalidated
  <2>6. Validity(asg[j], e) = "LivenessDegraded" => e.obs[asg[j].dev].live = "Degraded"
    BY DEF Validity, TargetValidity
  <2> QED BY <2>3, <2>4, <2>5, <2>6 DEF HoldsAuthority, Holding
<1> QED BY <1>1 DEF RevalidateUpTo

\* The indexes are empty in a stopped process and sound in a running one.
ClaimsInv == (~Running => claims = NoClaims) /\ Sound(claims, asg)

\* Empty indexes.
LEMMA NoClaimsSound ==
  ASSUME NEW a
  PROVE  Sound(NoClaims, a)
BY DEF Sound, NoClaims

\* Every step keeps the indexes sound.
LEMMA SoundKept == ASSUME TypeOK, ClaimsInv, [Next]_vars PROVE ClaimsInv'
<1>1. CASE StillStep
  BY <1>1 DEF StillStep, ClaimsInv
<1>2. CASE RevalidateStep
  <2>1. PICK last : RevalidateUpTo(ev', last)
    BY <1>2 DEF RevalidateStep
  <2> DEFINE S == {i \in Restored(asg, ev') : i <= last}
  <2>2. /\ DOMAIN asg' = DOMAIN asg /\ claims' = Released(claims, asg, S)
        /\ \A j \in DOMAIN asg \ S : asg'[j] = asg[j]
    BY <2>1, RevalidateParts
  <2> HIDE DEF S
  <2>3. Sound(claims', asg')
    BY <2>2, ReleasedSound DEF ClaimsInv
  <2> QED BY <1>2, <2>3 DEF RevalidateStep, ClaimsInv
<1>3. CASE StoreStep
  <2>1. PICK n \in DOMAIN asg, r \in Assignment : Store(n, r)
    BY <1>3 DEF StoreStep
  <2>2. n \in Ids
    BY DEF TypeOK
  <2>3. Sound(claims', asg')
    BY <2>1, <2>2, InsertedSound DEF Store, ClaimsInv
  <2> QED BY <1>3, <2>3 DEF StoreStep, ClaimsInv
<1>4. CASE AuthorizeStep
  <2>1. PICK p \in PlanRecord : Authorize(p) \/ AuthorizeInterrupted(p)
    BY <1>4 DEF AuthorizeStep
  <2> DEFINE h == Displaced(p)
             a == Superseded(asg, h)
             c == Relinquished(claims, asg, h)
             n == nextOrd + 1
  <2>2. Sound(c, a)
    <3>1. CASE h = 0
      BY <3>1 DEF Superseded, Relinquished, ClaimsInv
    <3>2. CASE h # 0
      <4>1. /\ c = Released(claims, asg, {h}) /\ DOMAIN a = DOMAIN asg
            /\ \A j \in DOMAIN asg \ {h} : a[j] = asg[j]
        BY <3>2 DEF Superseded, Relinquished
      <4> QED BY <4>1, ReleasedSound DEF ClaimsInv
    <3> QED BY <3>1, <3>2
  <2>3. CASE Authorize(p)
    <3>1. n \in Ids /\ phase' = phase /\ Running
      BY <1>4, <2>3, ConstantsAssumption DEF Authorize, Issue, Ids, TypeOK, AuthorizeStep, Up, Running
    <3>2. Sound(claims', asg')
      BY <2>2, <2>3, <3>1, InsertedSound DEF Authorize
    <3> QED BY <3>1, <3>2 DEF ClaimsInv, Running
  <2>4. CASE AuthorizeInterrupted(p)
    <3>1. asg' = a /\ ((claims' = c /\ phase' = phase) \/ claims' = NoClaims)
      BY <2>4 DEF AuthorizeInterrupted, LoseMemory
    <3>2. Running
      BY <1>4 DEF AuthorizeStep, Up, Running
    <3> QED BY <2>2, <3>1, <3>2, NoClaimsSound DEF ClaimsInv, Running
  <2> QED BY <2>1, <2>3, <2>4
<1>5. CASE Start
  BY <1>5, NoClaimsSound DEF Start, ClaimsInv, Running
<1>6. CASE DownStep
  <2>1. claims' = NoClaims
    BY <1>6 DEF DownStep, ClaimsInv
  <2> QED BY <2>1, NoClaimsSound DEF ClaimsInv
<1> QED BY <1>1, <1>2, <1>3, <1>4, <1>5, <1>6, StepCases

\* The invariant of the indexes.
THEOREM FabricClaimsSound == Spec => []ClaimsInv
<1>1. Init => ClaimsInv
  BY NoClaimsSound DEF Init, ClaimsInv
<1>2. TypeOK /\ ClaimsInv /\ [Next]_vars => ClaimsInv'
  BY SoundKept
<1> QED BY <1>1, <1>2, TypeCorrect, PTL DEF Spec

\* The exclusivity indexes never name a record that does not hold the claim, whatever is
\* suspended, resumed, superseded, interrupted or placed under a reused ordinal.
THEOREM FabricIndexSound == Spec => []IndexSound
<1>1. ClaimsInv => IndexSound
  BY DEF ClaimsInv, Sound, Claimant, IndexSound
<1> QED BY <1>1, FabricClaimsSound, PTL

-----------------------------------------------------------------------------
(* Exclusive authority *)

\* No suspended assignment is authorized again.
NoResume == \A g \in GrantIds : "Reauthorize" \notin GrantTerms[g].actions

\* No degraded assignment regains authority by an effect report.
NoRegain == "Degraded" \notin Livenesses \/ "Applied" \notin Outcomes

\* Nothing is degraded where no observation says so.
Calm ==
  "Degraded" \in Livenesses \/
    /\ \A d \in Devices : ev.obs[d].live # "Degraded"
    /\ \A i \in DOMAIN asg : asg[i].st # "Degraded"

LEMMA CalmKept == ASSUME TypeOK, Calm, [Next]_vars PROVE Calm'
<1> SUFFICES ASSUME "Degraded" \notin Livenesses,
                    \A d \in Devices : ev.obs[d].live # "Degraded",
                    \A i \in DOMAIN asg : asg[i].st # "Degraded"
             PROVE  /\ \A d \in Devices : ev'.obs[d].live # "Degraded"
                    /\ \A i \in DOMAIN asg' : asg'[i].st # "Degraded"
  BY DEF Calm
<1>0. \A i \in DOMAIN asg : asg[i] \in Assignment
  BY DEF TypeOK
<1>a. ASSUME NEW last, NEW i \in DOMAIN asg PROVE Suspended(asg, last)[i].st # "Degraded"
  BY <1>0 DEF Suspended, Assignment
<1>1. CASE StillStep
  BY <1>1 DEF StillStep, SameEvidence
<1>2. CASE RevalidateStep
  <2>1. PICK last : RevalidateUpTo(ev', last)
    BY <1>2 DEF RevalidateStep
  <2>2. \A d \in Devices : ev'.obs[d].live # "Degraded"
    BY <1>2 DEF RevalidateStep, LaterEvidence
  <2> DEFINE S == {i \in Restored(asg, ev') : i <= last}
  <2>3. /\ DOMAIN asg' = DOMAIN asg /\ claims' = Released(claims, asg, S)
        /\ \A j \in DOMAIN asg \ S : asg'[j] = asg[j]
        /\ \A j \in DOMAIN asg \cap S :
             /\ ~HoldsAuthority(asg'[j]) /\ asg'[j].auth = asg[j].auth
             /\ asg'[j].dev = asg[j].dev /\ asg'[j].demand = asg[j].demand
             /\ asg'[j].st = "Degraded" => ev'.obs[asg[j].dev].live = "Degraded"
    BY <2>1, RevalidateParts
  <2> HIDE DEF S
  <2>4. \A j \in DOMAIN asg : asg[j].dev \in Devices
    BY <1>0 DEF Assignment
  <2> QED BY <2>2, <2>3, <2>4
<1>3. CASE StoreStep
  <2>1. PICK n \in DOMAIN asg, r \in Assignment :
          /\ Store(n, r) /\ SameClaim(asg[n], r)
          /\ Kept(asg[n], r) \/ Regained(asg[n], r) \/ Resumed(n, r)
    BY <1>3 DEF StoreStep
  <2>2. r.st # "Degraded"
    <3>1. CASE Kept(asg[n], r) \/ Regained(asg[n], r)
      BY <3>1 DEF Kept, Regained
    <3>2. CASE Resumed(n, r)
      <4>1. asg[n].dev \in Devices
        BY <1>0 DEF Assignment
      <4>2. TargetValidity(asg[n], ev, FALSE) = "Ok"
        BY <3>2, <4>1 DEF Resumed, Reauthorizable, TargetValidity
      <4> QED BY <3>2, <4>2 DEF Resumed
    <3> QED BY <2>1, <3>1, <3>2
  <2> QED BY <1>3, <2>1, <2>2 DEF StoreStep, Store, Put
<1>4. CASE AuthorizeStep
  <2>1. PICK p \in PlanRecord : Authorize(p) \/ AuthorizeInterrupted(p)
    BY <1>4 DEF AuthorizeStep
  <2> DEFINE a == Superseded(asg, Displaced(p))
  <2>2. DOMAIN a = DOMAIN asg /\ \A i \in DOMAIN asg : a[i].st # "Degraded"
    BY <1>0 DEF Superseded, Assignment
  <2>3. NewAssignment(p).st # "Degraded"
    BY DEF NewAssignment
  <2>4. asg' = a \/ asg' = Put(a, nextOrd + 1, NewAssignment(p))
    BY <2>1 DEF Authorize, AuthorizeInterrupted
  <2> QED BY <1>4, <2>2, <2>3, <2>4 DEF AuthorizeStep, Put
<1>5. CASE Start
  <2>1. asg' = Suspended(asg, MaxOrdinal) /\ \A d \in Devices : ev'.obs[d].live = "None"
    BY <1>5 DEF Start, TypeOK, Evidence, NoObservation
  <2> QED BY <1>a, <2>1 DEF Suspended
<1>6. CASE DownStep
  <2>1. ev' = ev /\ (asg' = asg \/ \E last : asg' = Suspended(asg, last))
    BY <1>6 DEF DownStep
  <2> QED BY <1>a, <2>1 DEF Suspended
<1> QED BY <1>1, <1>2, <1>3, <1>4, <1>5, <1>6, StepCases

\* The invariant behind exclusivity: the indexes name every exclusive holder.
ExclusionInv == Running => Complete(claims, asg) /\ Exclusive(asg)

\* authorize_locked admits only what gets along with the holders it leaves.
LEMMA AuthorizeCompatible ==
  ASSUME TypeOK, Complete(claims, asg), Global \notin Scopes,
         NEW p \in PlanRecord, NEW allow, Authorizable(p, allow), NEW n
  PROVE  Compatible(Superseded(asg, Displaced(p)), n, NewAssignment(p))
<1> DEFINE h == Displaced(p)
           a == Superseded(asg, h)
           r == NewAssignment(p)
           key == ev.pol.rule[p.cls].key
<1>0. /\ \A i \in DOMAIN asg : i \in Ids /\ asg[i] \in Assignment
      /\ p.scope \in Scopes /\ p.cls \in Classes
      /\ r.scope = p.scope /\ r.cls = p.cls /\ r.excl = p.excl /\ r.key = key
  BY DEF TypeOK, PlanRecord, NewAssignment
<1>1. p.excl => Conflicts(p.scope, p.cls, key) \subseteq {h}
  BY DEF Authorizable, Eligible, Synthetic
<1> SUFFICES ASSUME NEW j \in DOMAIN a \ {n}, HoldsAuthority(a[j]), Overlap(a[j], r)
             PROVE  FALSE
  BY DEF Compatible
<1>2. j \in DOMAIN asg /\ j # h /\ a[j] = asg[j] /\ j # 0
  <2>1. j \in DOMAIN asg /\ asg[j] \in Assignment /\ j # 0
    BY <1>0 DEF Superseded, Ids
  <2>2. j # h
    BY <2>1 DEF Superseded, HoldsAuthority, Holding, Assignment
  <2> QED BY <2>1, <2>2 DEF Superseded
<1>3. /\ p.excl /\ asg[j].excl /\ asg[j].scope = p.scope
      /\ asg[j].cls = p.cls \/ asg[j].key = "PerScope" \/ key = "PerScope"
      /\ asg[j].key \in KeyModes /\ asg[j].cls \in Classes /\ HoldsAuthority(asg[j])
  BY <1>0, <1>2 DEF Overlap, Assignment
<1>4. j \in Conflicts(p.scope, p.cls, key)
  <2>1. CASE asg[j].key = "PerScope"
    <3>1. claims.byScope[p.scope] = j
      BY <1>2, <1>3, <2>1 DEF Complete, Claimant
    <3> QED BY <1>0, <1>2, <3>1 DEF Conflicts
  <2>2. CASE asg[j].key = "PerClass"
    <3>1. claims.byClass[<<p.scope, asg[j].cls>>] = j
      BY <1>2, <1>3, <2>2 DEF Complete, Claimant
    <3>2. asg[j].cls \in (IF key = "PerClass" THEN {p.cls} ELSE Classes)
      BY <1>3, <2>2
    <3> QED BY <1>0, <1>2, <3>1, <3>2 DEF Conflicts
  <2> QED BY <1>3, <2>1, <2>2 DEF KeyModes
<1> QED BY <1>1, <1>2, <1>3, <1>4

\* Every step, where authority is not resumed or regained.
LEMMA ExclusionKept ==
  ASSUME NoResume, NoRegain, Global \notin Scopes, TypeOK, Calm, ExclusionInv, [Next]_vars
  PROVE  ExclusionInv'
<1> SUFFICES ASSUME Running' PROVE Complete(claims', asg') /\ Exclusive(asg')
  BY DEF ExclusionInv
<1>0. AssignmentMap(asg) /\ \A i \in DOMAIN asg : i \in Ids /\ asg[i] \in Assignment
  BY DEF TypeOK, AssignmentMap
<1>1. CASE StillStep
  BY <1>1 DEF StillStep, ExclusionInv
<1>2. CASE RevalidateStep
  <2>1. PICK last : RevalidateUpTo(ev', last)
    BY <1>2 DEF RevalidateStep
  <2> DEFINE S == {i \in Restored(asg, ev') : i <= last}
  <2>2. /\ DOMAIN asg' = DOMAIN asg /\ claims' = Released(claims, asg, S)
        /\ \A j \in DOMAIN asg \ S : asg'[j] = asg[j]
        /\ \A j \in DOMAIN asg \cap S : ~HoldsAuthority(asg'[j])
    BY <2>1, RevalidateParts
  <2>3. Running
    BY <1>2 DEF RevalidateStep
  <2> HIDE DEF S
  <2> QED BY <1>0, <2>2, <2>3, ReleasedComplete DEF ExclusionInv
<1>3. CASE StoreStep
  <2>1. PICK n \in DOMAIN asg, r \in Assignment :
          /\ Store(n, r) /\ SameClaim(asg[n], r)
          /\ Kept(asg[n], r) \/ Regained(asg[n], r) \/ Resumed(n, r)
    BY <1>3 DEF StoreStep
  <2>2. Running /\ n \in Ids
    BY <1>0, <1>3 DEF StoreStep
  <2>3. ~Regained(asg[n], r)
    BY DEF Regained, Calm, NoRegain
  <2>4. ~Resumed(n, r)
    BY DEF Resumed, Reauthorizable, Admits, Covers, NoResume
  <2>5. HoldsAuthority(r) => HoldsAuthority(asg[n])
    BY <2>1, <2>3, <2>4 DEF Kept
  <2>6. Compatible(asg, n, r)
    BY <2>1, <2>2, <2>5 DEF SameClaim, ExclusionInv, Exclusive, Compatible, Overlap
  <2> QED BY <1>0, <2>1, <2>2, <2>6, InsertedComplete DEF Store, ExclusionInv
<1>4. CASE AuthorizeStep
  <2>1. PICK p \in PlanRecord, allow \in BOOLEAN :
          Authorizable(p, allow) /\ (Authorize(p) \/ AuthorizeInterrupted(p))
    BY <1>4 DEF AuthorizeStep
  <2> DEFINE h == Displaced(p)
             a == Superseded(asg, h)
             c == Relinquished(claims, asg, h)
             n == nextOrd + 1
  <2>2. Running /\ Complete(claims, asg) /\ Exclusive(asg)
    BY <1>4 DEF AuthorizeStep, Up, Running, ExclusionInv
  <2>3. Complete(c, a) /\ Exclusive(a)
    <3>1. CASE h = 0
      BY <2>2, <3>1 DEF Superseded, Relinquished
    <3>2. CASE h # 0
      <4>1. /\ c = Released(claims, asg, {h}) /\ DOMAIN a = DOMAIN asg
            /\ \A j \in DOMAIN asg \ {h} : a[j] = asg[j]
        BY <3>2 DEF Superseded, Relinquished
      <4>2. \A j \in DOMAIN asg \cap {h} : ~HoldsAuthority(a[j])
        BY <1>0, <3>2 DEF Superseded, HoldsAuthority, Holding, Assignment
      <4> QED BY <1>0, <2>2, <4>1, <4>2, ReleasedComplete
    <3> QED BY <3>1, <3>2
  <2>4. CASE Authorize(p)
    <3>1. n \in Ids
      BY <2>4, ConstantsAssumption DEF Authorize, Issue, Ids, TypeOK
    <3>2. Compatible(a, n, NewAssignment(p)) /\ NewAssignment(p) \in Assignment /\ AssignmentMap(a)
      BY <1>0, <2>1, <2>2, AuthorizeCompatible, NewAssignmentType, SupersededType
    <3> DEFINE r == NewAssignment(p)
    <3>3. asg' = Put(a, n, r) /\ claims' = Inserted(c, a, n, r)
      BY <2>4 DEF Authorize
    <3> HIDE DEF a, c, r, n
    <3> QED BY <2>3, <3>1, <3>2, <3>3, InsertedComplete DEF r
  <2>5. CASE AuthorizeInterrupted(p)
    <3>1. asg' = a /\ claims' = c
      BY <2>5 DEF AuthorizeInterrupted, LoseMemory, Running
    <3> QED BY <2>3, <3>1
  <2> QED BY <2>1, <2>4, <2>5
<1>5. CASE Start
  <2>1. asg' = Suspended(asg, MaxOrdinal)
    BY <1>5 DEF Start
  <2>2. ASSUME NEW i \in DOMAIN asg' PROVE ~HoldsAuthority(asg'[i])
    <3>1. i \in DOMAIN asg /\ i <= MaxOrdinal
      BY <2>1, ConstantsAssumption DEF Suspended, TypeOK, Ids
    <3>2. asg'[i] = IF IsLive(asg[i]) THEN [asg[i] EXCEPT !.st = "Suspended"] ELSE asg[i]
      BY <2>1, <3>1 DEF Suspended
    <3> QED BY <1>0, <3>1, <3>2 DEF HoldsAuthority, IsLive, Live, Holding, Assignment
  <2> QED BY <2>2 DEF Complete, Claimant, Exclusive, Compatible
<1>6. CASE DownStep
  BY <1>6 DEF DownStep
<1> QED BY <1>1, <1>2, <1>3, <1>4, <1>5, <1>6, StepCases

\* Where no suspended assignment is authorized again, no degraded one regains authority
\* by a report and no scope has the empty identity, two holders never have exclusive
\* authority over overlapping claims.
THEOREM FabricExclusiveAuthority ==
  ASSUME NoResume, NoRegain, Global \notin Scopes
  PROVE  Spec => []ExclusiveAuthority
<1>1. Init => Calm /\ ExclusionInv
  BY DEF Init, Calm, NoEvidence, NoObservation, ExclusionInv, Running
<1>2. TypeOK /\ Calm /\ [Next]_vars => Calm'
  BY CalmKept
<1>3. TypeOK /\ Calm /\ ExclusionInv /\ [Next]_vars => ExclusionInv'
  BY ExclusionKept
<1>4. ExclusionInv => ExclusiveAuthority
  BY DEF ExclusionInv, Exclusive, Compatible, ExclusiveAuthority
<1> QED BY <1>1, <1>2, <1>3, <1>4, TypeCorrect, PTL DEF Spec

-----------------------------------------------------------------------------
(* The use budget of a grant *)

\* The records of a whose use of g is counted.
UsesOf(a, g) == {i \in DOMAIN a : HoldsAuthority(a[i]) /\ a[i].auth = g}

\* A count of uses is a number; fewer users are fewer uses, and one more user is one
\* more use at most.
LEMMA UsedBounds ==
  ASSUME NEW a, AssignmentMap(a), NEW g
  PROVE  /\ Used(a, g) \in Nat
         /\ \A b : UsesOf(b, g) \subseteq UsesOf(a, g) =>
                    Used(b, g) \in Nat /\ Used(b, g) <= Used(a, g)
         /\ \A b, n : UsesOf(b, g) \subseteq UsesOf(a, g) \cup {n} =>
                       Used(b, g) \in Nat /\ Used(b, g) <= Used(a, g) + 1
<1>1. IsFiniteSet(UsesOf(a, g)) /\ Cardinality(UsesOf(a, g)) \in Nat
  <2>1. IsFiniteSet(1..MaxOrdinal)
    BY FS_Interval, ConstantsAssumption
  <2>2. UsesOf(a, g) \in SUBSET (1..MaxOrdinal)
    BY DEF UsesOf, AssignmentMap, Ids
  <2> HIDE DEF UsesOf
  <2>3. IsFiniteSet(UsesOf(a, g))
    BY <2>1, <2>2, FS_Subset
  <2> QED BY <2>3, FS_CardinalityType
<1>2. \A x : Used(x, g) = Cardinality(UsesOf(x, g))
  BY DEF Used, UsesOf
<1> HIDE DEF UsesOf
<1>3. ASSUME NEW b, UsesOf(b, g) \subseteq UsesOf(a, g)
      PROVE  Used(b, g) \in Nat /\ Used(b, g) <= Used(a, g)
  <2>1. IsFiniteSet(UsesOf(b, g)) /\ Cardinality(UsesOf(b, g)) <= Cardinality(UsesOf(a, g))
    BY <1>1, <1>3, FS_Subset
  <2>2. Cardinality(UsesOf(b, g)) \in Nat
    BY <2>1, FS_CardinalityType
  <2> QED BY <1>2, <2>1, <2>2
<1>4. ASSUME NEW b, NEW n, UsesOf(b, g) \subseteq UsesOf(a, g) \cup {n}
      PROVE  Used(b, g) \in Nat /\ Used(b, g) <= Used(a, g) + 1
  <2> DEFINE T == UsesOf(a, g) \cup {n}
  <2>1. IsFiniteSet(T) /\ Cardinality(T) \in Nat /\ Cardinality(T) <= Cardinality(UsesOf(a, g)) + 1
    <3>1. /\ IsFiniteSet(T)
          /\ Cardinality(T) = IF n \in UsesOf(a, g) THEN Cardinality(UsesOf(a, g))
                                                    ELSE Cardinality(UsesOf(a, g)) + 1
      BY <1>1, FS_AddElement
    <3> HIDE DEF T
    <3> QED BY <1>1, <3>1
  <2>2. UsesOf(b, g) \in SUBSET T
    BY <1>4
  <2> HIDE DEF T
  <2>3. IsFiniteSet(UsesOf(b, g)) /\ Cardinality(UsesOf(b, g)) <= Cardinality(T)
    BY <2>1, <2>2, FS_Subset
  <2>4. Cardinality(UsesOf(b, g)) \in Nat
    BY <2>3, FS_CardinalityType
  <2> QED BY <1>1, <1>2, <2>1, <2>3, <2>4
<1> QED BY <1>1, <1>2, <1>3, <1>4

\* A plan names a grant only if the policy it was made under asks for one; a plan made
\* under an earlier policy is not authorized.
PlansBudgeted ==
  \A p \in plans :
    /\ p.bPol <= ev.pol.gen
    /\ p.bPol = ev.pol.gen /\ p.auth # NoGrant => ev.pol.rule[p.cls].reqAuth

\* A plan just made.
LEMMA PlanForBudgeted ==
  ASSUME TypeOK, NEW q, NEW d
  PROVE  /\ PlanFor(q, d).bPol = ev.pol.gen
         /\ PlanFor(q, d).auth # NoGrant => ev.pol.rule[PlanFor(q, d).cls].reqAuth
BY DEF PlanFor

\* Of the clients' operations only plan leaves a plan behind, and none is evidence.
LEMMA PlacementPlans ==
  ASSUME PlacementStep
  PROVE  ev' = ev /\ (plans' = plans \/ \E q \in Requests, d \in Devices : Plan(q, d))
<1>1. ASSUME NEW p, Authorize(p) \/ AuthorizeInterrupted(p) \/ AuthorizeFails
      PROVE  ev' = ev /\ plans' = plans
  BY <1>1 DEF Authorize, AuthorizeInterrupted, AuthorizeFails
<1>2. ASSUME NEW q, NEW d, Apply(q, d) PROVE ev' = ev /\ plans' = plans
  BY <1>1, <1>2 DEF Apply
<1>3. ASSUME NEW i, NEW d, Replace(i, d) PROVE ev' = ev /\ plans' = plans
  BY <1>2, <1>3 DEF Replace
<1>4. ASSUME NEW p, NEW allow, ApplyPlan(p, allow) PROVE ev' = ev /\ plans' = plans
  BY <1>1, <1>4 DEF ApplyPlan
<1>5. ASSUME NEW q \in Requests, NEW d \in Devices, Plan(q, d) PROVE ev' = ev
  BY <1>5 DEF Plan
<1>6. ASSUME NEW i, NEW g, Revoke(i, g) \/ Reauthorize(i, g) \/ ReauthorizeFails(i, g)
      PROVE  ev' = ev /\ plans' = plans
  BY <1>6 DEF Revoke, Reauthorize, ReauthorizeFails
<1>7. ASSUME NEW i, NEW f, NEW o, ReportEffect(i, f, o) PROVE ev' = ev /\ plans' = plans
  BY <1>7 DEF ReportEffect
<1> QED BY <1>2, <1>3, <1>4, <1>5, <1>6, <1>7 DEF PlacementStep

\* A policy keeps its rules until a later generation takes its place.
LEMMA PolicyStep ==
  ASSUME TypeOK, [Next]_vars
  PROVE  \/ ev'.pol.gen = ev.pol.gen /\ ev'.pol.rule = ev.pol.rule
         \/ ev'.pol.gen = ev.pol.gen + 1 /\ ev'.pol.rule \in Policies /\ plans' = plans
<1>0. ev \in Evidence /\ ev.pol \in Policy
  BY DEF TypeOK, Evidence
<1>1. CASE UNCHANGED vars \/ ProcessStep
  BY <1>0, <1>1 DEF vars, ProcessStep, Start, StartInterrupted, Stop, AcceptRecovery, Compact,
                    Evidence
<1>2. CASE PlacementStep
  BY <1>2, PlacementPlans
<1>3. CASE EvidenceStep
  <2>1. CASE \E rule \in Policies : IngestPolicy(rule)
    BY <1>0, <2>1 DEF IngestPolicy, Accept, NextGeneration, Evidence
  <2>2. CASE Expire
    BY <1>0, <2>2 DEF Expire, Evidence, Policy
  <2>3. CASE Revalidate \/ \E g \in GrantIds : GrantAuthority(g) \/ WithdrawAuthority(g)
    BY <1>0, <2>3 DEF Revalidate, GrantAuthority, WithdrawAuthority, Accept, Evidence
  <2>4. ASSUME NEW e, Accept(e), e.pol = ev.pol PROVE ev'.pol = ev.pol
    BY <2>4 DEF Accept
  <2>5. CASE \E c \in Registrable, f \in Descriptors : RegisterFunction(c, f)
    BY <1>0, <2>5 DEF RegisterFunction, Evidence
  <2>6. CASE \E inc \in Topologies : IngestTopology(inc)
    BY <1>0, <2>6 DEF IngestTopology, Accept, Evidence
  <2>7. CASE \E d \in Devices, c \in Classes, gen \in 1..MaxCap, body \in Bodies :
               \E inc \in {t[d] : t \in Topologies} \ {0} :
                 IngestCapability(d, c, gen, inc, body)
    BY <1>0, <2>7 DEF IngestCapability, Accept, Evidence
  <2>8. CASE \E d \in Devices, live \in Livenesses : IngestObservation(d, live)
    BY <1>0, <2>8 DEF IngestObservation, Accept, Evidence
  <2> QED BY <1>3, <2>1, <2>2, <2>3, <2>5, <2>6, <2>7, <2>8 DEF EvidenceStep
<1> QED BY <1>1, <1>2, <1>3 DEF Next

\* A plan the clients hold was held before or has just been made.
LEMMA PlansStep ==
  ASSUME TypeOK, [Next]_vars, NEW p \in plans'
  PROVE  p \in plans \/ (MaxPlans > 0 /\ \E q \in Requests, d \in Devices : p = PlanFor(q, d))
<1>1. CASE UNCHANGED vars \/ ProcessStep
  BY <1>1 DEF vars, ProcessStep, Start, StartInterrupted, Stop, AcceptRecovery, Compact
<1>2. CASE PlacementStep
  BY <1>2, PlacementPlans DEF Plan
<1>3. CASE EvidenceStep
  BY <1>3 DEF EvidenceStep, RegisterFunction, IngestTopology, IngestPolicy, IngestCapability,
              IngestObservation, GrantAuthority, WithdrawAuthority, Revalidate, Expire, Accept
<1> QED BY <1>1, <1>2, <1>3 DEF Next

LEMMA PlansBudgetedKept == ASSUME TypeOK, PlansBudgeted, [Next]_vars PROVE PlansBudgeted'
<1> SUFFICES ASSUME NEW p \in plans'
             PROVE  /\ p.bPol <= ev'.pol.gen
                    /\ p.bPol = ev'.pol.gen /\ p.auth # NoGrant => ev'.pol.rule[p.cls].reqAuth
  BY DEF PlansBudgeted
<1>0. ev.pol.gen \in Nat /\ \A x \in plans : x.bPol \in Nat
  BY DEF TypeOK, Evidence, Policy, PlanRecord
<1>1. CASE p \in plans
  BY <1>0, <1>1, PolicyStep DEF PlansBudgeted
<1>2. CASE p \notin plans
  <2>1. PICK q \in Requests, d \in Devices : p = PlanFor(q, d)
    BY <1>2, PlansStep
  <2>2. /\ p.bPol = ev.pol.gen
        /\ p.auth # NoGrant => ev.pol.rule[p.cls].reqAuth
    BY <2>1, PlanForBudgeted
  <2> QED BY <1>0, <1>2, <2>2, PolicyStep
<1> QED BY <1>1, <1>2

\* The budgets hold of b if it uses what asg uses, and perhaps a grant with budget left
\* once more.
LEMMA BudgetKept ==
  ASSUME TypeOK, UseBudget, Running, NEW b, NEW n,
         \A g \in GrantIds : \/ UsesOf(b, g) \subseteq UsesOf(asg, g)
                             \/ UsesOf(b, g) \subseteq UsesOf(asg, g) \cup {n} /\ BudgetLeft(asg, g)
  PROVE  \A g \in GrantIds : GrantTerms[g].max # 0 => Used(b, g) <= GrantTerms[g].max
<1> SUFFICES ASSUME NEW g \in GrantIds, GrantTerms[g].max # 0
             PROVE  Used(b, g) <= GrantTerms[g].max
  OBVIOUS
<1>0. AssignmentMap(asg) /\ GrantTerms[g].max \in Nat
  BY ConstantsAssumption DEF TypeOK, AssignmentMap
<1>1. Used(asg, g) \in Nat /\ Used(asg, g) <= GrantTerms[g].max
  BY <1>0, UsedBounds DEF UseBudget
<1>2. CASE UsesOf(b, g) \subseteq UsesOf(asg, g)
  <2>1. Used(b, g) \in Nat /\ Used(b, g) <= Used(asg, g)
    BY <1>0, <1>2, UsedBounds
  <2> QED BY <1>0, <1>1, <2>1
<1>3. CASE UsesOf(b, g) \subseteq UsesOf(asg, g) \cup {n} /\ BudgetLeft(asg, g)
  <2>1. Used(b, g) \in Nat /\ Used(b, g) <= Used(asg, g) + 1
    BY <1>0, <1>3, UsedBounds
  <2>2. Used(asg, g) < GrantTerms[g].max
    BY <1>3 DEF BudgetLeft
  <2> QED BY <1>0, <1>1, <2>1, <2>2
<1> QED BY <1>2, <1>3

\* The only uses a step adds are counted against a budget that is left.
LEMMA UsesStep ==
  ASSUME NoRegain, TypeOK, Calm, PlansBudgeted, [Next]_vars, Running, Running'
  PROVE  \E n : \A g \in GrantIds :
           \/ UsesOf(asg', g) \subseteq UsesOf(asg, g)
           \/ UsesOf(asg', g) \subseteq UsesOf(asg, g) \cup {n} /\ BudgetLeft(asg, g)
<1>0. AssignmentMap(asg) /\ \A i \in DOMAIN asg : i \in Ids /\ asg[i] \in Assignment
  BY DEF TypeOK, AssignmentMap
<1>1. CASE StillStep
  BY <1>1 DEF StillStep
<1>2. CASE RevalidateStep
  <2>1. PICK last : RevalidateUpTo(ev', last)
    BY <1>2 DEF RevalidateStep
  <2> DEFINE S == {i \in Restored(asg, ev') : i <= last}
  <2>2. /\ DOMAIN asg' = DOMAIN asg /\ claims' = Released(claims, asg, S)
        /\ \A j \in DOMAIN asg \ S : asg'[j] = asg[j]
        /\ \A j \in DOMAIN asg \cap S : ~HoldsAuthority(asg'[j])
    BY <2>1, RevalidateParts
  <2> HIDE DEF S
  <2> QED BY <2>2 DEF UsesOf
<1>3. CASE StoreStep
  <2>1. PICK n \in DOMAIN asg, r \in Assignment :
          /\ Store(n, r) /\ SameClaim(asg[n], r)
          /\ Kept(asg[n], r) \/ Regained(asg[n], r) \/ Resumed(n, r)
    BY <1>3 DEF StoreStep
  <2>2. asg' = [j \in DOMAIN asg |-> IF j = n THEN r ELSE asg[j]]
    BY <2>1 DEF Store, Put
  <2>3. ~Regained(asg[n], r)
    BY DEF Regained, Calm, NoRegain
  <2>4. CASE Kept(asg[n], r)
    BY <2>2, <2>4 DEF Kept, UsesOf
  <2>5. CASE Resumed(n, r)
    <3>1. BudgetLeft(asg, r.auth)
      BY <2>5 DEF Resumed, Reauthorizable, Admits
    <3> QED BY <2>2, <3>1 DEF UsesOf
  <2> QED BY <2>1, <2>3, <2>4, <2>5
<1>4. CASE AuthorizeStep
  <2>1. PICK p \in PlanRecord, allow \in BOOLEAN :
          /\ p \in plans \/ \E q \in Request, d \in Devices : Plannable(q, d) /\ p = PlanFor(q, d)
          /\ Authorizable(p, allow) /\ (Authorize(p) \/ AuthorizeInterrupted(p))
    BY <1>4 DEF AuthorizeStep
  <2> DEFINE a == Superseded(asg, Displaced(p))
  <2>2. p.auth # NoGrant => BudgetLeft(asg, p.auth)
    <3>1. p.auth # NoGrant => ev.pol.rule[p.cls].reqAuth
      <4>1. ev.pol.gen = p.bPol
        BY <2>1 DEF Authorizable
      <4> QED BY <2>1, <4>1, PlanForBudgeted DEF PlansBudgeted
    <3> QED BY <2>1, <3>1 DEF Authorizable, Admits
  <2>3. DOMAIN a = DOMAIN asg /\ \A i \in DOMAIN a : HoldsAuthority(a[i]) => a[i] = asg[i]
    BY <1>0 DEF Superseded, HoldsAuthority, Holding, Assignment
  <2>4. asg' = a \/ asg' = Put(a, nextOrd + 1, NewAssignment(p))
    BY <2>1 DEF Authorize, AuthorizeInterrupted
  <2>5. NewAssignment(p).auth = p.auth
    BY DEF NewAssignment
  <2> HIDE DEF a
  <2>6. ASSUME NEW g \in GrantIds
        PROVE  \/ UsesOf(asg', g) \subseteq UsesOf(asg, g)
               \/ UsesOf(asg', g) \subseteq UsesOf(asg, g) \cup {nextOrd + 1} /\ BudgetLeft(asg, g)
    <3>1. UsesOf(a, g) \subseteq UsesOf(asg, g)
      BY <2>3 DEF UsesOf
    <3>2. CASE asg' = a
      BY <3>1, <3>2
    <3>3. CASE asg' = Put(a, nextOrd + 1, NewAssignment(p))
      <4>1. UsesOf(asg', g) \subseteq UsesOf(a, g) \cup
              (IF p.auth = g THEN {nextOrd + 1} ELSE {})
        BY <2>5, <3>3 DEF UsesOf, Put
      <4>2. g # NoGrant
        BY ConstantsAssumption DEF NoGrant
      <4> QED BY <2>2, <3>1, <4>1, <4>2
    <3> QED BY <2>4, <3>2, <3>3
  <2> QED BY <2>6
<1>5. CASE Start
  BY <1>5 DEF Start, Running
<1>6. CASE DownStep
  BY <1>6 DEF DownStep
<1> QED BY <1>1, <1>2, <1>3, <1>4, <1>5, <1>6, StepCases

\* Every start takes all authority away.
LEMMA StartUsesNothing ==
  ASSUME TypeOK, Start, NEW g
  PROVE  UsesOf(asg', g) = {}
<1>1. \A i \in DOMAIN asg : i \in Ids /\ i <= MaxOrdinal /\ asg[i] \in Assignment
  BY ConstantsAssumption DEF TypeOK, Ids
<1>2. asg' = Suspended(asg, MaxOrdinal)
  BY DEF Start
<1>3. ASSUME NEW i \in DOMAIN asg PROVE ~HoldsAuthority(asg'[i])
  <2>1. asg'[i] = IF IsLive(asg[i]) THEN [asg[i] EXCEPT !.st = "Suspended"] ELSE asg[i]
    BY <1>1, <1>2 DEF Suspended
  <2> QED BY <1>1, <2>1 DEF IsLive, HoldsAuthority, Live, Holding, Assignment
<1>4. DOMAIN asg' = DOMAIN asg
  BY <1>2 DEF Suspended
<1> QED BY <1>3, <1>4 DEF UsesOf

LEMMA UseBudgetKept ==
  ASSUME NoRegain, TypeOK, Calm, PlansBudgeted, UseBudget, [Next]_vars
  PROVE  UseBudget'
<1> SUFFICES ASSUME Running'
             PROVE  \A g \in GrantIds : GrantTerms[g].max # 0 => Used(asg', g) <= GrantTerms[g].max
  BY DEF UseBudget, Used
<1>1. CASE Running
  <2>1. PICK n : \A g \in GrantIds :
          \/ UsesOf(asg', g) \subseteq UsesOf(asg, g)
          \/ UsesOf(asg', g) \subseteq UsesOf(asg, g) \cup {n} /\ BudgetLeft(asg, g)
    BY <1>1, UsesStep
  <2> QED BY <1>1, <2>1, BudgetKept
<1>2. CASE ~Running
  <2>1. Start
    BY <1>2, StepCases DEF StillStep, RevalidateStep, StoreStep, AuthorizeStep, DownStep, Up, Running
  <2>2. ASSUME NEW g \in GrantIds, GrantTerms[g].max # 0 PROVE Used(asg', g) <= GrantTerms[g].max
    <3>1. Used(asg', g) = Cardinality(UsesOf(asg', g))
      BY DEF Used, UsesOf
    <3>2. GrantTerms[g].max \in Nat
      BY ConstantsAssumption
    <3> QED BY <2>1, <3>1, <3>2, StartUsesNothing, FS_EmptySet
  <2> QED BY <2>2
<1> QED BY <1>1, <1>2

\* No grant backs more holders than its budget, however late the plans come, where no
\* degraded assignment regains authority by a report: report_effect looks at no budget.
THEOREM FabricUseBudget ==
  ASSUME NoRegain
  PROVE  Spec => []UseBudget
<1>1. Init => Calm /\ PlansBudgeted /\ UseBudget
  BY DEF Init, Calm, NoEvidence, NoObservation, PlansBudgeted, UseBudget, Running
<1>2. TypeOK /\ Calm /\ [Next]_vars => Calm'
  BY CalmKept
<1>3. TypeOK /\ PlansBudgeted /\ [Next]_vars => PlansBudgeted'
  BY PlansBudgetedKept
<1>4. TypeOK /\ Calm /\ PlansBudgeted /\ UseBudget /\ [Next]_vars => UseBudget'
  BY UseBudgetKept
<1> QED BY <1>1, <1>2, <1>3, <1>4, TypeCorrect, PTL DEF Spec

-----------------------------------------------------------------------------
(* Sums over finite sets *)

\* F sums the weights w over every subset of X, the way MapThenSumSet does.
Chosen(s) == CHOOSE x \in s : TRUE

Sums(F, w, X) ==
  F = [s \in SUBSET X |-> IF s = {} THEN 0 ELSE w[Chosen(s)] + F[s \ {Chosen(s)}]]

\* A property of the finite sets in a family that descends from each set to smaller ones:
\* if it fails, it fails of a set of least cardinality.
LEMMA SmallestSet ==
  ASSUME NEW B, B # {}, \A s \in B : IsFiniteSet(s)
  PROVE  \E s \in B : \A t : IsFiniteSet(t) /\ Cardinality(t) < Cardinality(s) => t \notin B
<1> DEFINE N == {Cardinality(s) : s \in B}
<1>1. \A s \in B : Cardinality(s) \in Nat
  BY FS_CardinalityType
<1>2. N \subseteq Nat /\ N # {}
  BY <1>1
<1>3. PICK n \in N : \A m \in N : ~(<<m, n>> \in OpToRel(<, Nat))
  <2> HIDE DEF N
  <2> QED BY <1>2, NatLessThanWellFounded, WFMin, Zenon
<1>4. PICK s \in B : n = Cardinality(s)
  OBVIOUS
<1>5. ASSUME NEW t, IsFiniteSet(t), Cardinality(t) < Cardinality(s), t \in B PROVE FALSE
  <2>1. Cardinality(t) \in N /\ Cardinality(t) \in Nat /\ Cardinality(s) \in Nat
    BY <1>1, <1>5
  <2>2. <<Cardinality(t), n>> \in OpToRel(<, Nat)
    BY <1>4, <1>5, <2>1 DEF OpToRel
  <2> QED BY <1>3, <2>1, <2>2
<1> QED BY <1>5

\* A smaller set.
LEMMA Smaller ==
  ASSUME NEW s, IsFiniteSet(s), NEW x \in s
  PROVE  IsFiniteSet(s \ {x}) /\ Cardinality(s \ {x}) \in Nat /\ Cardinality(s) \in Nat
         /\ Cardinality(s \ {x}) = Cardinality(s) - 1
         /\ Cardinality(s \ {x}) < Cardinality(s)
<1>1. /\ IsFiniteSet(s \ {x}) /\ Cardinality(s \ {x}) = Cardinality(s) - 1
  BY FS_RemoveElement
<1>2. Cardinality(s \ {x}) \in Nat /\ Cardinality(s) \in Nat
  BY <1>1, FS_CardinalityType
<1> QED BY <1>1, <1>2

LEMMA ChosenIn ==
  ASSUME NEW s, s # {}
  PROVE  Chosen(s) \in s
BY DEF Chosen

\* The sums exist: a function that is right up to cardinality n extends to n + 1.
LEMMA SumsExist ==
  ASSUME NEW X, IsFiniteSet(X), NEW w
  PROVE  \E F : Sums(F, w, X)
<1> DEFINE Sub(n) == {s \in SUBSET X : Cardinality(s) <= n}
           Good(n, F) == F = [s \in Sub(n) |->
                                IF s = {} THEN 0 ELSE w[Chosen(s)] + F[s \ {Chosen(s)}]]
           Bad == {n \in Nat : ~ \E F : Good(n, F)}
<1>0. \A s \in SUBSET X : IsFiniteSet(s) /\ Cardinality(s) \in Nat /\ Cardinality(s) <= Cardinality(X)
  BY FS_Subset, FS_CardinalityType
<1>1. Bad = {}
  <2> SUFFICES ASSUME Bad # {} PROVE FALSE
    OBVIOUS
  <2>0. Bad \subseteq Nat
    OBVIOUS
  <2>1. PICK n \in Bad : \A m \in Bad : ~(<<m, n>> \in OpToRel(<, Nat))
    <3> HIDE DEF Bad
    <3> QED BY <2>0, NatLessThanWellFounded, WFMin, Zenon
  <2>2. n \in Nat /\ ~ \E F : Good(n, F)
    BY <2>1
  <2>3. CASE n = 0
    <3> DEFINE G == [s \in Sub(0) |-> 0]
    <3>1. \A s \in Sub(0) : s = {}
      <4>1. TAKE s \in Sub(0)
      <4>2. IsFiniteSet(s) /\ Cardinality(s) = 0
        BY <1>0
      <4> QED BY <4>2, FS_EmptySet
    <3>2. Good(0, G)
      BY <3>1
    <3> QED BY <2>2, <2>3, <3>2
  <2>4. CASE n # 0
    <3>1. n - 1 \in Nat /\ n - 1 \notin Bad
      <4>1. n - 1 \in Nat /\ n - 1 < n
        BY <2>2, <2>4
      <4>2. <<n - 1, n>> \in OpToRel(<, Nat)
        BY <2>2, <4>1 DEF OpToRel
      <4> QED BY <2>1, <4>1, <4>2
    <3>2. PICK F : Good(n - 1, F)
      BY <3>1
    <3> DEFINE body(u) == IF u = {} THEN 0 ELSE w[Chosen(u)] + F[u \ {Chosen(u)}]
               G == [s \in Sub(n) |-> body(s)]
    <3>3. ASSUME NEW s \in Sub(n), s # {} PROVE G[s \ {Chosen(s)}] = F[s \ {Chosen(s)}]
      <4> DEFINE t == s \ {Chosen(s)}
      <4>1. IsFiniteSet(s) /\ Chosen(s) \in s /\ Cardinality(s) <= n
        BY <1>0, <3>3, ChosenIn
      <4>2. Cardinality(t) = Cardinality(s) - 1 /\ Cardinality(s) \in Nat
        BY <4>1, Smaller
      <4>3. t \in Sub(n - 1) /\ t \in Sub(n)
        BY <2>2, <4>1, <4>2
      <4>4. F = [u \in Sub(n - 1) |-> body(u)] /\ G = [u \in Sub(n) |-> body(u)]
        BY <3>2
      <4> HIDE DEF t, body, Sub, G
      <4>5. F[t] = body(t) /\ G[t] = body(t)
        BY <4>3, <4>4
      <4> QED BY <4>5 DEF t
    <3>4. Good(n, G)
      BY <3>3
    <3> QED BY <2>2, <3>4
  <2> QED BY <2>3, <2>4
<1>2. Cardinality(X) \in Nat
  BY FS_CardinalityType
<1>3. PICK F : Good(Cardinality(X), F)
  BY <1>1, <1>2
<1>4. Sub(Cardinality(X)) = SUBSET X
  BY <1>0
<1> QED BY <1>3, <1>4 DEF Sums

\* What a sum is.
LEMMA SumsAt ==
  ASSUME NEW F, NEW w, NEW X, Sums(F, w, X), NEW s \in SUBSET X
  PROVE  /\ s = {} => F[s] = 0
         /\ s # {} => F[s] = w[Chosen(s)] + F[s \ {Chosen(s)}]
<1> DEFINE body(t) == IF t = {} THEN 0 ELSE w[Chosen(t)] + F[t \ {Chosen(t)}]
<1>1. F = [t \in SUBSET X |-> body(t)]
  BY DEF Sums
<1>2. F[s] = body(s)
  <2> HIDE DEF body
  <2> QED BY <1>1
<1> QED BY <1>2

\* Two sums of the same weights agree.
LEMMA SumsAgree ==
  ASSUME NEW X, NEW Y, NEW F, NEW G, NEW w, NEW v, Sums(F, w, X), Sums(G, v, Y),
         NEW T, T \subseteq X, T \subseteq Y, IsFiniteSet(T), \A x \in T : w[x] = v[x]
  PROVE  F[T] = G[T]
<1> DEFINE B == {s \in SUBSET T : F[s] # G[s]}
<1> SUFFICES ASSUME B # {} PROVE FALSE
  OBVIOUS
<1>0. \A s \in SUBSET T : IsFiniteSet(s)
  BY FS_Subset
<1>1. PICK s \in B : \A t : IsFiniteSet(t) /\ Cardinality(t) < Cardinality(s) => t \notin B
  <2>1. \A s \in B : IsFiniteSet(s)
    BY <1>0
  <2> HIDE DEF B
  <2> QED BY <2>1, SmallestSet
<1>2. s \in SUBSET X /\ s \in SUBSET Y /\ s \in SUBSET T /\ F[s] # G[s]
  OBVIOUS
<1>3. s # {}
  BY <1>2, SumsAt
<1>4. /\ F[s] = w[Chosen(s)] + F[s \ {Chosen(s)}]
      /\ G[s] = v[Chosen(s)] + G[s \ {Chosen(s)}]
  BY <1>2, <1>3, SumsAt
<1>5. Chosen(s) \in s /\ w[Chosen(s)] = v[Chosen(s)]
  BY <1>2, <1>3, ChosenIn
<1>6. s \ {Chosen(s)} \notin B
  BY <1>0, <1>1, <1>2, <1>5, Smaller
<1>7. F[s \ {Chosen(s)}] = G[s \ {Chosen(s)}]
  BY <1>2, <1>6
<1> QED BY <1>2, <1>4, <1>5, <1>7

\* Sums of numbers are numbers.
LEMMA SumsType ==
  ASSUME NEW X, NEW F, NEW w, Sums(F, w, X), IsFiniteSet(X), \A x \in X : w[x] \in Nat,
         NEW T, T \subseteq X
  PROVE  F[T] \in Nat
<1> DEFINE B == {s \in SUBSET X : F[s] \notin Nat}
<1> SUFFICES ASSUME B # {} PROVE FALSE
  OBVIOUS
<1>0. \A s \in SUBSET X : IsFiniteSet(s)
  BY FS_Subset
<1>1. PICK s \in B : \A t : IsFiniteSet(t) /\ Cardinality(t) < Cardinality(s) => t \notin B
  <2>1. \A s \in B : IsFiniteSet(s)
    BY <1>0
  <2> HIDE DEF B
  <2> QED BY <2>1, SmallestSet
<1>2. s \in SUBSET X /\ F[s] \notin Nat
  OBVIOUS
<1>3. s # {}
  BY <1>2, SumsAt
<1>4. F[s] = w[Chosen(s)] + F[s \ {Chosen(s)}]
  BY <1>2, <1>3, SumsAt
<1>5. Chosen(s) \in s /\ w[Chosen(s)] \in Nat
  BY <1>2, <1>3, ChosenIn
<1>6. s \ {Chosen(s)} \notin B
  BY <1>0, <1>1, <1>2, <1>5, Smaller
<1>7. F[s \ {Chosen(s)}] \in Nat
  BY <1>2, <1>6
<1> QED BY <1>2, <1>4, <1>5, <1>7

\* The order of summation does not matter: any element may be taken first.
LEMMA SumsRemove ==
  ASSUME NEW X, NEW F, NEW w, Sums(F, w, X), IsFiniteSet(X), \A x \in X : w[x] \in Nat,
         NEW T, T \subseteq X, NEW y \in T
  PROVE  F[T] = w[y] + F[T \ {y}]
<1> DEFINE B == {s \in SUBSET X : \E z \in s : F[s] # w[z] + F[s \ {z}]}
<1> SUFFICES ASSUME B # {} PROVE FALSE
  OBVIOUS
<1>0. \A s \in SUBSET X : IsFiniteSet(s)
  BY FS_Subset
<1>1. PICK s \in B : \A t : IsFiniteSet(t) /\ Cardinality(t) < Cardinality(s) => t \notin B
  <2>1. \A s \in B : IsFiniteSet(s)
    BY <1>0
  <2> HIDE DEF B
  <2> QED BY <2>1, SmallestSet
<1>2. PICK z \in s : F[s] # w[z] + F[s \ {z}]
  OBVIOUS
<1>3. s \in SUBSET X /\ s # {} /\ IsFiniteSet(s)
  BY <1>0
<1> DEFINE x == Chosen(s)
<1>4. F[s] = w[x] + F[s \ {x}]
  <2> HIDE DEF B
  <2> QED BY <1>3, SumsAt
<1>5. x \in s /\ x # z /\ w[x] \in Nat /\ w[z] \in Nat
  BY <1>2, <1>3, <1>4, ChosenIn
<1> HIDE DEF x
<1>6. s \ {x} \notin B /\ s \ {z} \notin B
  BY <1>1, <1>3, <1>5, Smaller
<1>7. F[s \ {x}] = w[z] + F[(s \ {x}) \ {z}]
  BY <1>3, <1>5, <1>6
<1>8. F[s \ {z}] = w[x] + F[(s \ {z}) \ {x}]
  BY <1>3, <1>5, <1>6
<1>9. (s \ {x}) \ {z} = (s \ {z}) \ {x}
  OBVIOUS
<1>10. F[(s \ {x}) \ {z}] \in Nat
  <2>1. (s \ {x}) \ {z} \subseteq X
    BY <1>3
  <2> QED BY <2>1, SumsType
<1> DEFINE k == F[(s \ {x}) \ {z}]
<1>11. F[s] = w[x] + (w[z] + k) /\ F[s \ {z}] = w[x] + k /\ k \in Nat
  BY <1>4, <1>7, <1>8, <1>9, <1>10
<1> HIDE DEF k, B
<1> QED BY <1>2, <1>5, <1>11

\* A sum over disjoint sets splits.
LEMMA SumsSplit ==
  ASSUME NEW X, NEW F, NEW w, Sums(F, w, X), IsFiniteSet(X), \A x \in X : w[x] \in Nat,
         NEW S, S \subseteq X, NEW T, T \subseteq X, S \cap T = {}
  PROVE  F[S \cup T] = F[S] + F[T]
<1> DEFINE B == {t \in SUBSET X : S \cap t = {} /\ F[S \cup t] # F[S] + F[t]}
<1> SUFFICES ASSUME B # {} PROVE FALSE
  OBVIOUS
<1>0. \A s \in SUBSET X : IsFiniteSet(s) /\ F[s] \in Nat
  BY FS_Subset, SumsType
<1>1. PICK s \in B : \A t : IsFiniteSet(t) /\ Cardinality(t) < Cardinality(s) => t \notin B
  <2>1. \A s \in B : IsFiniteSet(s)
    BY <1>0
  <2> HIDE DEF B
  <2> QED BY <2>1, SmallestSet
<1>2. s \in SUBSET X /\ S \cap s = {} /\ F[S \cup s] # F[S] + F[s] /\ IsFiniteSet(s)
  BY <1>0
<1>3. s # {}
  <2>1. s = {} => F[s] = 0 /\ S \cup s = S
    BY <1>2, SumsAt
  <2>2. F[S] \in Nat
    BY <1>0
  <2> HIDE DEF B
  <2> QED BY <1>2, <2>1, <2>2
<1>4. PICK y \in s : TRUE
  BY <1>3
<1> DEFINE t == s \ {y}
<1>5. t \notin B
  BY <1>1, <1>2, Smaller
<1>6. t \in SUBSET X /\ S \cap t = {} /\ (S \cup s) \ {y} = S \cup t /\ S \cup s \in SUBSET X
      /\ S \cup t \in SUBSET X /\ w[y] \in Nat
  BY <1>2
<1>7. F[S \cup t] = F[S] + F[t]
  BY <1>5, <1>6
<1>8. F[S \cup s] = w[y] + F[S \cup t]
  BY <1>6, SumsRemove
<1>9. F[s] = w[y] + F[t]
  BY <1>2, SumsRemove
<1> HIDE DEF t
<1> QED BY <1>0, <1>2, <1>6, <1>7, <1>8, <1>9

-----------------------------------------------------------------------------
(* The committed demand *)

\* Demand is such a sum, over every set of records on which the weights are demands.
LEMMA DemandIsSum ==
  ASSUME NEW a, NEW X, NEW F, NEW w, Sums(F, w, X), IsFiniteSet(X),
         NEW S, S \subseteq X, \A i \in S : a[i].demand = w[i]
  PROVE  Demand(a, S) = F[S]
<1> DEFINE v == [i \in S |-> a[i].demand]
           rec(G) == G = [s \in SUBSET S |-> IF s = {} THEN 0
                                             ELSE a[Chosen(s)].demand + G[s \ {Chosen(s)}]]
<1>1. IsFiniteSet(S)
  BY FS_Subset
<1>2. \A G : Sums(G, v, S) <=> rec(G)
  <2>1. ASSUME NEW s \in SUBSET S, s # {} PROVE v[Chosen(s)] = a[Chosen(s)].demand
    BY <2>1, ChosenIn
  <2> HIDE DEF v
  <2> QED BY <2>1 DEF Sums
<1>3. \E G : Sums(G, v, S)
  <2> HIDE DEF v
  <2> QED BY <1>1, SumsExist
<1> DEFINE G == CHOOSE H : rec(H)
<1>4. Sums(G, v, S)
  <2> HIDE DEF rec
  <2> QED BY <1>2, <1>3
<1>5. Demand(a, S) = G[S]
  BY DEF Demand, MapThenSumSet, MapThenFoldSet, Chosen
<1>6. \A i \in S : v[i] = w[i]
  OBVIOUS
<1> HIDE DEF G, v
<1>7. G[S] = F[S]
  BY <1>1, <1>4, <1>6, SumsAgree
<1> QED BY <1>5, <1>7

\* The records of a map.
LEMMA RecordsFinite ==
  ASSUME NEW a, AssignmentMap(a)
  PROVE  IsFiniteSet(DOMAIN a) /\ \A i \in DOMAIN a : a[i].demand \in Nat
<1>1. IsFiniteSet(1..MaxOrdinal)
  BY FS_Interval, ConstantsAssumption
<1>2. IsFiniteSet(DOMAIN a)
  BY <1>1, FS_Subset DEF AssignmentMap, Ids
<1> QED BY <1>2 DEF AssignmentMap, Assignment

\* The demand of disjoint sets of records adds up.
LEMMA DemandSplit ==
  ASSUME NEW a, AssignmentMap(a), NEW S, S \subseteq DOMAIN a, NEW T, T \subseteq DOMAIN a,
         S \cap T = {}
  PROVE  /\ Demand(a, S) \in Nat /\ Demand(a, T) \in Nat
         /\ Demand(a, S \cup T) = Demand(a, S) + Demand(a, T)
<1> DEFINE X == DOMAIN a
           w == [i \in X |-> a[i].demand]
<1>1. IsFiniteSet(X) /\ \A i \in X : w[i] = a[i].demand /\ w[i] \in Nat
  BY RecordsFinite
<1> HIDE DEF w
<1>2. PICK F : Sums(F, w, X)
  BY <1>1, SumsExist
<1>a. \A x \in X : w[x] \in Nat
  BY <1>1
<1>3. F[S] \in Nat /\ F[T] \in Nat /\ F[S \cup T] = F[S] + F[T]
  <2>1. F[S] \in Nat
    BY <1>1, <1>2, <1>a, SumsType
  <2>2. F[T] \in Nat
    BY <1>1, <1>2, <1>a, SumsType
  <2>3. F[S \cup T] = F[S] + F[T]
    BY <1>1, <1>2, <1>a, SumsSplit
  <2> QED BY <2>1, <2>2, <2>3
<1>4. Demand(a, S) = F[S] /\ Demand(a, T) = F[T]
  BY <1>1, <1>2, DemandIsSum
<1>5. Demand(a, S \cup T) = F[S \cup T]
  <2> DEFINE U == S \cup T
  <2>1. U \subseteq X
    OBVIOUS
  <2> HIDE DEF U
  <2>2. Demand(a, U) = F[U]
    BY <1>1, <1>2, <2>1, DemandIsSum
  <2> QED BY <2>2 DEF U
<1> QED BY <1>3, <1>4, <1>5

\* Records that agree have the same demand, and one record has its own.
LEMMA DemandSame ==
  ASSUME NEW a, AssignmentMap(a), NEW b, NEW S, S \subseteq DOMAIN a,
         \A i \in S : b[i].demand = a[i].demand
  PROVE  Demand(b, S) = Demand(a, S)
<1> DEFINE X == DOMAIN a
           w == [i \in X |-> a[i].demand]
<1>1. IsFiniteSet(X) /\ \A i \in X : w[i] = a[i].demand
  BY RecordsFinite
<1> HIDE DEF w
<1>2. PICK F : Sums(F, w, X)
  BY <1>1, SumsExist
<1>3. Demand(a, S) = F[S]
  BY <1>1, <1>2, DemandIsSum
<1>4. Demand(b, S) = F[S]
  BY <1>1, <1>2, DemandIsSum
<1> QED BY <1>3, <1>4

LEMMA DemandSmall ==
  ASSUME NEW a, AssignmentMap(a)
  PROVE  Demand(a, {}) = 0 /\ \A i \in DOMAIN a : Demand(a, {i}) = a[i].demand
<1> DEFINE X == DOMAIN a
           w == [i \in X |-> a[i].demand]
<1>1. IsFiniteSet(X) /\ \A i \in X : w[i] = a[i].demand /\ w[i] \in Nat
  BY RecordsFinite
<1> HIDE DEF w
<1>2. PICK F : Sums(F, w, X)
  BY <1>1, SumsExist
<1>3. F[{}] = 0
  BY <1>2, SumsAt
<1>4. Demand(a, {}) = F[{}]
  BY <1>1, <1>2, DemandIsSum
<1>5. ASSUME NEW i \in DOMAIN a PROVE Demand(a, {i}) = a[i].demand
  <2>1. Demand(a, {i}) = F[{i}]
    BY <1>1, <1>2, DemandIsSum
  <2>2. F[{i}] = w[i] + F[{i} \ {i}]
    BY <1>1, <1>2, SumsRemove
  <2>3. {i} \ {i} = {}
    OBVIOUS
  <2> QED BY <1>1, <1>3, <2>1, <2>2, <2>3
<1> QED BY <1>3, <1>4, <1>5

\* The records of a that hold authority on d.
HoldersOn(a, d) == {i \in DOMAIN a : HoldsAuthority(a[i]) /\ a[i].dev = d}

\* The books c charge no device for more than the holders of a demand of it.
Charged(c, a) == \A d \in Devices : c.committed[d] <= Demand(a, HoldersOn(a, d))

\* release_claims gives back at least the demand of the holders among S: what is left is
\* at most the demand of the other holders, although the demand of records that held
\* nothing is given back as well.
LEMMA ReleasedCharged ==
  ASSUME NEW c \in Claims, NEW a, AssignmentMap(a), Charged(c, a),
         NEW S, S \subseteq DOMAIN a, NEW d \in Devices
  PROVE  /\ Released(c, a, S).committed[d] \in Nat
         /\ Released(c, a, S).committed[d] <= Demand(a, HoldersOn(a, d) \ S)
         /\ Demand(a, HoldersOn(a, d) \ S) \in Nat
<1> DEFINE H == HoldersOn(a, d)
           D == {i \in S : a[i].dev = d}
           A == H \ S
           B == H \cap S
           C == D \ B
<1>1. /\ A \subseteq DOMAIN a /\ B \subseteq DOMAIN a /\ C \subseteq DOMAIN a
      /\ A \cap B = {} /\ B \cap C = {} /\ H = A \cup B /\ D = B \cup C
  BY DEF HoldersOn
<1>2. Released(c, a, S).committed[d] = Monus(c.committed[d], Demand(a, D))
  BY DEF Released
<1>3. c.committed[d] \in Nat /\ c.committed[d] <= Demand(a, H)
  BY DEF Charged, Claims
<1> HIDE DEF H, D, A, B, C
<1>4. /\ Demand(a, A) \in Nat /\ Demand(a, B) \in Nat
      /\ Demand(a, H) = Demand(a, A) + Demand(a, B)
  BY <1>1, DemandSplit
<1>5. /\ Demand(a, C) \in Nat
      /\ Demand(a, D) = Demand(a, B) + Demand(a, C)
  BY <1>1, DemandSplit
<1>6. /\ Monus(c.committed[d], Demand(a, D)) \in Nat
      /\ Monus(c.committed[d], Demand(a, D)) <= Demand(a, A)
  BY <1>3, <1>4, <1>5 DEF Monus
<1> QED BY <1>2, <1>4, <1>6 DEF A, H

\* Records that lose their authority give back their demand.
LEMMA ReleaseCharged ==
  ASSUME NEW c \in Claims, NEW a, AssignmentMap(a), Charged(c, a), NEW S, S \subseteq DOMAIN a,
         NEW b, DOMAIN b = DOMAIN a,
         \A j \in DOMAIN a \ S : b[j] = a[j],
         \A j \in S : ~HoldsAuthority(b[j])
  PROVE  Charged(Released(c, a, S), b)
<1> SUFFICES ASSUME NEW d \in Devices
             PROVE  Released(c, a, S).committed[d] <= Demand(b, HoldersOn(b, d))
  BY DEF Charged
<1> DEFINE T == HoldersOn(a, d) \ S
<1>1. HoldersOn(b, d) = T /\ T \subseteq DOMAIN a /\ \A i \in T : b[i].demand = a[i].demand
  BY DEF HoldersOn
<1>2. Released(c, a, S).committed[d] <= Demand(a, T)
  BY ReleasedCharged
<1> HIDE DEF T
<1>3. Demand(b, T) = Demand(a, T)
  BY <1>1, DemandSame
<1> QED BY <1>1, <1>2, <1>3

\* insert_assignment charges a new holder with its demand and no more.
LEMMA InsertCharged ==
  ASSUME NEW c \in Claims, NEW a, AssignmentMap(a), Charged(c, a),
         NEW i \in Ids, NEW r \in Assignment
  PROVE  Charged(Inserted(c, a, i, r), Put(a, i, r))
<1> DEFINE S == DOMAIN a \cap {i}
           b == Put(a, i, r)
<1> SUFFICES ASSUME NEW d \in Devices
             PROVE  Inserted(c, a, i, r).committed[d] <= Demand(b, HoldersOn(b, d))
  BY DEF Charged
<1> DEFINE T == HoldersOn(a, d) \ S
           new == HoldsAuthority(r) /\ d = r.dev
           left == Released(c, a, S).committed[d]
<1>1. left \in Nat /\ left <= Demand(a, T) /\ Demand(a, T) \in Nat
  <2>1. S \subseteq DOMAIN a
    OBVIOUS
  <2> HIDE DEF S
  <2> QED BY <2>1, ReleasedCharged
<1>2. Inserted(c, a, i, r).committed[d] = left + (IF new THEN r.demand ELSE 0)
  BY DEF Inserted, Acquired
<1>3. AssignmentMap(b) /\ i \in DOMAIN b /\ b[i] = r /\ r.demand \in Nat
  BY PutType DEF Put, Assignment
<1>4. /\ T \subseteq DOMAIN b /\ T \cap {i} = {} /\ T \subseteq DOMAIN a
      /\ \A j \in T : b[j].demand = a[j].demand
      /\ HoldersOn(b, d) = IF new THEN T \cup {i} ELSE T
  BY DEF Put, HoldersOn
<1> HIDE DEF T, b, left, new
<1>5. Demand(b, T) = Demand(a, T)
  BY <1>4, DemandSame
<1>6. Demand(b, T \cup {i}) = Demand(b, T) + Demand(b, {i}) /\ Demand(b, {i}) = r.demand
  BY <1>3, <1>4, DemandSplit, DemandSmall
<1> QED BY <1>1, <1>2, <1>3, <1>4, <1>5, <1>6

\* Empty books charge nothing.
LEMMA NoneCharged ==
  ASSUME NEW a, AssignmentMap(a)
  PROVE  Charged(NoClaims, a)
<1> SUFFICES ASSUME NEW d \in Devices PROVE NoClaims.committed[d] <= Demand(a, HoldersOn(a, d))
  BY DEF Charged
<1>1. HoldersOn(a, d) \subseteq DOMAIN a /\ {} \subseteq DOMAIN a /\ HoldersOn(a, d) \cap {} = {}
  BY DEF HoldersOn
<1>2. Demand(a, HoldersOn(a, d)) \in Nat
  <2> HIDE DEF HoldersOn
  <2> QED BY <1>1, DemandSplit
<1> QED BY <1>2 DEF NoClaims

\* What authorize_locked displaces is an assignment the indexes name.
LEMMA DisplacedKnown ==
  ASSUME TypeOK, Sound(claims, asg), NEW p \in PlanRecord, Displaced(p) # 0
  PROVE  Displaced(p) \in DOMAIN asg
<1> DEFINE key == ev.pol.rule[p.cls].key
           classes == {c \in IF key = "PerClass" THEN {p.cls} ELSE Classes :
                         claims.byClass[<<p.scope, c>>] # 0}
<1>0. p.scope \in Scopes /\ p.cls \in Classes
  BY DEF PlanRecord
<1>1. Displaced(p) = FirstConflict(p.scope, p.cls, key) /\ Conflicts(p.scope, p.cls, key) # {}
  BY DEF Displaced, FirstConflict
<1>2. CASE claims.byScope[p.scope] # 0
  BY <1>0, <1>1, <1>2 DEF FirstConflict, Sound, Claimant
<1>3. CASE claims.byScope[p.scope] = 0
  <2>1. Displaced(p) = claims.byClass[<<p.scope, Min(classes)>>]
    BY <1>1, <1>3 DEF FirstConflict
  <2>2. classes # {}
    BY <1>1, <1>3 DEF Conflicts
  <2>3. classes \subseteq Classes
    BY <1>0
  <2>4. Min(classes) \in classes
    <3>1. classes \subseteq Nat
      BY <2>3, ConstantsAssumption
    <3> HIDE DEF classes
    <3> QED BY <2>2, <3>1, MinInSet
  <2>5. <<p.scope, Min(classes)>> \in Scopes \X Classes
    BY <1>0, <2>3, <2>4
  <2> HIDE DEF classes
  <2> QED BY <2>1, <2>5 DEF Sound, Claimant
<1> QED BY <1>2, <1>3

\* The invariant of the books.
ChargedInv == Running => Charged(claims, asg)

LEMMA ChargedKept == ASSUME TypeOK, ClaimsInv, ChargedInv, [Next]_vars PROVE ChargedInv'
<1> SUFFICES ASSUME Running' PROVE Charged(claims', asg')
  BY DEF ChargedInv
<1>0. /\ AssignmentMap(asg) /\ \A i \in DOMAIN asg : i \in Ids /\ asg[i] \in Assignment
      /\ claims \in Claims
  BY DEF TypeOK, AssignmentMap
<1>1. CASE StillStep
  BY <1>1 DEF StillStep, ChargedInv
<1>2. CASE RevalidateStep
  <2>1. PICK last : RevalidateUpTo(ev', last)
    BY <1>2 DEF RevalidateStep
  <2> DEFINE S == {i \in Restored(asg, ev') : i <= last}
  <2>2. /\ DOMAIN asg' = DOMAIN asg /\ claims' = Released(claims, asg, S)
        /\ \A j \in DOMAIN asg \ S : asg'[j] = asg[j]
        /\ \A j \in DOMAIN asg \cap S : ~HoldsAuthority(asg'[j])
    BY <2>1, RevalidateParts
  <2>3. S \subseteq DOMAIN asg
    BY DEF Restored
  <2>4. Charged(claims, asg)
    BY <1>2 DEF RevalidateStep, ChargedInv
  <2> HIDE DEF S
  <2>5. Charged(Released(claims, asg, S), asg')
    BY <1>0, <2>2, <2>3, <2>4, ReleaseCharged
  <2> QED BY <2>2, <2>5
<1>3. CASE StoreStep
  <2>1. PICK n \in DOMAIN asg, r \in Assignment : Store(n, r)
    BY <1>3 DEF StoreStep
  <2>2. n \in Ids /\ Charged(claims, asg)
    BY <1>0, <1>3 DEF StoreStep, ChargedInv
  <2>3. Charged(Inserted(claims, asg, n, r), Put(asg, n, r))
    BY <1>0, <2>2, InsertCharged
  <2> QED BY <2>1, <2>3 DEF Store
<1>4. CASE AuthorizeStep
  <2>1. PICK p \in PlanRecord : Authorize(p) \/ AuthorizeInterrupted(p)
    BY <1>4 DEF AuthorizeStep
  <2> DEFINE h == Displaced(p)
             a == Superseded(asg, h)
             c == Relinquished(claims, asg, h)
             n == nextOrd + 1
             r == NewAssignment(p)
  <2>2. Charged(claims, asg) /\ Sound(claims, asg)
    BY <1>4 DEF AuthorizeStep, Up, Running, ChargedInv, ClaimsInv
  <2>3. Charged(c, a) /\ c \in Claims
    <3>1. CASE h = 0
      BY <1>0, <2>2, <3>1 DEF Superseded, Relinquished
    <3>2. CASE h # 0
      <4>0. h \in DOMAIN asg
        BY <2>2, <3>2, DisplacedKnown
      <4>1. /\ c = Released(claims, asg, {h}) /\ DOMAIN a = DOMAIN asg
            /\ \A j \in DOMAIN asg \ {h} : a[j] = asg[j]
        BY <3>2 DEF Superseded, Relinquished
      <4>2. \A j \in {h} : ~HoldsAuthority(a[j])
        BY <1>0, <3>2, <4>0 DEF Superseded, HoldsAuthority, Holding, Assignment
      <4> HIDE DEF a, h
      <4>3. Charged(Released(claims, asg, {h}), a)
        BY <1>0, <2>2, <4>0, <4>1, <4>2, ReleaseCharged
      <4> QED BY <1>0, <4>1, <4>3, ReleasedType
    <3> QED BY <3>1, <3>2
  <2>4. CASE Authorize(p)
    <3>1. n \in Ids
      BY <2>4, ConstantsAssumption DEF Authorize, Issue, Ids, TypeOK
    <3>2. r \in Assignment /\ AssignmentMap(a)
      BY <1>0, NewAssignmentType, SupersededType
    <3>3. asg' = Put(a, n, r) /\ claims' = Inserted(c, a, n, r)
      BY <2>4 DEF Authorize
    <3> HIDE DEF a, c, r, n
    <3> QED BY <2>3, <3>1, <3>2, <3>3, InsertCharged
  <2>5. CASE AuthorizeInterrupted(p)
    <3>1. asg' = a /\ claims' = c
      BY <2>5 DEF AuthorizeInterrupted, LoseMemory, Running
    <3> QED BY <2>3, <3>1
  <2> QED BY <2>1, <2>4, <2>5
<1>5. CASE Start
  <2>1. AssignmentMap(asg') /\ claims' = NoClaims
    <3>1. TypeOK'
      BY <1>5, ProcessStepType DEF ProcessStep
    <3> QED BY <1>5, <3>1 DEF TypeOK, AssignmentMap, Start
  <2> QED BY <2>1, NoneCharged
<1>6. CASE DownStep
  BY <1>6 DEF DownStep
<1> QED BY <1>1, <1>2, <1>3, <1>4, <1>5, <1>6, StepCases

\* The books never charge a device for demand that nobody holds, whatever sequence of
\* releases, suspensions, replacements and failed appends led there.
THEOREM FabricNoPhantomDemand == Spec => []NoPhantomDemand
<1>1. Init => ChargedInv
  BY DEF Init, ChargedInv, Running
<1>2. TypeOK /\ ClaimsInv /\ ChargedInv /\ [Next]_vars => ChargedInv'
  BY ChargedKept
<1>3. ChargedInv => NoPhantomDemand
  BY DEF ChargedInv, Charged, HoldersOn, NoPhantomDemand, DemandHeld
<1> QED BY <1>1, <1>2, <1>3, TypeCorrect, FabricClaimsSound, PTL DEF Spec

-----------------------------------------------------------------------------
(* Placement and revalidation agree *)

\* A rule that allows a host stack lists it among the kinds, and asks for capability
\* evidence unless there is one lifetime only: evaluate_device looks at neither the kinds
\* of a host nor, without require_capability, at the currency of a capability, and
\* assignment_target_validity looks at both.
Consistent ==
  \A pol \in Policies, c \in Classes :
    /\ \A d \in Devices : pol[c].fallback /\ KindOf[d] = HostStack => KindOf[d] \in pol[c].kinds
    /\ pol[c].reqCap \/ MaxEpoch = 1

\* The rules in force are those of a policy, or of none.
RulesKnown == ev.pol.gen # 0 => ev.pol.rule \in Policies

\* Capability evidence was accepted in this lifetime or an earlier one.
Dated ==
  /\ epoch <= MaxEpoch /\ (Running => epoch # 0)
  /\ \A k \in Devices \X Classes : ev.cap[k].gen # 0 => ev.cap[k].ep # 0 /\ ev.cap[k].ep <= epoch

\* Everything match_capability asks of a capability c but freshness.
Suits(c, f, inc) ==
  /\ ~c.body.revoked /\ c.inc = inc /\ f.ver \in c.body.versions
  /\ f.need \cap c.body.denied = {} /\ f.need \subseteq c.body.supported

LEMMA MatchSuits ==
  ASSUME NEW c, NEW f, NEW inc
  PROVE  Match(c, f, inc) = "Eligible" <=> c.fresh /\ Suits(c, f, inc)
BY DEF Match, Suits

\* Everything assignment_validity asks of r under evidence e but freshness.
Standing(r, e) ==
  LET rule == e.pol.rule[r.cls]
      c == e.cap[<<r.dev, r.cls>>]
      g == e.grants[r.auth]
      f == e.functions[r.cls]
      need == IF f.reg THEN f.need \cup rule.need ELSE {} IN
  /\ e.topo.gen # 0 /\ Current(e.topo) /\ r.bTopo <= e.topo.gen /\ SameTarget(r, e)
  /\ e.pol.gen # 0 /\ Current(e.pol) /\ r.bPol = e.pol.gen /\ r.fence.ep = epoch
  /\ KindOf[r.dev] \in rule.kinds /\ (KindOf[r.dev] = HostStack => rule.fallback)
  /\ r.bCap # 0 => c.gen = r.bCap /\ Current(c) /\ (f.reg => Suits(c, f, r.inc))
  /\ rule.reqObs => e.obs[r.dev].live = "Alive" /\ e.obs[r.dev].inc = r.inc /\ Current(e.obs[r.dev])
  /\ r.auth # NoGrant =>
       /\ g.ep # 0 /\ Current(g) /\ ~g.revoked /\ g.pgen = e.pol.gen
       /\ "Place" \in GrantTerms[r.auth].actions /\ r.cls \in GrantTerms[r.auth].classes
       /\ KindOf[r.dev] \in GrantTerms[r.auth].kinds /\ r.scope \in GrantTerms[r.auth].scopes
       /\ GrantTerms[r.auth].ceiling # {} => need \subseteq GrantTerms[r.auth].ceiling

StandingInv ==
  Running => \A i \in DOMAIN asg \ unjudged : HoldsAuthority(asg[i]) => Standing(asg[i], ev)

\* What stands and is fresh is valid.
LEMMA StandingIsValid ==
  ASSUME NEW r \in Assignment, Standing(r, ev), Fresh(r)
  PROVE  Validity(r, ev) = "Ok"
<1> DEFINE f == ev.functions[r.cls]
           need == IF f.reg THEN f.need \cup ev.pol.rule[r.cls].need ELSE {}
<1>1. r.bCap # 0 => CapabilityHolds(r, ev, TRUE)
  BY MatchSuits DEF Standing, Fresh, CapabilityHolds
<1>2. TargetSound(r, ev, TRUE)
  BY <1>1 DEF Standing, Fresh, TargetSound
<1>3. ev.pol.rule[r.cls].reqObs => Observed(r.dev, r.inc, ev) /\ ev.obs[r.dev].live = "Alive"
  BY DEF Standing, Fresh, Observed
<1>4. TargetValidity(r, ev, TRUE) = "Ok"
  BY <1>2, <1>3 DEF TargetValidity
<1>5. r.auth # NoGrant => /\ Current(ev.grants[r.auth])
                          /\ Covers(ev, r.auth, "Place", r.cls, r.dev, r.scope, need)
  BY DEF Standing, Fresh, Covers
<1> QED BY <1>4, <1>5 DEF Validity, Standing

\* What is valid stands.
LEMMA ValidStands ==
  ASSUME NEW r \in Assignment, NEW e, Validity(r, e) = "Ok"
  PROVE  Standing(r, e)
<1> DEFINE k == <<r.dev, r.cls>>
           f == e.functions[r.cls]
           need == IF f.reg THEN f.need \cup e.pol.rule[r.cls].need ELSE {}
<1>1. /\ TargetValidity(r, e, TRUE) = "Ok" /\ r.bPol = e.pol.gen /\ r.fence.ep = epoch
      /\ r.auth # NoGrant => /\ Current(e.grants[r.auth])
                             /\ Covers(e, r.auth, "Place", r.cls, r.dev, r.scope, need)
  BY DEF Validity
<1>2. /\ TargetSound(r, e, TRUE)
      /\ e.pol.rule[r.cls].reqObs => Observed(r.dev, r.inc, e) /\ e.obs[r.dev].live = "Alive"
  BY <1>1 DEF TargetValidity
<1>3. r.bCap # 0 => /\ e.cap[k].gen = r.bCap /\ Current(e.cap[k])
                    /\ f.reg => Suits(e.cap[k], f, r.inc)
  BY <1>2, MatchSuits DEF TargetSound, CapabilityHolds
<1> QED BY <1>1, <1>2, <1>3 DEF Standing, TargetSound, Observed, Covers

\* The evidence a record stands on may say the same in other words.
LEMMA SameStands ==
  ASSUME NEW r \in Assignment, NEW e, Standing(r, ev), SameEvidence(ev, e),
         e.functions[r.cls] = ev.functions[r.cls]
  PROVE  Standing(r, e)
<1>1. /\ r.dev \in Devices /\ <<r.dev, r.cls>> \in Devices \X Classes
      /\ r.auth # NoGrant => r.auth \in GrantIds
  BY DEF Assignment
<1> QED BY <1>1 DEF Standing, Suits, SameEvidence, SameTarget, Current

\* A record that keeps its claim and its bindings stands where it stood.
LEMMA KeptStands ==
  ASSUME NEW r, NEW s, SameClaim(r, s), Kept(r, s), Standing(r, ev)
  PROVE  Standing(s, ev)
BY DEF SameClaim, Kept, Standing, SameTarget

LEMMA RulesKnownKept == ASSUME TypeOK, RulesKnown, [Next]_vars PROVE RulesKnown'
BY PolicyStep DEF RulesKnown

LEMMA DatedKept == ASSUME TypeOK, Dated, [Next]_vars PROVE Dated'
<1>0. /\ epoch \in Nat /\ MaxEpoch \in Nat
      /\ \A k \in Devices \X Classes : ev.cap[k].ep \in Nat
  BY ConstantsAssumption DEF TypeOK, Evidence, Capability
<1>1. CASE StillStep
  BY <1>1 DEF StillStep, SameEvidence, Dated
<1>2. CASE RevalidateStep
  BY <1>0, <1>2 DEF RevalidateStep, LaterEvidence, Dated
<1>3. CASE StoreStep \/ AuthorizeStep
  BY <1>3 DEF StoreStep, AuthorizeStep, Up, Running, Dated
<1>4. CASE Start
  <2>1. ev'.cap = ev.cap /\ epoch' = epoch + 1 /\ epoch < MaxEpoch
    BY <1>4 DEF Start, TypeOK, Evidence
  <2> QED BY <1>0, <2>1 DEF Dated
<1>5. CASE DownStep
  BY <1>0, <1>5 DEF DownStep, Dated
<1> QED BY <1>1, <1>2, <1>3, <1>4, <1>5, StepCases

\* What evaluate_device and authorize_locked let through stands.
LEMMA PlacedStands ==
  ASSUME TypeOK, Consistent, RulesKnown, Dated, Up, NEW q \in Request, NEW d \in Devices,
         Plannable(q, d)
  PROVE  Standing(NewAssignment(PlanFor(q, d)), ev)
<1> DEFINE rule == ev.pol.rule[q.cls]
           c == ev.cap[<<d, q.cls>>]
           f == ev.functions[q.cls]
           w == Required(q)
           A == Admitting(ev, asg, q.cls, d, q.scope, w.need \cup rule.need)
           r == NewAssignment(PlanFor(q, d))
           g == r.auth
<1>0. /\ q.cls \in Classes /\ epoch \in Nat /\ epoch # 0 /\ epoch <= MaxEpoch
      /\ ev.topo.gen \in Nat /\ <<d, q.cls>> \in Devices \X Classes /\ c \in Capability
  BY DEF TypeOK, Evidence, Topology, Request, Dated, Up, Running
<1>1. /\ ev.topo.gen # 0 /\ Current(ev.topo) /\ ev.pol.gen # 0 /\ Current(ev.pol)
      /\ IF KindOf[d] = HostStack THEN q.fallback /\ rule.fallback ELSE KindOf[d] \in rule.kinds
      /\ CapabilityAdmits(rule, w, q.cls, d)
      /\ rule.reqObs => Observed(d, ev.topo.inc[d], ev) /\ ev.obs[d].live = "Alive"
      /\ rule.reqAuth => A # {}
  BY DEF Plannable, Eligible
<1>2. /\ r.cls = q.cls /\ r.scope = q.scope /\ r.dev = d /\ r.inc = ev.topo.inc[d]
      /\ r.bTopo = ev.topo.gen /\ r.bPol = ev.pol.gen /\ r.fence.ep = epoch
      /\ r.bCap = CapabilityGeneration(w, q.cls, d)
      /\ r.auth = IF rule.reqAuth THEN Min(A) ELSE NoGrant
  BY DEF NewAssignment, PlanFor, NewFence
<1>3. /\ rule.reqCap \/ MaxEpoch = 1
      /\ KindOf[d] \in rule.kinds /\ (KindOf[d] = HostStack => rule.fallback)
  <2>1. ev.pol.rule \in Policies
    BY <1>1 DEF RulesKnown
  <2> QED BY <1>0, <1>1, <2>1 DEF Consistent
<1>4. ASSUME r.bCap # 0
      PROVE  c.gen = r.bCap /\ Current(c) /\ (f.reg => Suits(c, f, ev.topo.inc[d]))
  <2>1. /\ KindOf[d] # HostStack /\ c.gen # 0 /\ c.gen = r.bCap
        /\ Match(c, w, ev.topo.inc[d]) = "Eligible"
    BY <1>2, <1>4 DEF CapabilityGeneration
  <2>2. f.reg => Suits(c, f, ev.topo.inc[d])
    <3>1. Suits(c, w, ev.topo.inc[d])
      BY <2>1, MatchSuits
    <3>2. f.reg => w.ver = f.ver /\ f.need \subseteq w.need
      BY DEF Required
    <3> QED BY <3>1, <3>2 DEF Suits
  <2>3. Current(c)
    <3>1. CASE rule.reqCap
      BY <1>1, <2>1, <3>1 DEF CapabilityAdmits
    <3>2. CASE MaxEpoch = 1
      <4>1. c.ep \in Nat /\ c.ep # 0 /\ c.ep <= epoch
        BY <1>0, <2>1 DEF Dated, Capability
      <4> QED BY <1>0, <3>2, <4>1 DEF Current
    <3> QED BY <1>3, <3>1, <3>2
  <2> QED BY <2>1, <2>2, <2>3
<1>5. ASSUME r.auth # NoGrant
      PROVE  /\ Current(ev.grants[g])
             /\ Covers(ev, g, "Place", q.cls, d, q.scope, w.need \cup rule.need)
  <2>1. g = Min(A) /\ A # {}
    BY <1>1, <1>2, <1>5
  <2>2. A \subseteq Nat
    BY ConstantsAssumption DEF Admitting
  <2>3. Min(A) \in A
    <3> HIDE DEF A
    <3> QED BY <2>1, <2>2, MinInSet
  <2> QED BY <2>1, <2>3 DEF Admitting, Admits
<1>6. rule.reqObs => /\ ev.obs[d].live = "Alive" /\ ev.obs[d].inc = ev.topo.inc[d]
                     /\ Current(ev.obs[d])
  BY <1>1 DEF Observed
<1> HIDE DEF r, A
<1>7. SameTarget(r, ev)
  BY <1>2 DEF SameTarget
<1>8. r.bTopo <= ev.topo.gen
  BY <1>0, <1>2
<1>9. r.auth # NoGrant =>
        /\ ev.grants[g].ep # 0 /\ Current(ev.grants[g]) /\ ~ev.grants[g].revoked
        /\ ev.grants[g].pgen = ev.pol.gen
        /\ "Place" \in GrantTerms[g].actions /\ r.cls \in GrantTerms[g].classes
        /\ KindOf[r.dev] \in GrantTerms[g].kinds /\ r.scope \in GrantTerms[g].scopes
        /\ GrantTerms[g].ceiling # {} =>
             (IF f.reg THEN f.need \cup rule.need ELSE {}) \subseteq GrantTerms[g].ceiling
  <2>1. f.need \subseteq w.need
    BY DEF Required
  <2> HIDE DEF w
  <2> QED BY <1>2, <1>5, <2>1 DEF Covers
<1>10. r.bCap # 0 => LET k == ev.cap[<<r.dev, r.cls>>] IN
                     /\ k.gen = r.bCap /\ Current(k)
                     /\ ev.functions[r.cls].reg => Suits(k, ev.functions[r.cls], r.inc)
  BY <1>2, <1>4
<1>11. Standing(r, ev)
  BY <1>1, <1>2, <1>3, <1>6, <1>7, <1>8, <1>9, <1>10 DEF Standing
<1> QED BY <1>11 DEF r

LEMMA StandingKept ==
  ASSUME NoResume, NoRegain, ~CommitCanFail, Consistent, plans = {},
         TypeOK, Calm, RulesKnown, Dated, StandingInv, [Next]_vars
  PROVE  StandingInv'
<1> SUFFICES ASSUME Running', NEW i \in DOMAIN asg', i \notin unjudged', HoldsAuthority(asg'[i])
             PROVE  Standing(asg[i], ev)'
  BY DEF StandingInv, HoldsAuthority
<1>0. \A j \in DOMAIN asg : j \in Ids /\ j <= MaxOrdinal /\ asg[j] \in Assignment
  BY ConstantsAssumption DEF TypeOK, Ids
<1>a. ASSUME epoch' = epoch, NEW r, r = asg'[i], Standing(r, ev') PROVE Standing(asg[i], ev)'
  BY <1>a DEF Standing, Current, SameTarget
<1>1. CASE StillStep
  <2>1. /\ asg' = asg /\ Running /\ epoch' = epoch /\ SameEvidence(ev, ev')
        /\ i \notin unjudged /\ ev'.functions[asg[i].cls] = ev.functions[asg[i].cls]
    BY <1>1 DEF StillStep, StillJudged
  <2>2. Standing(asg[i], ev)
    BY <2>1 DEF StandingInv
  <2>3. Standing(asg[i], ev')
    BY <1>0, <2>1, <2>2, SameStands
  <2> QED BY <1>a, <2>1, <2>3
<1>2. CASE RevalidateStep
  <2>1. PICK last : RevalidateUpTo(ev', last) /\ (last = MaxOrdinal \/ ev' = ev)
    BY <1>2 DEF RevalidateStep
  <2>2. Running /\ epoch' = epoch /\ LaterEvidence(ev, ev')
    BY <1>2 DEF RevalidateStep
  <2> DEFINE S == {j \in Restored(asg, ev') : j <= last}
  <2>3. /\ DOMAIN asg' = DOMAIN asg /\ claims' = Released(claims, asg, S)
        /\ \A j \in DOMAIN asg \ S : asg'[j] = asg[j]
        /\ \A j \in DOMAIN asg \cap S : ~HoldsAuthority(asg'[j])
    BY <2>1, RevalidateParts
  <2>4. i \notin S /\ i \in DOMAIN asg /\ asg'[i] = asg[i]
    <3> HIDE DEF S
    <3> QED BY <2>3
  <2>5. i \in unjudged => i <= last
    BY <2>1 DEF RevalidateUpTo
  <2>6. Standing(asg[i], ev')
    <3>1. CASE ev' = ev /\ i \notin unjudged
      BY <2>2, <2>4, <3>1 DEF StandingInv
    <3>2. CASE i <= last
      <4>1. i \notin Restored(asg, ev')
        BY <2>4, <3>2
      <4>2. IsLive(asg[i]) /\ asg[i].st # "Degraded"
        BY <2>4 DEF HoldsAuthority, Holding, IsLive, Live
      <4>3. Validity(asg[i], ev') = "Ok"
        BY <2>4, <4>1, <4>2 DEF Restored
      <4> QED BY <1>0, <2>4, <4>3, ValidStands
    <3> QED BY <1>0, <2>1, <2>4, <2>5, <3>1, <3>2
  <2> QED BY <1>a, <2>2, <2>4, <2>6
<1>3. CASE StoreStep
  <2>1. PICK n \in DOMAIN asg, r \in Assignment :
          /\ Store(n, r) /\ SameClaim(asg[n], r)
          /\ Kept(asg[n], r) \/ Regained(asg[n], r) \/ Resumed(n, r)
          /\ unjudged' = unjudged \/ Resumed(n, r)
    BY <1>3 DEF StoreStep
  <2>2. Running /\ ev' = ev /\ epoch' = epoch
    BY <1>3 DEF StoreStep
  <2>3. ~Regained(asg[n], r)
    BY DEF Regained, Calm, NoRegain
  <2>4. ~Resumed(n, r)
    BY DEF Resumed, Reauthorizable, Admits, Covers, NoResume
  <2>5. /\ asg' = [j \in DOMAIN asg |-> IF j = n THEN r ELSE asg[j]]
        /\ i \notin unjudged
    BY <2>1, <2>4 DEF Store, Put
  <2>6. Standing(asg'[i], ev)
    <3>1. CASE i = n
      <4>1. asg'[i] = r /\ HoldsAuthority(asg[n]) /\ Kept(asg[n], r)
        BY <2>1, <2>3, <2>4, <2>5, <3>1 DEF Kept
      <4> QED BY <2>1, <2>2, <2>5, <3>1, <4>1, KeptStands DEF StandingInv
    <3>2. CASE i # n
      BY <2>2, <2>5, <3>2 DEF StandingInv
    <3> QED BY <3>1, <3>2
  <2> QED BY <1>a, <2>2, <2>6
<1>4. CASE AuthorizeStep
  <2>1. PICK p \in PlanRecord, q \in Request, d \in Devices :
          /\ Plannable(q, d) /\ p = PlanFor(q, d)
          /\ Authorize(p) \/ AuthorizeInterrupted(p)
    BY <1>4 DEF AuthorizeStep
  <2>2. Up /\ Running /\ ev' = ev /\ epoch' = epoch
    BY <1>4 DEF AuthorizeStep, Up, Running
  <2> DEFINE a == Superseded(asg, Displaced(p))
  <2>3. DOMAIN a = DOMAIN asg /\ \A j \in DOMAIN a : HoldsAuthority(a[j]) => a[j] = asg[j]
    BY <1>0 DEF Superseded, HoldsAuthority, Holding, Assignment
  <2>4. Standing(NewAssignment(p), ev)
    BY <2>1, <2>2, PlacedStands
  <2> HIDE DEF a
  <2>6. asg'[i] = NewAssignment(p) \/ (i \in DOMAIN a /\ asg'[i] = a[i] /\ i \notin unjudged)
    <3>1. CASE Authorize(p)
      <4>1. asg' = Put(a, nextOrd + 1, NewAssignment(p)) /\ unjudged' = unjudged \ {nextOrd + 1}
        BY <3>1 DEF Authorize, a
      <4> QED BY <4>1 DEF Put
    <3>2. CASE AuthorizeInterrupted(p)
      BY <3>2 DEF AuthorizeInterrupted, a
    <3> QED BY <2>1, <3>1, <3>2
  <2>7. Standing(asg'[i], ev)
    BY <2>2, <2>3, <2>4, <2>6 DEF StandingInv
  <2> QED BY <1>a, <2>2, <2>7
<1>5. CASE Start
  <2>1. UsesOf(asg', asg'[i].auth) = {}
    BY <1>5, StartUsesNothing
  <2> QED BY <2>1 DEF UsesOf
<1>6. CASE DownStep
  BY <1>6 DEF DownStep
<1> QED BY <1>1, <1>2, <1>3, <1>4, <1>5, <1>6, StepCases

\* Placement and revalidation agree, for every policy that is Consistent: a holder none of
\* whose evidence has lapsed passes assignment_validity, until its function is registered
\* anew and again from the next revalidation on.  The hypotheses are those under which it
\* is true: reauthorize takes a grant that need not cover "Place", a report gives
\* authority to a degraded record without a look, a failed append leaves records that were
\* not looked at, and a plan may be kept over a restart.
THEOREM FabricHoldersValid ==
  ASSUME NoResume, NoRegain, ~CommitCanFail, MaxPlans = 0, Consistent
  PROVE  Spec => []HoldersValid
<1> DEFINE Inv == plans = {} /\ Calm /\ RulesKnown /\ Dated /\ StandingInv
<1>1. Init => Inv
  BY ConstantsAssumption
     DEF Init, Calm, NoEvidence, NoObservation, RulesKnown, Dated, StandingInv, Running
<1>2. TypeOK /\ Inv /\ [Next]_vars => Inv'
  <2> SUFFICES ASSUME TypeOK, Inv, [Next]_vars PROVE Inv'
    OBVIOUS
  <2>1. plans' = {}
    BY PlansStep
  <2>2. Calm'
    BY CalmKept
  <2>3. RulesKnown'
    BY RulesKnownKept
  <2>4. Dated'
    BY DatedKept
  <2>5. StandingInv'
    BY StandingKept
  <2> QED BY <2>1, <2>2, <2>3, <2>4, <2>5
<1>3. TypeOK /\ Inv => HoldersValid
  <2> SUFFICES ASSUME TypeOK, StandingInv, Running, NEW i \in DOMAIN asg \ unjudged,
                      HoldsAuthority(asg[i]), Fresh(asg[i])
               PROVE  Validity(asg[i], ev) = "Ok"
    BY DEF HoldersValid
  <2> QED BY StandingIsValid DEF StandingInv, TypeOK
<1> QED BY <1>1, <1>2, <1>3, TypeCorrect, PTL DEF Spec
=============================================================================
