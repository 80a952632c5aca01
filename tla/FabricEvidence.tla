--------------------------- MODULE FabricEvidence ---------------------------
(***************************************************************************)
(* No evidence accepted before the last start justifies authority, as long *)
(* as the clients keep no plan from one operation to a later one           *)
(* (MaxPlans = 0; with kept plans it is false, see the README).            *)
(* reauthorize never asks whether the grant it is given is current.  What  *)
(* protects it is arithmetic on policy generations: the policy must be     *)
(* current, a current policy has a larger generation than every earlier    *)
(* one, and the grant names the generation it was made under.              *)
(***************************************************************************)
EXTENDS FabricProofs

\* What a record is bound to was accepted in this lifetime.
Justified(r) ==
  /\ Current(ev.topo) /\ Current(ev.pol)
  /\ r.auth # NoGrant => Current(ev.grants[r.auth])

\* An attempt of this lifetime is justified, holding authority or not: an
\* effect report may give it authority at any time.
AttemptsJustified ==
  Running => \A i \in DOMAIN asg : asg[i].fence.ep = epoch => Justified(asg[i])

\* A grant of an earlier lifetime is bound to a generation the current policy
\* has left behind.
GrantsBehind ==
  /\ ev.pol.ep <= epoch
  /\ \A g \in GrantIds : ev.grants[g].ep # 0 =>
       /\ ev.grants[g].pgen <= ev.pol.gen
       /\ Current(ev.pol) /\ ~Current(ev.grants[g]) => ev.grants[g].pgen < ev.pol.gen

EvidenceInv == plans = {} /\ GrantsBehind /\ AttemptsJustified

\* The records of b carry the tokens and the grants they have in a.
SameBasis(a, b) ==
  \A i \in DOMAIN b : i \in DOMAIN a /\ b[i].fence = a[i].fence /\ b[i].auth = a[i].auth

\* What was current stays so.
StaysCurrent ==
  /\ Current(ev.topo) => Current(ev'.topo)
  /\ Current(ev.pol) => Current(ev'.pol)
  /\ \A g \in GrantIds : Current(ev.grants[g]) => Current(ev'.grants[g])

\* Steps that issue no token and lose no evidence keep attempts justified.
LEMMA JustifiedKept ==
  ASSUME TypeOK, AttemptsJustified, SameBasis(asg, asg'), StaysCurrent,
         epoch' = epoch, Running' => Running
  PROVE  AttemptsJustified'
<1> SUFFICES ASSUME Running', NEW i \in DOMAIN asg', asg'[i].fence.ep = epoch
             PROVE  Justified(asg[i])'
  BY DEF AttemptsJustified
<1>1. /\ i \in DOMAIN asg /\ asg'[i].auth = asg[i].auth /\ asg[i].fence.ep = epoch
  BY DEF SameBasis
<1>2. Justified(asg[i])
  BY <1>1 DEF AttemptsJustified
<1>3. asg[i].auth \in GrantIds \cup {NoGrant}
  BY <1>1 DEF TypeOK, Assignment
<1> QED BY <1>1, <1>2, <1>3 DEF Justified, StaysCurrent, Current

\* Revalidation changes states only.
LEMMA RevalidateBasis ==
  ASSUME TypeOK, NEW e, NEW last, RevalidateUpTo(e, last)
  PROVE  SameBasis(asg, asg')
<1>1. ASSUME NEW i \in DOMAIN asg
      PROVE  asg'[i].fence = asg[i].fence /\ asg'[i].auth = asg[i].auth
  <2>1. asg[i] \in Assignment
    BY DEF TypeOK
  <2> QED BY <2>1 DEF RevalidateUpTo, Assignment
<1> QED BY <1>1 DEF SameBasis, RevalidateUpTo

\* Storing a record with its token and grant.
LEMMA StoreBasis ==
  ASSUME NEW i \in DOMAIN asg, NEW r, Store(i, r),
         r.fence = asg[i].fence, r.auth = asg[i].auth
  PROVE  SameBasis(asg, asg')
BY DEF Store, Put, SameBasis

\* Superseding changes states only.
LEMMA SupersededBasis ==
  ASSUME TypeOK, NEW h
  PROVE  SameBasis(asg, Superseded(asg, h))
<1>1. ASSUME NEW i \in DOMAIN asg
      PROVE  /\ Superseded(asg, h)[i].fence = asg[i].fence
             /\ Superseded(asg, h)[i].auth = asg[i].auth
  <2>1. asg[i] \in Assignment
    BY DEF TypeOK
  <2> QED BY <2>1 DEF Superseded, Assignment
<1> QED BY <1>1 DEF SameBasis, Superseded

\* Accepted evidence e keeps the invariant if e does.
LEMMA AcceptKeeps ==
  ASSUME TypeOK, EvidenceInv, Running, NEW e, Accept(e), StaysCurrent, GrantsBehind'
  PROVE  EvidenceInv'
<1>1. PICK last : RevalidateUpTo(e, last)
  BY DEF Accept, RevalidateAll
<1>2. SameBasis(asg, asg')
  BY <1>1, RevalidateBasis
<1>3. AttemptsJustified'
  BY <1>2, JustifiedKept DEF Accept, EvidenceInv
<1> QED BY <1>3 DEF Accept, EvidenceInv

\* Types of the evidence, as the arithmetic on generations needs them.
LEMMA EvidenceTypes ==
  ASSUME TypeOK
  PROVE  /\ epoch \in Nat /\ ev \in Evidence
         /\ ev.pol.ep \in Nat /\ ev.pol.gen \in Nat /\ ev.topo.ep \in Nat
         /\ \A g \in GrantIds : ev.grants[g] \in Grant /\ ev.grants[g].ep \in Nat
                                /\ ev.grants[g].pgen \in Nat
<1>1. ev \in Evidence /\ epoch \in Nat
  BY DEF TypeOK
<1>2. ev.pol \in Policy /\ ev.topo \in Topology /\ ev.grants \in [GrantIds -> Grant]
  BY <1>1 DEF Evidence
<1>3. ASSUME NEW g \in GrantIds
      PROVE  ev.grants[g] \in Grant /\ ev.grants[g].ep \in Nat /\ ev.grants[g].pgen \in Nat
  <2>1. ev.grants[g] \in Grant
    BY <1>2
  <2> QED BY <2>1 DEF Grant
<1> QED BY <1>1, <1>2, <1>3 DEF Policy, Topology

\* The steps of the evidence producers.
LEMMA EvidenceStepKeeps == TypeOK /\ EvidenceInv /\ EvidenceStep => EvidenceInv'
<1> SUFFICES ASSUME TypeOK, EvidenceInv, EvidenceStep PROVE EvidenceInv'
  OBVIOUS
<1>0. /\ epoch \in Nat /\ ev \in Evidence
      /\ ev.pol.ep \in Nat /\ ev.pol.gen \in Nat /\ ev.topo.ep \in Nat
      /\ \A g \in GrantIds : ev.grants[g] \in Grant /\ ev.grants[g].ep \in Nat
                             /\ ev.grants[g].pgen \in Nat
  BY EvidenceTypes
<1>a. GrantsBehind /\ AttemptsJustified /\ (Up => Running)
  BY DEF EvidenceInv, Up, Running
<1>1. ASSUME NEW c \in Registrable, NEW f \in Descriptors, RegisterFunction(c, f)
      PROVE  EvidenceInv'
  <2>1. /\ ev'.topo = ev.topo /\ ev'.pol = ev.pol /\ ev'.grants = ev.grants
    BY <1>0, <1>1 DEF RegisterFunction, Evidence
  <2> QED BY <1>1, <2>1 DEF RegisterFunction, EvidenceInv, GrantsBehind, AttemptsJustified,
                            Justified, Current, Running
<1>2. ASSUME NEW inc \in Topologies, IngestTopology(inc) PROVE EvidenceInv'
  <2>1. ev'.topo.ep = epoch /\ ev'.pol = ev.pol /\ ev'.grants = ev.grants /\ epoch' = epoch
    BY <1>0, <1>2 DEF IngestTopology, Accept, Evidence
  <2>2. StaysCurrent /\ GrantsBehind'
    BY <1>a, <2>1 DEF StaysCurrent, GrantsBehind, Current
  <2> QED BY <1>a, <1>2, <2>2, AcceptKeeps DEF IngestTopology
<1>3. ASSUME NEW rule \in Policies, IngestPolicy(rule) PROVE EvidenceInv'
  <2>1. /\ ev'.pol.ep = epoch /\ ev'.pol.gen = ev.pol.gen + 1
        /\ ev'.topo = ev.topo /\ ev'.grants = ev.grants /\ epoch' = epoch
    BY <1>0, <1>3 DEF IngestPolicy, Accept, Evidence, NextGeneration
  <2>2. StaysCurrent
    BY <2>1 DEF StaysCurrent, Current
  <2>3. GrantsBehind'
    BY <1>0, <1>a, <2>1 DEF GrantsBehind, Current
  <2> QED BY <1>a, <1>3, <2>2, <2>3, AcceptKeeps DEF IngestPolicy
<1>4. ASSUME NEW d \in Devices, NEW c \in Classes, NEW gen \in 1..MaxCap, NEW body \in Bodies,
             NEW inc \in {t[d] : t \in Topologies} \ {0},
             IngestCapability(d, c, gen, inc, body)
      PROVE  EvidenceInv'
  <2>1. ev'.topo = ev.topo /\ ev'.pol = ev.pol /\ ev'.grants = ev.grants /\ epoch' = epoch
    BY <1>0, <1>4 DEF IngestCapability, Accept, Evidence
  <2>2. StaysCurrent /\ GrantsBehind'
    BY <1>a, <2>1 DEF StaysCurrent, GrantsBehind, Current
  <2> QED BY <1>a, <1>4, <2>2, AcceptKeeps DEF IngestCapability
<1>5. ASSUME NEW d \in Devices, NEW live \in Livenesses, IngestObservation(d, live)
      PROVE  EvidenceInv'
  <2>1. ev'.topo = ev.topo /\ ev'.pol = ev.pol /\ ev'.grants = ev.grants /\ epoch' = epoch
    BY <1>0, <1>5 DEF IngestObservation, Accept, Evidence
  <2>2. StaysCurrent /\ GrantsBehind'
    BY <1>a, <2>1 DEF StaysCurrent, GrantsBehind, Current
  <2> QED BY <1>a, <1>5, <2>2, AcceptKeeps DEF IngestObservation
<1>6. ASSUME NEW g \in GrantIds, GrantAuthority(g) PROVE EvidenceInv'
  <2>1. /\ ev'.topo = ev.topo /\ ev'.pol = ev.pol /\ epoch' = epoch
        /\ ev'.grants[g].ep = epoch /\ ev'.grants[g].pgen = ev.pol.gen
        /\ \A h \in GrantIds \ {g} : ev'.grants[h] = ev.grants[h]
    BY <1>0, <1>6 DEF GrantAuthority, Evidence
  <2>2. StaysCurrent /\ GrantsBehind'
    BY <1>0, <1>a, <2>1 DEF StaysCurrent, GrantsBehind, Current
  <2>3. SameBasis(asg, asg') /\ (Running' => Running) /\ plans' = plans
    BY <1>6 DEF GrantAuthority, SameBasis, Running
  <2> QED BY <1>a, <2>1, <2>2, <2>3, JustifiedKept DEF EvidenceInv
<1>7. ASSUME NEW g \in GrantIds, WithdrawAuthority(g) PROVE EvidenceInv'
  <2>1. /\ ev'.topo = ev.topo /\ ev'.pol = ev.pol /\ epoch' = epoch
        /\ \A h \in GrantIds : /\ ev'.grants[h].ep = ev.grants[h].ep
                               /\ ev'.grants[h].pgen = ev.grants[h].pgen
    BY <1>0, <1>7 DEF WithdrawAuthority, Accept, Evidence, Grant
  <2>2. StaysCurrent /\ GrantsBehind'
    BY <1>a, <2>1 DEF StaysCurrent, GrantsBehind, Current
  <2> QED BY <1>7, <2>2, AcceptKeeps DEF WithdrawAuthority
<1>8. CASE Revalidate
  <2>1. SameBasis(asg, asg')
    BY <1>8, RevalidateBasis DEF Revalidate
  <2>2. StaysCurrent /\ GrantsBehind' /\ epoch' = epoch /\ (Running' => Running) /\ plans' = plans
    BY <1>a, <1>8 DEF Revalidate, StaysCurrent, GrantsBehind, Current, Running
  <2> QED BY <1>a, <2>1, <2>2, JustifiedKept DEF EvidenceInv
<1>9. CASE Expire
  <2>1. /\ ev'.topo.ep = ev.topo.ep /\ ev'.pol.ep = ev.pol.ep /\ ev'.pol.gen = ev.pol.gen
        /\ \A h \in GrantIds : /\ ev'.grants[h].ep = ev.grants[h].ep
                               /\ ev'.grants[h].pgen = ev.grants[h].pgen
    <3>1. CASE ev' = [ev EXCEPT !.topo.fresh = FALSE]
      BY <1>0, <3>1 DEF Evidence, Topology
    <3>2. CASE ev' = [ev EXCEPT !.pol.fresh = FALSE]
      BY <1>0, <3>2 DEF Evidence, Policy
    <3>3. CASE \E k \in Devices \X Classes : ev' = [ev EXCEPT !.cap[k].fresh = FALSE]
      BY <1>0, <3>3 DEF Evidence
    <3>4. CASE \E d \in Devices : ev' = [ev EXCEPT !.obs[d].fresh = FALSE]
      BY <1>0, <3>4 DEF Evidence
    <3>5. CASE \E g \in GrantIds : ev' = [ev EXCEPT !.grants[g].fresh = FALSE]
      BY <1>0, <3>5 DEF Evidence, Grant
    <3> QED BY <1>9, <3>1, <3>2, <3>3, <3>4, <3>5 DEF Expire
  <2>2. epoch' = epoch /\ phase' = phase /\ asg' = asg /\ plans' = plans
    BY <1>9 DEF Expire
  <2>3. StaysCurrent /\ GrantsBehind'
    BY <1>a, <2>1, <2>2 DEF StaysCurrent, GrantsBehind, Current
  <2>4. SameBasis(asg, asg') /\ (Running' => Running)
    BY <2>2 DEF SameBasis, Running
  <2> QED BY <1>a, <2>2, <2>3, <2>4, JustifiedKept DEF EvidenceInv
<1> QED BY <1>1, <1>2, <1>3, <1>4, <1>5, <1>6, <1>7, <1>8, <1>9 DEF EvidenceStep

\* apply_locked plans on current evidence and authorizes under the same lock.
LEMMA ApplyKeeps ==
  ASSUME TypeOK, EvidenceInv, NEW q \in Request, NEW d \in Devices, Apply(q, d)
  PROVE  EvidenceInv'
<1> DEFINE p == PlanFor(q, d)
           h == Displaced(p)
           n == nextOrd + 1
<1>0. /\ Running /\ Up /\ Plannable(q, d)
      /\ Authorize(p) \/ AuthorizeInterrupted(p) \/ AuthorizeFails
  BY DEF Apply, Up, Running
<1>1. ev' = ev /\ epoch' = epoch /\ plans' = plans
  BY <1>0 DEF Authorize, AuthorizeInterrupted, AuthorizeFails
<1>2. GrantsBehind' /\ StaysCurrent
  BY <1>1 DEF EvidenceInv, GrantsBehind, StaysCurrent, Current
<1>3. SameBasis(asg, Superseded(asg, h))
  BY SupersededBasis
<1>4. CASE Authorize(p)
  <2>1. Justified(NewAssignment(p))
    <3> DEFINE A == Admitting(ev, asg, q.cls, d, q.scope,
                              Required(q).need \cup ev.pol.rule[q.cls].need)
    <3>1. Current(ev.topo) /\ Current(ev.pol)
      BY <1>0 DEF Plannable
    <3>2. ASSUME ev.pol.rule[q.cls].reqAuth
          PROVE  Min(A) \in A
      <4>1. A # {}
        BY <1>0, <3>2 DEF Plannable, Eligible
      <4>2. A \subseteq Nat
        BY ConstantsAssumption DEF Admitting
      <4> HIDE DEF A
      <4> QED BY <4>1, <4>2, MinInSet
    <3>3. p.auth # NoGrant => p.auth \in A
      BY <3>2 DEF PlanFor
    <3>4. NewAssignment(p).auth = p.auth
      BY DEF NewAssignment
    <3> QED BY <3>1, <3>3, <3>4 DEF Justified, Admitting
  <2>2. ASSUME NEW i \in DOMAIN asg', asg'[i].fence.ep = epoch PROVE Justified(asg'[i])
    <3>1. CASE i = n
      BY <1>4, <2>1, <3>1 DEF Authorize, Put
    <3>2. CASE i # n
      <4>1. i \in DOMAIN Superseded(asg, h) /\ asg'[i] = Superseded(asg, h)[i]
        BY <1>4, <2>2, <3>2 DEF Authorize, Put
      <4>2. /\ i \in DOMAIN asg /\ asg[i].fence.ep = epoch
            /\ asg'[i].auth = asg[i].auth
        BY <1>3, <2>2, <4>1 DEF SameBasis
      <4>3. Justified(asg[i])
        BY <1>0, <4>2 DEF EvidenceInv, AttemptsJustified
      <4> QED BY <4>2, <4>3 DEF Justified
    <3> QED BY <3>1, <3>2
  <2>3. AttemptsJustified'
    BY <1>1, <2>2 DEF AttemptsJustified, Justified, Current
  <2> QED BY <1>1, <1>2, <2>3 DEF EvidenceInv
<1>5. CASE AuthorizeInterrupted(p)
  <2>1. SameBasis(asg, asg')
    BY <1>3, <1>5 DEF AuthorizeInterrupted
  <2>2. AttemptsJustified'
    BY <1>0, <1>1, <1>2, <2>1, JustifiedKept DEF EvidenceInv
  <2> QED BY <1>1, <1>2, <2>2 DEF EvidenceInv
<1>6. CASE AuthorizeFails
  BY <1>0, <1>1, <1>2, <1>6, SupersededBasis, JustifiedKept
     DEF AuthorizeFails, EvidenceInv, SameBasis
<1> QED BY <1>0, <1>4, <1>5, <1>6

\* A grant that covers an action under a current policy is current itself.
LEMMA CoveringGrantCurrent ==
  ASSUME TypeOK, GrantsBehind, Current(ev.pol),
         NEW g \in GrantIds, NEW action, NEW cls, NEW dev, NEW scope, NEW need,
         Covers(ev, g, action, cls, dev, scope, need)
  PROVE  Current(ev.grants[g])
BY EvidenceTypes DEF GrantsBehind, Covers

\* The steps of the clients and of the enforcement plane; no plan is kept.
LEMMA PlacementStepKeeps ==
  ASSUME MaxPlans = 0, TypeOK, EvidenceInv, PlacementStep
  PROVE  EvidenceInv'
<1>0. /\ \A i \in DOMAIN asg : i \in Ids /\ asg[i] \in Assignment
      /\ Up => Running
      /\ plans = {} /\ GrantsBehind /\ AttemptsJustified
  BY DEF TypeOK, Up, Running, EvidenceInv
<1>a. ASSUME ev' = ev, epoch' = epoch PROVE StaysCurrent /\ GrantsBehind'
  BY <1>0, <1>a DEF StaysCurrent, GrantsBehind, Current
<1>1. ASSUME NEW q \in Requests, NEW d \in Devices, Plan(q, d) PROVE EvidenceInv'
  BY <1>1 DEF Plan
<1>2. ASSUME NEW q \in Requests, NEW d \in Devices, Apply(q, d) PROVE EvidenceInv'
  BY <1>2, ConstantsAssumption, ApplyKeeps
<1>3. ASSUME NEW i \in DOMAIN asg, NEW d \in Devices, Replace(i, d) PROVE EvidenceInv'
  <2> DEFINE q == [cls |-> asg[i].cls, scope |-> asg[i].scope, excl |-> asg[i].excl,
                   demand |-> asg[i].demand, repl |-> TRUE, fallback |-> FALSE,
                   dep |-> NoDep, need |-> {}, ver |-> 0]
  <2>1. q \in Request
    BY <1>0, ConstantsAssumption DEF Assignment, Request
  <2> QED BY <1>3, <2>1, ApplyKeeps DEF Replace
<1>4. ASSUME NEW i \in DOMAIN asg, NEW g \in GrantIds \cup {NoGrant}, Revoke(i, g)
      PROVE  EvidenceInv'
  <2>1. SameBasis(asg, asg')
    <3> DEFINE r == [asg[i] EXCEPT !.st = "Revoked"]
    <3>1. r.fence = asg[i].fence /\ r.auth = asg[i].auth
      BY <1>0 DEF Assignment
    <3> QED BY <1>4, <3>1, StoreBasis DEF Revoke
  <2>2. ev' = ev /\ epoch' = epoch /\ plans' = plans /\ (Running' => Running)
    BY <1>4 DEF Revoke, Running
  <2> QED BY <1>0, <1>a, <2>1, <2>2, JustifiedKept DEF EvidenceInv
<1>5. ASSUME NEW i \in DOMAIN asg, NEW g \in GrantIds, Reauthorize(i, g)
      PROVE  EvidenceInv'
  <2>1. /\ Admits(ev, asg, g, "Reauthorize", asg[i].cls, asg[i].dev, asg[i].scope,
                  ev.functions[asg[i].cls].need)
        /\ TargetValidity(asg[i], ev, FALSE) \in {"Ok", "LivenessDegraded"}
        /\ Running
    BY <1>0, <1>5 DEF Reauthorize, Reauthorizable
  <2>2. Current(ev.topo) /\ Current(ev.pol)
    BY <2>1 DEF TargetValidity, TargetSound
  <2>3. Current(ev.grants[g])
    BY <1>0, <2>1, <2>2, CoveringGrantCurrent DEF Admits
  <2>4. asg'[i].auth = g /\ \A j \in DOMAIN asg' \ {i} : j \in DOMAIN asg /\ asg'[j] = asg[j]
    BY <1>0, <1>5 DEF Reauthorize, Store, Put, Assignment
  <2>5. ev' = ev /\ epoch' = epoch /\ plans' = plans
    BY <1>5 DEF Reauthorize
  <2>6. ASSUME NEW j \in DOMAIN asg', asg'[j].fence.ep = epoch PROVE Justified(asg'[j])
    <3>1. CASE j = i
      BY <2>2, <2>3, <2>4, <3>1 DEF Justified
    <3>2. CASE j # i
      BY <1>0, <2>1, <2>4, <2>6, <3>2 DEF AttemptsJustified
    <3> QED BY <3>1, <3>2
  <2>7. AttemptsJustified'
    BY <2>5, <2>6 DEF AttemptsJustified, Justified, Current
  <2> QED BY <1>0, <1>a, <2>5, <2>7 DEF EvidenceInv
<1>6. ASSUME NEW i \in DOMAIN asg, NEW f \in Tokens, NEW o \in Outcomes, ReportEffect(i, f, o)
      PROVE  EvidenceInv'
  <2>1. SameBasis(asg, asg')
    <3> DEFINE r == [asg[i] EXCEPT !.st = AfterEffect(asg[i].st, o),
                                   !.eff = asg[i].eff \cup {o}]
    <3>1. r.fence = asg[i].fence /\ r.auth = asg[i].auth
      BY <1>0 DEF Assignment
    <3> QED BY <1>6, <3>1, StoreBasis DEF ReportEffect
  <2>2. ev' = ev /\ epoch' = epoch /\ plans' = plans /\ (Running' => Running)
    BY <1>6 DEF ReportEffect, Running
  <2> QED BY <1>0, <1>a, <2>1, <2>2, JustifiedKept DEF EvidenceInv
<1>7. ASSUME NEW i \in DOMAIN asg, NEW g \in GrantIds, ReauthorizeFails(i, g)
      PROVE  EvidenceInv'
  <2>1. /\ ev' = ev /\ epoch' = epoch /\ plans' = plans /\ (Running' => Running)
        /\ SameBasis(asg, asg')
    BY <1>7 DEF ReauthorizeFails, Running, SameBasis
  <2> QED BY <1>0, <1>a, <2>1, JustifiedKept DEF EvidenceInv
<1> QED BY <1>0, <1>1, <1>2, <1>3, <1>4, <1>5, <1>6, <1>7 DEF PlacementStep

\* A start leaves every token behind, so that nothing has to be justified.
LEMMA ProcessStepKeeps ==
  TypeOK /\ Promise!FenceInv /\ EvidenceInv /\ ProcessStep => EvidenceInv'
<1> SUFFICES ASSUME TypeOK, Promise!FenceInv, EvidenceInv, ProcessStep PROVE EvidenceInv'
  OBVIOUS
<1>0. GrantsBehind /\ AttemptsJustified /\ plans = {} /\ epoch \in Nat /\ ev.pol.ep \in Nat
  BY EvidenceTypes DEF EvidenceInv
<1>1. CASE Start
  <2>1. ev'.pol = ev.pol /\ ev'.grants = ev.grants /\ epoch' = epoch + 1 /\ plans' = plans
    BY <1>1 DEF Start, TypeOK, Evidence
  <2>2. GrantsBehind'
    BY <1>0, <2>1 DEF GrantsBehind, Current
  <2>3. ASSUME NEW i \in DOMAIN asg' PROVE asg'[i].fence.ep # epoch'
    <3>1. i \in DOMAIN asg /\ asg[i] \in Assignment
      BY <1>1 DEF Start, Suspended, TypeOK
    <3>2. asg'[i].fence = asg[i].fence
      BY <1>1, <3>1 DEF Start, Suspended, Assignment
    <3>3. asg[i].fence.ep <= epoch /\ asg[i].fence.ep \in Nat
      BY <3>1 DEF Promise!FenceInv, Promise!Issued, Attempts, Assignment, Fence
    <3> QED BY <1>0, <2>1, <3>2, <3>3
  <2> QED BY <1>0, <2>1, <2>2, <2>3 DEF EvidenceInv, AttemptsJustified
<1>2. CASE StartInterrupted
  <2>1. GrantsBehind'
    BY <1>0, <1>2 DEF StartInterrupted, GrantsBehind, Current
  <2>2. ~Running'
    BY <1>2 DEF StartInterrupted, Running
  <2> QED BY <1>0, <1>2, <2>1, <2>2 DEF StartInterrupted, EvidenceInv, AttemptsJustified
<1>3. CASE Stop
  BY <1>0, <1>3 DEF Stop, LoseMemory, EvidenceInv, GrantsBehind, AttemptsJustified, Current, Running
<1>4. CASE AcceptRecovery
  BY <1>0, <1>4 DEF AcceptRecovery, EvidenceInv, GrantsBehind, AttemptsJustified, Justified,
                    Current, Running
<1>5. CASE Compact
  BY <1>0, <1>5 DEF Compact, EvidenceInv, GrantsBehind, AttemptsJustified, Justified,
                    Current, Running
<1> QED BY <1>1, <1>2, <1>3, <1>4, <1>5 DEF ProcessStep

\* Where no plan outlives the operation that made it, the topology, the policy
\* and the grant behind every holder were accepted in the running lifetime.
THEOREM FabricNoPriorEvidence ==
  ASSUME MaxPlans = 0
  PROVE  Spec => []NoPriorEvidence
<1>1. Init => EvidenceInv
  BY DEF Init, NoEvidence, EvidenceInv, GrantsBehind, AttemptsJustified, Running
<1>2. TypeOK /\ Promise!FenceInv /\ EvidenceInv /\ [Next]_vars => EvidenceInv'
  <2>1. EvidenceInv /\ UNCHANGED vars => EvidenceInv'
    BY DEF vars, EvidenceInv, GrantsBehind, AttemptsJustified, Justified, Current, Running
  <2> QED BY <2>1, EvidenceStepKeeps, PlacementStepKeeps, ProcessStepKeeps DEF Next
<1>3. HoldersFenced /\ EvidenceInv => NoPriorEvidence
  BY DEF HoldersFenced, EvidenceInv, AttemptsJustified, Justified, NoPriorEvidence
<1>4. Spec => []Promise!FenceInv
  BY FabricImplementsFencing, Promise!FencingSafe, PTL DEF ImplementsFencing
<1> QED BY <1>1, <1>2, <1>3, <1>4, TypeCorrect, FabricHoldersFenced, PTL DEF Spec
=============================================================================
