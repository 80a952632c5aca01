------------------------------- MODULE Fabric -------------------------------
(***************************************************************************)
(* The coordinator of src/src/fabric.cpp: assignment intent and authority, *)
(* kept under one mutex, so that every public operation is one step.  The  *)
(* enforcement plane, the evidence producers and the clients are the       *)
(* environment: their calls arrive in any order, late, and repeatedly.     *)
(*                                                                         *)
(* Data are abstracted to what the properties tell apart:                  *)
(*   - evidence carries the coordinator epoch in which it was accepted;    *)
(*     detail::SourceState::is_current (sequence above the restart floor)  *)
(*     holds exactly of the evidence accepted in the current epoch;        *)
(*   - a freshness window is the Boolean `fresh', which time (Expire) may  *)
(*     turn off at any moment;                                             *)
(*   - the five dimensions of a demand or capacity vector, which the code  *)
(*     treats alike, are one number;                                       *)
(*   - a function is named by its class, of which it is the only one;      *)
(*   - lease and attempt numbers are issued together with the fencing      *)
(*     token and matched together with it: the token stands for the three. *)
(* A refused operation leaves the state alone (the requests here carry no  *)
(* idempotency key), so an action is an operation that is not refused; a   *)
(* failed append refuses one half way, and has an action where it shows.   *)
(***************************************************************************)
EXTENDS Integers, FiniteSets, FiniteSetsExt

CONSTANTS
  Devices,      \* device identifiers
  KindOf,       \* [Devices -> device kinds]
  HostStack,    \* the kind whose placement is a host fallback
  Capacity,     \* [Devices -> Nat], capacity a topology advertises
  Classes,      \* function classes, numbers: maps iterate in their order
  Registrable,  \* classes whose function the clients may register
  Semantics,    \* offload semantics, in masks
  Versions,     \* semantic versions, numbers, 0 is 0.0, which stands for none
  Descriptors,  \* what a function may be registered with
  Scopes,       \* governed scopes
  Global,       \* the scope whose ScopeId is empty
  GrantIds,     \* authority grant identifiers, numbers, in map order
  GrantTerms,   \* [GrantIds -> [actions, classes, kinds, scopes, ceiling, max]]
  Requests,     \* placement requests the clients may send
  Topologies,   \* device incarnations a topology may report, 0 = absent
  Policies,     \* [Classes -> rule] a policy snapshot may carry
  Bodies,       \* what a capability record may say of a class
  Livenesses,   \* what an observation may say of a device
  Outcomes,     \* effect outcomes the enforcement plane may report
  Expirable,    \* evidence domains whose freshness may lapse
  AutoAccept,   \* FabricConfig::auto_accept_recovery
  CommitCanFail,\* whether a journal append may fail in a running process
  MaxEpoch, MaxTopo, MaxPol, MaxCap, MaxOrdinal, MaxFence, MaxPlans \* bounds

VARIABLES
  phase,     \* "down", "recovering" (not accepted yet) or "up"
  epoch,     \* state.epoch.counter
  ev,        \* accepted evidence: topology, policy, capabilities, ...
  asg,       \* state.assignments, a partial function of assignment ordinals
  claims,    \* exclusive_by_class, exclusive_by_scope and committed
  moves,     \* number of reassignment stamps per scope and class
  nextOrd,   \* next_assignment_ordinal (the last one issued)
  nextFence, \* next_fence_sequence (the last one issued)
  snap,      \* next_assignment_ordinal saved by the last compaction
  plans,     \* PlanResults the in-process clients hold
  unjudged   \* assignments whose function was registered anew since they were
             \* last placed or looked at; the code has no such thing

vars == <<phase, epoch, ev, asg, claims, moves, nextOrd, nextFence, snap, plans, unjudged>>

-----------------------------------------------------------------------------
(* Values *)

NoGrant == 0
NoDep == 0
Ids == 1..MaxOrdinal
Actions == {"Place", "Reauthorize", "Revoke"}
KeyModes == {"PerClass", "PerScope"}

Holding == {"Authorized", "Dispatched", "Acknowledged", "AppliedVerified"}
Live == Holding \cup {"Degraded", "Suspended", "Planned"}
Terminal == {"Revoked", "Superseded", "Rejected", "Failed"}

HoldsAuthority(r) == r.st \in Holding
IsLive(r) == r.st \in Live
IsTerminal(r) == r.st \in Terminal

\* A fencing token; (epoch, sequence) orders tokens.
Fence == [ep : Nat, seq : Nat]
Dominates(f, g) == f.ep > g.ep \/ (f.ep = g.ep /\ f.seq > g.seq)

\* A class for which the policy carries no rule may run on no kind.
Rule == [kinds : SUBSET {KindOf[d] : d \in Devices}, fallback : BOOLEAN,
         reqCap : BOOLEAN, reqObs : BOOLEAN, reqAuth : BOOLEAN,
         need : SUBSET Semantics, key : KeyModes, maxPerDev : Nat, maxMoves : Nat]

Request == [cls : Classes, scope : Scopes, excl : BOOLEAN, demand : Nat,
            repl : BOOLEAN, fallback : BOOLEAN, dep : Classes \cup {NoDep},
            need : SUBSET Semantics, ver : Versions]

\* FunctionDescriptor; `reg' tells a registered function from the default.
Function == [reg : BOOLEAN, need : SUBSET Semantics, ver : Versions]
Unregistered == [reg |-> FALSE, need |-> {}, ver |-> 0]

\* The claims of a CapabilityRecord; what is neither supported nor denied is unknown.
Body == [revoked : BOOLEAN, versions : SUBSET Versions, supported : SUBSET Semantics,
         denied : SUBSET Semantics]
NoBody == [revoked |-> FALSE, versions |-> {}, supported |-> {}, denied |-> {}]

Assignment ==
  [st : Live \cup Terminal, cls : Classes, scope : Scopes, excl : BOOLEAN,
   key : KeyModes, demand : Nat, dev : Devices, inc : Nat \ {0},
   bTopo : Nat, bPol : Nat, bCap : Nat, auth : GrantIds \cup {NoGrant},
   fence : Fence, eff : SUBSET Outcomes]

\* The in-memory indexes; 0 marks an absent entry.
Claims == [byClass : [Scopes \X Classes -> Ids \cup {0}],
           byScope : [Scopes -> Ids \cup {0}],
           committed : [Devices -> Nat]]

\* A plan is an assignment that has not been issued an identity yet.
PlanRecord ==
  [cls : Classes, scope : Scopes, excl : BOOLEAN, demand : Nat, dev : Devices,
   inc : Nat \ {0}, bTopo : Nat, bPol : Nat, bCap : Nat,
   need : SUBSET Semantics, auth : GrantIds \cup {NoGrant}, replace : BOOLEAN]

Topology == [gen : Nat, ep : Nat, fresh : BOOLEAN, inc : [Devices -> Nat]]
Policy == [gen : Nat, ep : Nat, fresh : BOOLEAN, rule : [Classes -> Rule]]
Capability == [gen : Nat, ep : Nat, fresh : BOOLEAN, inc : Nat, body : Body]
Observation == [ep : Nat, fresh : BOOLEAN, inc : Nat,
                live : Livenesses \cup {"None"}]
Grant == [pgen : Nat, ep : Nat, fresh : BOOLEAN, revoked : BOOLEAN]

Evidence ==
  [topo : Topology, pol : Policy, cap : [Devices \X Classes -> Capability],
   obs : [Devices -> Observation], grants : [GrantIds -> Grant],
   functions : [Classes -> Function]]

ASSUME ConstantsAssumption ==
  /\ Classes \subseteq Nat \ {0} /\ GrantIds \subseteq Nat \ {0}
  /\ IsFiniteSet(Devices) /\ IsFiniteSet(GrantIds) /\ IsFiniteSet(Classes)
  /\ Capacity \in [Devices -> Nat]
  /\ GrantTerms \in [GrantIds -> [actions : SUBSET Actions, classes : SUBSET Classes,
                                  kinds : SUBSET {KindOf[d] : d \in Devices},
                                  scopes : SUBSET Scopes, ceiling : SUBSET Semantics,
                                  max : Nat]]
  /\ Registrable \subseteq Classes /\ Requests \subseteq Request
  /\ Versions \subseteq Nat /\ 0 \in Versions /\ Bodies \subseteq Body
  /\ Descriptors \subseteq {f \in Function : f.reg}
  /\ Topologies \subseteq [Devices -> Nat]
  /\ Policies \subseteq [Classes -> Rule]
  /\ Livenesses \subseteq {"Alive", "Degraded", "Dead", "Unknown"}
  /\ Outcomes \subseteq {"Applied", "Rejected", "Failed", "Unknown"}
  /\ AutoAccept \in BOOLEAN /\ CommitCanFail \in BOOLEAN
  /\ {MaxEpoch, MaxTopo, MaxPol, MaxCap, MaxOrdinal, MaxFence, MaxPlans} \subseteq Nat

-----------------------------------------------------------------------------
(* What the evidence e says *)

\* evidence_current: accepted since the last start.
Current(x) == x.ep = epoch

\* match_capability of what function f requires, for the incarnation the caller
\* expects.
Match(c, f, inc) ==
  IF c.body.revoked THEN "Revoked"
  ELSE IF c.inc # inc THEN "IncarnationMismatch"
  ELSE IF ~c.fresh THEN "Stale"
  ELSE IF f.ver \notin c.body.versions THEN "VersionIncompatible"
  ELSE IF f.need \cap c.body.denied # {} THEN "Unsupported"
  ELSE IF f.need \subseteq c.body.supported THEN "Eligible"
  ELSE "Unknown"

\* refresh_authority_usage: uses are the holders that name the grant.
Used(a, g) == Cardinality({i \in DOMAIN a : HoldsAuthority(a[i]) /\ a[i].auth = g})

\* authority_admits, up to the use budget; an empty ceiling is none.
Covers(e, g, action, cls, dev, scope, need) ==
  /\ e.grants[g].ep # 0
  /\ ~e.grants[g].revoked
  /\ e.grants[g].pgen = e.pol.gen
  /\ e.grants[g].fresh
  /\ action \in GrantTerms[g].actions
  /\ cls \in GrantTerms[g].classes
  /\ KindOf[dev] \in GrantTerms[g].kinds
  /\ scope \in GrantTerms[g].scopes
  /\ GrantTerms[g].ceiling # {} => need \subseteq GrantTerms[g].ceiling

\* Mutant of BudgetLeft: the last use is admitted twice.
BudgetLeftOffByOne(a, g) == GrantTerms[g].max = 0 \/ Used(a, g) <= GrantTerms[g].max

BudgetLeft(a, g) == GrantTerms[g].max = 0 \/ Used(a, g) < GrantTerms[g].max

Admits(e, a, g, action, cls, dev, scope, need) ==
  Covers(e, g, action, cls, dev, scope, need) /\ BudgetLeft(a, g)

\* The grants find_admitting_authority walks over in identifier order.
Admitting(e, a, cls, dev, scope, need) ==
  {g \in GrantIds : Current(e.grants[g]) /\ Admits(e, a, g, "Place", cls, dev, scope, need)}

\* Mutant of CapabilityHolds: any generation will do.
CapabilityHoldsUnbound(r, e, bind) ==
  LET c == e.cap[<<r.dev, r.cls>>] IN
  /\ c.gen # 0 /\ Current(c) /\ c.fresh
  /\ e.functions[r.cls].reg => Match(c, e.functions[r.cls], r.inc) = "Eligible"

\* The capability part of assignment_target_validity; `bind' asks for the very
\* generation the record is bound to.  Only a registered function is matched.
CapabilityHolds(r, e, bind) ==
  LET c == e.cap[<<r.dev, r.cls>>] IN
  /\ c.gen # 0
  /\ bind => c.gen = r.bCap
  /\ Current(c)
  /\ c.fresh
  /\ e.functions[r.cls].reg => Match(c, e.functions[r.cls], r.inc) = "Eligible"

\* Mutant of SameTarget: a rebooted device is taken for the old one.
SameTargetAnyIncarnation(r, e) == e.topo.inc[r.dev] # 0

\* The device is in the topology, not decommissioned, in the same incarnation.
SameTarget(r, e) == e.topo.inc[r.dev] = r.inc

\* assignment_target_validity up to the liveness evidence.
TargetSound(r, e, bind) ==
  LET rule == e.pol.rule[r.cls] IN
  /\ e.topo.gen # 0 /\ Current(e.topo) /\ e.topo.fresh
  /\ r.bTopo <= e.topo.gen
  /\ SameTarget(r, e)
  /\ e.pol.gen # 0 /\ Current(e.pol) /\ e.pol.fresh
  /\ KindOf[r.dev] \in rule.kinds
  /\ KindOf[r.dev] = HostStack => rule.fallback
  /\ r.bCap # 0 => CapabilityHolds(r, e, bind)

\* A usable observation of this incarnation, whatever it says.
Observed(d, inc, e) ==
  LET o == e.obs[d] IN o.live # "None" /\ o.inc = inc /\ Current(o) /\ o.fresh

TargetValidity(r, e, bind) ==
  LET live == e.obs[r.dev].live IN
  IF ~TargetSound(r, e, bind) THEN "Invalid"
  ELSE IF ~e.pol.rule[r.cls].reqObs THEN "Ok"
  ELSE IF ~Observed(r.dev, r.inc, e) THEN "Invalid"
  ELSE IF live = "Alive" THEN "Ok"
  ELSE IF live = "Degraded" THEN "LivenessDegraded"
  ELSE "Invalid"

\* assignment_validity: the target's verdict comes first and hides the rest.
Validity(r, e) ==
  LET target == TargetValidity(r, e, TRUE)
      f == e.functions[r.cls]
      need == IF f.reg THEN f.need \cup e.pol.rule[r.cls].need ELSE {}
      bound == /\ r.bPol = e.pol.gen
               /\ r.fence.ep = epoch
               /\ r.auth # NoGrant =>
                    /\ Current(e.grants[r.auth])
                    /\ Covers(e, r.auth, "Place", r.cls, r.dev, r.scope, need)
  IN IF target # "Ok" THEN target ELSE IF bound THEN "Ok" ELSE "Invalid"

-----------------------------------------------------------------------------
(* Claims: the exclusivity indexes and the committed demand *)

NoClaims == [byClass |-> [k \in Scopes \X Classes |-> 0],
             byScope |-> [s \in Scopes |-> 0],
             committed |-> [d \in Devices |-> 0]]

\* Mutant of Monus: the subtraction is not checked.
MonusUnchecked(m, n) == m - n

\* checked_sub with its fallback to zero.
Monus(m, n) == IF n \in 0..m THEN m - n ELSE 0

\* The demand of the records S of a.
Demand(a, S) == MapThenSumSet(LAMBDA i : a[i].demand, S)

\* release_claims, for every record of S at once.  The demand is given back
\* whether or not the record was holding any.
Released(c, a, S) ==
  [byClass |-> [k \in Scopes \X Classes |->
                  LET h == c.byClass[k] IN
                  IF h \in S /\ <<a[h].scope, a[h].cls>> = k THEN 0 ELSE h],
   byScope |-> [s \in Scopes |->
                  LET h == c.byScope[s] IN
                  IF h \in S /\ a[h].scope = s THEN 0 ELSE h],
   committed |-> [d \in Devices |->
                    Monus(c.committed[d], Demand(a, {i \in S : a[i].dev = d}))]]

\* acquire_claims: a later claim overwrites an earlier one.
Acquired(c, i, r) ==
  LET claim(mode) == HoldsAuthority(r) /\ r.excl /\ r.key = mode IN
  [byClass |-> [k \in Scopes \X Classes |->
                  IF claim("PerClass") /\ k = <<r.scope, r.cls>>
                  THEN i ELSE c.byClass[k]],
   byScope |-> [s \in Scopes |->
                  IF claim("PerScope") /\ s = r.scope THEN i ELSE c.byScope[s]],
   committed |-> [d \in Devices |->
                    c.committed[d] + IF HoldsAuthority(r) /\ d = r.dev
                                     THEN r.demand ELSE 0]]

Put(f, i, r) == [j \in DOMAIN f \cup {i} |-> IF j = i THEN r ELSE f[j]]

\* Mutant of Inserted: the claims of the previous record are kept.
InsertedWithoutRelease(c, a, i, r) == Acquired(c, i, r)

\* insert_assignment on the claims: release what the identifier had, then
\* acquire what the new record needs.
Inserted(c, a, i, r) == Acquired(Released(c, a, DOMAIN a \cap {i}), i, r)

\* store_assignment: the record is durable and in memory.
Store(i, r) ==
  /\ asg' = Put(asg, i, r)
  /\ claims' = Inserted(claims, asg, i, r)

-----------------------------------------------------------------------------
(* Placement *)

\* Mutant of Conflicts: only the claim on the very class counts.
ConflictsOfClass(scope, cls, key) ==
  IF scope = Global THEN {} ELSE {claims.byClass[<<scope, cls>>]} \ {0}

\* scope_has_exclusive_conflict: the claims on the scope that stand against a
\* claim with this key mode, in the order the code meets them.
Conflicts(scope, cls, key) ==
  LET classes == IF key = "PerClass" THEN {cls} ELSE Classes
      held == {claims.byClass[<<scope, c>>] : c \in classes} \cup {claims.byScope[scope]}
  IN IF scope = Global THEN {} ELSE held \ {0}

FirstConflict(scope, cls, key) ==
  LET classes == {c \in IF key = "PerClass" THEN {cls} ELSE Classes :
                    claims.byClass[<<scope, c>>] # 0}
  IN IF Conflicts(scope, cls, key) = {} THEN 0
     ELSE IF claims.byScope[scope] # 0 THEN claims.byScope[scope]
     ELSE claims.byClass[<<scope, Min(classes)>>]

\* Mutant of Required: what the registered function needs is left out.
RequiredByRequest(q) ==
  LET f == ev.functions[q.cls] IN
  [reg |-> f.reg, need |-> q.need, ver |-> IF f.reg THEN f.ver ELSE q.ver]

\* The function plan_locked asks for: what is registered, and what the request
\* adds to it.
Required(q) ==
  LET f == ev.functions[q.cls] IN
  [reg |-> f.reg, need |-> f.need \cup q.need, ver |-> IF f.reg THEN f.ver ELSE q.ver]

\* The capability part of evaluate_device, for function f.
CapabilityAdmits(rule, f, cls, d) ==
  LET c == ev.cap[<<d, cls>>]
      host == KindOf[d] = HostStack
      match == Match(c, f, ev.topo.inc[d]) IN
  IF c.gen = 0 THEN host \/ ~rule.reqCap
  ELSE /\ match \notin {"Revoked", "IncarnationMismatch"}
       /\ ~host => match \notin {"Unsupported", "VersionIncompatible"}
       /\ ~host /\ rule.reqCap => Current(c) /\ match = "Eligible"

\* The capability generation the evaluation reports; 0 claims none.
CapabilityGeneration(f, cls, d) ==
  LET c == ev.cap[<<d, cls>>] IN
  IF /\ KindOf[d] # HostStack /\ c.gen # 0
     /\ Match(c, f, ev.topo.inc[d]) = "Eligible" THEN c.gen ELSE 0

DependencyHeld(q, d) ==
  q.dep # NoDep =>
    /\ q.dep # q.cls
    /\ ev.functions[q.dep].reg
    /\ \E i \in DOMAIN asg :
         /\ asg[i].cls = q.dep /\ HoldsAuthority(asg[i])
         /\ asg[i].dev = d \/ (q.scope # Global /\ asg[i].scope = q.scope)

\* evaluate_device: d is eligible for q, which asks for function f, while
\* `replacing' gives way.
Eligible(q, f, d, replacing) ==
  LET rule == ev.pol.rule[q.cls] IN
  /\ ev.topo.inc[d] # 0
  /\ IF KindOf[d] = HostStack THEN q.fallback /\ rule.fallback
                              ELSE KindOf[d] \in rule.kinds
  /\ CapabilityAdmits(rule, f, q.cls, d)
  /\ claims.committed[d] + q.demand <= Capacity[d]
  /\ Cardinality({i \in DOMAIN asg : asg[i].dev = d /\ HoldsAuthority(asg[i])})
       < rule.maxPerDev
  /\ rule.reqObs => /\ Observed(d, ev.topo.inc[d], ev)
                    /\ ev.obs[d].live = "Alive"
  /\ DependencyHeld(q, d)
  /\ q.excl => Conflicts(q.scope, q.cls, rule.key) \subseteq {replacing}
  /\ rule.reqAuth => Admitting(ev, asg, q.cls, d, q.scope, f.need \cup rule.need) # {}

\* The holder a plan would displace: the class claim before the scope claim.
Replacing(q) ==
  IF ~q.repl /\ ~q.excl THEN 0
  ELSE IF claims.byClass[<<q.scope, q.cls>>] # 0 THEN claims.byClass[<<q.scope, q.cls>>]
  ELSE claims.byScope[q.scope]

\* plan_locked accepts q on d.  A client names d among its preferred devices,
\* so that every eligible device can be the selected one.
Plannable(q, d) ==
  /\ ev.topo.gen # 0 /\ Current(ev.topo) /\ ev.topo.fresh
  /\ ev.pol.gen # 0 /\ Current(ev.pol) /\ ev.pol.fresh
  /\ ev.functions[q.cls].reg => q.ver \in {0, ev.functions[q.cls].ver}
  /\ ~q.repl => Replacing(q) = 0
  /\ Eligible(q, Required(q), d, Replacing(q))

PlanFor(q, d) ==
  LET need == Required(q).need \cup ev.pol.rule[q.cls].need IN
  [cls |-> q.cls, scope |-> q.scope, excl |-> q.excl, demand |-> q.demand,
   dev |-> d, inc |-> ev.topo.inc[d], bTopo |-> ev.topo.gen, bPol |-> ev.pol.gen,
   bCap |-> CapabilityGeneration(Required(q), q.cls, d), need |-> need,
   auth |-> IF ev.pol.rule[q.cls].reqAuth
            THEN Min(Admitting(ev, asg, q.cls, d, q.scope, need)) ELSE NoGrant,
   replace |-> Replacing(q) # 0]

\* The function and the request authorize_locked rebuilds from a plan: the need of
\* the plan, the version registered by now, no dependencies.
Planned(p) == [ev.functions[p.cls] EXCEPT !.need = p.need]
Synthetic(p) ==
  [cls |-> p.cls, scope |-> p.scope, excl |-> p.excl, demand |-> p.demand,
   repl |-> FALSE, fallback |-> KindOf[p.dev] = HostStack, dep |-> NoDep,
   need |-> p.need, ver |-> Planned(p).ver]

\* The assignment that authorizing p displaces, 0 if none.
Displaced(p) ==
  IF p.excl THEN FirstConflict(p.scope, p.cls, ev.pol.rule[p.cls].key) ELSE 0

\* The checks of authorize_locked.  Generations are compared with the plan's;
\* neither freshness nor currency of topology and policy is looked at again.
Authorizable(p, allowReplacement) ==
  LET rule == ev.pol.rule[p.cls] IN
  /\ ev.topo.gen = p.bTopo /\ ev.pol.gen = p.bPol
  /\ ev.topo.inc[p.dev] = p.inc
  /\ p.bCap # 0 => ev.cap[<<p.dev, p.cls>>].gen = p.bCap
  /\ Displaced(p) # 0 => /\ allowReplacement
                         /\ moves[<<p.scope, p.cls>>] < rule.maxMoves
  /\ Eligible(Synthetic(p), Planned(p), p.dev, Displaced(p))
  /\ rule.reqAuth =>
       Admits(ev, asg, p.auth, "Place", p.cls, p.dev, p.scope, p.need \cup rule.need)
-----------------------------------------------------------------------------
(* Revalidation *)

\* The state revalidate_locked moves r to under evidence e.
Revalidated(r, e) ==
  CASE Validity(r, e) = "Ok" -> r.st
    [] Validity(r, e) = "LivenessDegraded" -> "Degraded"
    [] OTHER -> "Suspended"

\* Mutant of Restored: terminal records are looked at as well.
RestoredTerminalToo(a, e) ==
  {i \in DOMAIN a : /\ Validity(a[i], e) # "Ok"
                    /\ Validity(a[i], e) = "LivenessDegraded" => a[i].st # "Degraded"}

\* The records it stores again: a suspended record that is still invalid is
\* stored again as well, a degraded one that is still degraded is not.
Restored(a, e) ==
  {i \in DOMAIN a : /\ IsLive(a[i])
                    /\ Validity(a[i], e) # "Ok"
                    /\ Validity(a[i], e) = "LivenessDegraded" => a[i].st # "Degraded"}

\* revalidate_locked as far as identifier `last'.  None of the new states holds
\* authority, so nothing is acquired.
RevalidateUpTo(e, last) ==
  LET S == {i \in Restored(asg, e) : i <= last} IN
  /\ asg' = [i \in DOMAIN asg |->
               IF i \in S THEN [asg[i] EXCEPT !.st = Revalidated(asg[i], e)]
                          ELSE asg[i]]
  /\ claims' = Released(claims, asg, S)
  /\ unjudged' = unjudged \ {i \in DOMAIN asg : i <= last}

\* revalidate_now, which only a failed append stops half way.
RevalidateAll(e) ==
  \E last \in (IF CommitCanFail THEN 0..MaxOrdinal ELSE {MaxOrdinal}) :
    RevalidateUpTo(e, last)

-----------------------------------------------------------------------------
(* Lifecycle of the process *)

NoRule == [kinds |-> {}, fallback |-> FALSE, reqCap |-> FALSE, reqObs |-> FALSE,
           reqAuth |-> FALSE, need |-> {}, key |-> "PerClass", maxPerDev |-> 0,
           maxMoves |-> 0]
NoObservation == [ep |-> 0, fresh |-> FALSE, inc |-> 0, live |-> "None"]
NoEvidence ==
  [topo |-> [gen |-> 0, ep |-> 0, fresh |-> FALSE, inc |-> [d \in Devices |-> 0]],
   pol |-> [gen |-> 0, ep |-> 0, fresh |-> FALSE, rule |-> [c \in Classes |-> NoRule]],
   cap |-> [k \in Devices \X Classes |->
              [gen |-> 0, ep |-> 0, fresh |-> FALSE, inc |-> 0, body |-> NoBody]],
   obs |-> [d \in Devices |-> NoObservation],
   grants |-> [g \in GrantIds |->
                 [pgen |-> 0, ep |-> 0, fresh |-> FALSE, revoked |-> FALSE]],
   functions |-> [c \in Classes |-> Unregistered]]

Init ==
  /\ phase = "down" /\ epoch = 0
  /\ ev = NoEvidence
  /\ asg = [i \in {} |-> 0]
  /\ claims = NoClaims
  /\ moves = [k \in Scopes \X Classes |-> 0]
  /\ nextOrd = 0 /\ nextFence = 0 /\ snap = 0
  /\ plans = {} /\ unjudged = {}

Running == phase # "down"
Up == phase = "up"

\* Mutant of Suspended: an attempt in flight is left alone.
SuspendedInFlight(a, last) ==
  [i \in DOMAIN a |-> IF IsLive(a[i]) /\ i <= last /\ a[i].st # "Dispatched"
                      THEN [a[i] EXCEPT !.st = "Suspended"] ELSE a[i]]

\* The first ids of the store are suspended by a start that reaches `last'.
Suspended(a, last) ==
  [i \in DOMAIN a |-> IF IsLive(a[i]) /\ i <= last
                      THEN [a[i] EXCEPT !.st = "Suspended"] ELSE a[i]]

LiveIds == {i \in DOMAIN asg : IsLive(asg[i])}

\* Fabric::start: replay, rebuild_indexes, the next epoch, the restart floor,
\* and RESTART_AUTHORITY_RESET for whatever is live.  rebuild_indexes takes the
\* ordinal from the snapshot and the live records only.  Suspending every
\* holder gives back every claim that it rebuilt.
Start ==
  /\ phase = "down" /\ epoch < MaxEpoch
  /\ phase' = IF AutoAccept THEN "up" ELSE "recovering"
  /\ epoch' = epoch + 1
  /\ ev' = [ev EXCEPT !.obs = [d \in Devices |-> NoObservation]]
  /\ asg' = Suspended(asg, MaxOrdinal)
  /\ claims' = NoClaims
  /\ \E n \in {snap} \cup LiveIds : (\A m \in LiveIds : m <= n) /\ n >= snap /\ nextOrd' = n
  /\ nextFence' = 0 /\ unjudged' = {}
  /\ UNCHANGED <<moves, snap, plans>>

\* The process dies inside start, after EpochStarted became durable and
\* some of the live records were suspended.
StartInterrupted ==
  /\ phase = "down" /\ epoch < MaxEpoch - 1
  /\ epoch' = epoch + 1
  /\ \E last \in 0..MaxOrdinal : asg' = Suspended(asg, last)
  /\ UNCHANGED <<phase, ev, claims, moves, nextOrd, nextFence, snap, plans, unjudged>>

\* What lives in memory only is gone.
LoseMemory ==
  /\ phase' = "down"
  /\ claims' = NoClaims /\ nextOrd' = 0 /\ nextFence' = 0

\* Fabric::shutdown, or a crash between two operations: every accepted
\* operation is in the journal already.
Stop ==
  /\ Running /\ epoch < MaxEpoch
  /\ LoseMemory
  /\ UNCHANGED <<epoch, ev, asg, moves, snap, plans, unjudged>>

AcceptRecovery ==
  /\ phase = "recovering"
  /\ phase' = "up"
  /\ UNCHANGED <<epoch, ev, asg, claims, moves, nextOrd, nextFence, snap, plans, unjudged>>

\* Fabric::compact, or the compaction a commit performs when the journal is
\* full: the snapshot also saves the ordinal counter.
Compact ==
  /\ Running
  /\ snap' = nextOrd
  /\ UNCHANGED <<phase, epoch, ev, asg, claims, moves, nextOrd, nextFence, plans, unjudged>>
-----------------------------------------------------------------------------
(* Evidence *)

\* Accepted evidence e takes effect and every live assignment is looked at again.
Accept(e) ==
  /\ ev' = e
  /\ RevalidateAll(e)
  /\ UNCHANGED <<phase, epoch, moves, nextOrd, nextFence, snap, plans>>

\* Another descriptor takes the place of the registered one; no assignment is
\* looked at again.
RegisterFunction(c, f) ==
  /\ Up /\ ev.functions[c] # f
  /\ ev' = [ev EXCEPT !.functions[c] = f]
  /\ unjudged' = unjudged \cup {i \in DOMAIN asg : asg[i].cls = c}
  /\ UNCHANGED <<phase, epoch, asg, claims, moves, nextOrd, nextFence, snap, plans>>

\* Mutant of NextGeneration: after a restart the old generation is taken again.
NextGenerationOrSame(x) == IF Current(x) \/ x.gen = 0 THEN x.gen + 1 ELSE x.gen

\* A topology or policy snapshot must carry a larger generation: a repeated one
\* is refused, since its digest covers the new sequence number.
NextGeneration(x) == x.gen + 1

IngestTopology(inc) ==
  /\ Up /\ ev.topo.gen < MaxTopo
  /\ Accept([ev EXCEPT !.topo = [gen |-> NextGeneration(ev.topo), ep |-> epoch,
                                 fresh |-> TRUE, inc |-> inc]])

IngestPolicy(rule) ==
  /\ Up /\ ev.pol.gen < MaxPol
  /\ Accept([ev EXCEPT !.pol = [gen |-> NextGeneration(ev.pol), ep |-> epoch,
                                fresh |-> TRUE, rule |-> rule]])

\* capability_records_conflict: a generation keeps its content.
IngestCapability(d, c, gen, inc, body) ==
  LET old == ev.cap[<<d, c>>] IN
  /\ Up /\ old.gen <= gen
  /\ gen = old.gen => inc = old.inc /\ body = old.body
  /\ Accept([ev EXCEPT !.cap[<<d, c>>] = [gen |-> gen, ep |-> epoch, fresh |-> TRUE,
                                          inc |-> inc, body |-> body]])

\* The report must name the current topology generation and incarnation.
IngestObservation(d, live) ==
  /\ Up /\ ev.topo.gen # 0 /\ ev.topo.inc[d] # 0
  /\ Accept([ev EXCEPT !.obs[d] = [ep |-> epoch, fresh |-> TRUE,
                                   inc |-> ev.topo.inc[d], live |-> live]])

\* The grant must be bound to the policy generation the fabric has, current or
\* not, and its identifier must be new.
GrantAuthority(g) ==
  /\ Up /\ ev.pol.gen # 0 /\ ev.grants[g].ep = 0
  /\ ev' = [ev EXCEPT !.grants[g] = [pgen |-> ev.pol.gen, ep |-> epoch,
                                     fresh |-> TRUE, revoked |-> FALSE]]
  /\ UNCHANGED <<phase, epoch, asg, claims, moves, nextOrd, nextFence, snap, plans, unjudged>>

WithdrawAuthority(g) ==
  /\ Running /\ ev.grants[g].ep # 0 /\ ~ev.grants[g].revoked
  /\ Accept([ev EXCEPT !.grants[g].revoked = TRUE])

\* Fabric::revalidate; its CancelToken may stop it between two records.
Revalidate ==
  /\ Running
  /\ \E last \in DOMAIN asg \cup {0} : RevalidateUpTo(ev, last)
  /\ UNCHANGED <<phase, epoch, ev, moves, nextOrd, nextFence, snap, plans>>

\* Time passes the end of a freshness window.
Expire ==
  /\ \/ /\ "topo" \in Expirable /\ ev.topo.fresh
        /\ ev' = [ev EXCEPT !.topo.fresh = FALSE]
     \/ /\ "pol" \in Expirable /\ ev.pol.fresh
        /\ ev' = [ev EXCEPT !.pol.fresh = FALSE]
     \/ /\ "cap" \in Expirable
        /\ \E k \in Devices \X Classes :
             /\ ev.cap[k].fresh
             /\ ev' = [ev EXCEPT !.cap[k].fresh = FALSE]
     \/ /\ "obs" \in Expirable
        /\ \E d \in Devices : /\ ev.obs[d].fresh
                              /\ ev' = [ev EXCEPT !.obs[d].fresh = FALSE]
     \/ /\ "grant" \in Expirable
        /\ \E g \in GrantIds : /\ ev.grants[g].fresh
                               /\ ev' = [ev EXCEPT !.grants[g].fresh = FALSE]
  /\ UNCHANGED <<phase, epoch, asg, claims, moves, nextOrd, nextFence, snap, plans, unjudged>>
-----------------------------------------------------------------------------
(* Placement operations *)

\* Mutant of NewFence: the token does not name the process lifetime.
NewFenceAnyEpoch == [ep |-> 1, seq |-> nextFence + 1]

\* issue_fence: the token of the next attempt.
NewFence == [ep |-> epoch, seq |-> nextFence + 1]

\* issue_assignment_id, issue_lease, issue_attempt and issue_fence.
Issue ==
  /\ nextOrd < MaxOrdinal /\ nextFence < MaxFence
  /\ nextOrd' = nextOrd + 1
  /\ nextFence' = nextFence + 1

NewAssignment(p) ==
  [st |-> "Dispatched", cls |-> p.cls, scope |-> p.scope, excl |-> p.excl,
   key |-> ev.pol.rule[p.cls].key, demand |-> p.demand, dev |-> p.dev,
   inc |-> p.inc, bTopo |-> p.bTopo, bPol |-> p.bPol, bCap |-> p.bCap,
   auth |-> p.auth, fence |-> NewFence, eff |-> {}]

\* The first commits of a replacement: the holder h is superseded, then the
\* reassignment is stamped.
Superseded(a, h) == IF h = 0 THEN a ELSE [a EXCEPT ![h].st = "Superseded"]

\* Mutant of Relinquished: the superseded holder keeps its claims.
RelinquishedLate(c, a, h) == c
Relinquished(c, a, h) == IF h = 0 THEN c ELSE Released(c, a, {h})
Stamped(p) ==
  IF Displaced(p) = 0 THEN moves ELSE [moves EXCEPT ![<<p.scope, p.cls>>] = @ + 1]

\* The durable part of authorize_locked, all its commits done.
Authorize(p) ==
  LET h == Displaced(p) IN
  /\ Issue
  /\ asg' = Put(Superseded(asg, h), nextOrd + 1, NewAssignment(p))
  /\ claims' = Inserted(Relinquished(claims, asg, h), Superseded(asg, h),
                        nextOrd + 1, NewAssignment(p))
  /\ moves' = Stamped(p)
  /\ unjudged' = unjudged \ {nextOrd + 1}
  /\ UNCHANGED <<phase, epoch, ev, snap, plans>>

\* Only the supersession is durable, and perhaps the stamp: the process died,
\* or a later append failed and the caller got an error.
AuthorizeInterrupted(p) ==
  LET h == Displaced(p) IN
  /\ h # 0
  /\ asg' = Superseded(asg, h)
  /\ \/ /\ epoch < MaxEpoch /\ LoseMemory
        /\ moves' \in {moves, Stamped(p)}
     \/ /\ CommitCanFail /\ Issue
        /\ claims' = Relinquished(claims, asg, h)
        /\ moves' = Stamped(p)
        /\ phase' = phase
  /\ UNCHANGED <<epoch, ev, snap, plans, unjudged>>

\* The first append fails: what was issued is used up, nothing else happened.
AuthorizeFails ==
  /\ CommitCanFail /\ Issue
  /\ UNCHANGED <<phase, epoch, ev, asg, claims, moves, snap, plans, unjudged>>

\* Fabric::plan; the client keeps the result, and may forget older ones.
Plan(q, d) ==
  /\ Running /\ MaxPlans > 0
  /\ Plannable(q, d)
  /\ \E kept \in SUBSET plans : /\ Cardinality(kept) < MaxPlans
                                /\ plans' = kept \cup {PlanFor(q, d)}
  /\ UNCHANGED <<phase, epoch, ev, asg, claims, moves, nextOrd, nextFence, snap, unjudged>>

\* apply_locked plans and authorizes under one lock.
Apply(q, d) ==
  /\ Up /\ Plannable(q, d) /\ Authorizable(PlanFor(q, d), q.repl)
  /\ Authorize(PlanFor(q, d)) \/ AuthorizeInterrupted(PlanFor(q, d)) \/ AuthorizeFails

\* Fabric::apply_plan, possibly long after the plan was made.
ApplyPlan(p, allowReplacement) ==
  /\ Up /\ Authorizable(p, allowReplacement \/ p.replace)
  /\ Authorize(p) \/ AuthorizeInterrupted(p) \/ AuthorizeFails

\* Fabric::replace without a placement of its own takes that of `current',
\* whatever state that is in, but neither its need nor its version.
Replace(current, d) ==
  LET r == asg[current] IN
  Apply([cls |-> r.cls, scope |-> r.scope, excl |-> r.excl, demand |-> r.demand,
         repl |-> TRUE, fallback |-> FALSE, dep |-> NoDep, need |-> {}, ver |-> 0], d)

-----------------------------------------------------------------------------
(* Operations on an assignment *)

\* Fabric::revoke; a grant is consulted only if the request names one.
Revoke(i, g) ==
  /\ Up /\ asg[i].st # "Revoked"
  /\ HoldsAuthority(asg[i]) /\ g # NoGrant =>
       Admits(ev, asg, g, "Revoke", asg[i].cls, asg[i].dev, asg[i].scope, {})
  /\ Store(i, [asg[i] EXCEPT !.st = "Revoked"])
  /\ UNCHANGED <<phase, epoch, ev, moves, nextOrd, nextFence, snap, plans, unjudged>>

\* The checks of Fabric::reauthorize.  The currency of the grant is not asked.
Reauthorizable(i, g) ==
  LET r == asg[i] IN
  /\ Up /\ r.st \in {"Suspended", "Degraded"}
  /\ Admits(ev, asg, g, "Reauthorize", r.cls, r.dev, r.scope, ev.functions[r.cls].need)
  /\ TargetValidity(r, ev, FALSE) \in {"Ok", "LivenessDegraded"}

\* Fabric::reauthorize: a new attempt of a suspended or degraded assignment,
\* bound to the current generations.
Reauthorize(i, g) ==
  LET r == asg[i]
      c == ev.cap[<<r.dev, r.cls>>] IN
  /\ Reauthorizable(i, g)
  /\ nextFence < MaxFence
  /\ nextFence' = nextFence + 1
  /\ Store(i, [r EXCEPT !.st = IF TargetValidity(r, ev, FALSE) = "Ok"
                               THEN "Dispatched" ELSE "Degraded",
                        !.fence = NewFence, !.auth = g,
                        !.bPol = ev.pol.gen, !.bTopo = ev.topo.gen,
                        !.bCap = IF c.gen # 0 THEN c.gen ELSE @, !.eff = {}])
  /\ unjudged' = unjudged \ {i}
  /\ UNCHANGED <<phase, epoch, ev, moves, nextOrd, snap, plans>>

\* The same when the append fails.
ReauthorizeFails(i, g) ==
  /\ CommitCanFail /\ Reauthorizable(i, g)
  /\ nextFence < MaxFence
  /\ nextFence' = nextFence + 1
  /\ UNCHANGED <<phase, epoch, ev, asg, claims, moves, nextOrd, snap, plans, unjudged>>

\* Where an effect report takes the assignment.
AfterEffect(st, outcome) ==
  CASE outcome = "Applied" -> "AppliedVerified"
    [] outcome = "Unknown" -> st
    [] OTHER -> outcome

\* Mutant of TokenAccepted: the epoch of the token is not compared.
TokenAcceptedAnyEpoch(r, f) == f = r.fence

\* The fencing checks of report_effect.
TokenAccepted(r, f) == f = r.fence /\ f.ep = epoch

\* Fabric::report_effect with the token f, which may be of any age.  The effects
\* that matter are those already reported under the current token.
ReportEffect(i, f, outcome) ==
  LET r == asg[i] IN
  /\ Up
  /\ TokenAccepted(r, f)
  /\ outcome \notin r.eff
  /\ ~IsTerminal(r)
  /\ outcome = "Applied" => r.st \in {"Dispatched", "Acknowledged", "Degraded"}
  /\ Store(i, [r EXCEPT !.st = AfterEffect(@, outcome), !.eff = @ \cup {outcome}])
  /\ UNCHANGED <<phase, epoch, ev, moves, nextOrd, nextFence, snap, plans, unjudged>>

-----------------------------------------------------------------------------
Tokens == [ep : 1..MaxEpoch, seq : 1..MaxFence]

EvidenceStep ==
  \/ \E c \in Registrable, f \in Descriptors : RegisterFunction(c, f)
  \/ \E inc \in Topologies : IngestTopology(inc)
  \/ \E rule \in Policies : IngestPolicy(rule)
  \/ \E d \in Devices, c \in Classes, gen \in 1..MaxCap, body \in Bodies :
       \E inc \in {t[d] : t \in Topologies} \ {0} :
         IngestCapability(d, c, gen, inc, body)
  \/ \E d \in Devices, live \in Livenesses : IngestObservation(d, live)
  \/ \E g \in GrantIds : GrantAuthority(g) \/ WithdrawAuthority(g)
  \/ Revalidate
  \/ Expire

PlacementStep ==
  \/ \E q \in Requests, d \in Devices : Plan(q, d) \/ Apply(q, d)
  \/ \E p \in plans, allow \in BOOLEAN : ApplyPlan(p, allow)
  \/ \E i \in DOMAIN asg, d \in Devices : Replace(i, d)
  \/ \E i \in DOMAIN asg, g \in GrantIds \cup {NoGrant} : Revoke(i, g)
  \/ \E i \in DOMAIN asg, g \in GrantIds : Reauthorize(i, g) \/ ReauthorizeFails(i, g)
  \/ \E i \in DOMAIN asg, f \in Tokens, o \in Outcomes : ReportEffect(i, f, o)

ProcessStep == Start \/ StartInterrupted \/ Stop \/ AcceptRecovery \/ Compact

Next == EvidenceStep \/ PlacementStep \/ ProcessStep

Spec == Init /\ [][Next]_vars
-----------------------------------------------------------------------------
(* Properties *)

\* Every variable stays within its type; the assignments are a map from
\* identifiers to whole records, the index entries are identifiers or absent.
TypeOK ==
  /\ phase \in {"down", "recovering", "up"}
  /\ epoch \in Nat
  /\ ev \in Evidence
  /\ DOMAIN asg \subseteq Ids
  /\ asg \in [DOMAIN asg -> Assignment]
  /\ claims \in Claims
  /\ moves \in [Scopes \X Classes -> Nat]
  /\ nextOrd \in 0..MaxOrdinal /\ nextFence \in Nat /\ snap \in 0..MaxOrdinal
  /\ plans \subseteq PlanRecord /\ unjudged \subseteq Ids

\* Fencing (README, "Fencing"): in a running process whatever holds authority
\* carries a token of this process lifetime, one that was really issued.  No
\* token of an earlier lifetime can be behind a holder.
HoldersFenced ==
  Running => \A i \in DOMAIN asg :
    HoldsAuthority(asg[i]) => asg[i].fence.ep = epoch /\ asg[i].fence.seq \in 1..nextFence

\* What the coordinator promises about tokens (module Fencing): an assignment is
\* the last attempt of its identifier.
Mode(r) == IF HoldsAuthority(r) THEN "holding" ELSE IF IsTerminal(r) THEN "ended" ELSE "idle"

Attempts == [i \in DOMAIN asg |-> [fence |-> asg[i].fence, mode |-> Mode(asg[i])]]

Promise == INSTANCE Fencing WITH Names <- Ids, up <- Running, life <- epoch,
                                 issued <- nextFence, att <- Attempts

\* The coordinator implements Fencing, whatever is replayed, retried, reported
\* late or reused across restarts.
ImplementsFencing == Promise!Spec

\* Two assignments never carry the same fencing token (collect_invariants,
\* "fence_uniqueness"), across restarts and reused ordinals.
FencesUnique ==
  \A i, j \in DOMAIN asg : i # j => asg[i].fence # asg[j].fence

\* Whatever holds authority, or may regain it by an effect report, has its
\* target in the topology, in the incarnation it was placed on
\* (collect_invariants, "authority_target_present" and
\* "authority_target_incarnation"), as long as no append fails.
TargetPresent ==
  Running => \A i \in DOMAIN asg :
    HoldsAuthority(asg[i]) \/ asg[i].st = "Degraded" =>
      ev.topo.inc[asg[i].dev] = asg[i].inc

\* Likewise, the capability generation it is bound to is the one the fabric has
\* (docs/architecture.md, "whose capability ... generation moved").
CapabilityBound ==
  Running => \A i \in DOMAIN asg :
    LET r == asg[i] IN
    (HoldsAuthority(r) \/ r.st = "Degraded") /\ r.bCap # 0 =>
      ev.cap[<<r.dev, r.cls>>].gen = r.bCap

\* No freshness window behind r has lapsed.
Fresh(r) ==
  /\ ev.topo.fresh /\ ev.pol.fresh
  /\ r.bCap # 0 => ev.cap[<<r.dev, r.cls>>].fresh
  /\ ev.pol.rule[r.cls].reqObs => ev.obs[r.dev].fresh
  /\ r.auth # NoGrant => ev.grants[r.auth].fresh

\* Placement and revalidation agree: what evaluate_device and authorize_locked
\* let through is valid for assignment_validity, and stays so through every change
\* of evidence, as long as no window lapses.  register_function is the exception: it
\* may change what match_capability and the ceiling of a grant are held against, and
\* looks at nobody; then it is so again from the next revalidation on.
HoldersValid ==
  Running => \A i \in DOMAIN asg \ unjudged :
    HoldsAuthority(asg[i]) /\ Fresh(asg[i]) => Validity(asg[i], ev) = "Ok"

\* Nothing accepted before the last start justifies authority: the topology,
\* the policy and the grant behind a holder were all accepted in this lifetime,
\* although reauthorize and authorize_locked never ask whether the grant is
\* current.
NoPriorEvidence ==
  Running => \A i \in DOMAIN asg :
    HoldsAuthority(asg[i]) =>
      /\ Current(ev.topo) /\ Current(ev.pol)
      /\ asg[i].auth # NoGrant => Current(ev.grants[asg[i].auth])

\* The exclusivity indexes name holders only, under the key that holder claims
\* (collect_invariants, "exclusive_index_consistency").
IndexSound ==
  /\ \A k \in Scopes \X Classes :
       LET i == claims.byClass[k] IN
       i # 0 => /\ i \in DOMAIN asg /\ HoldsAuthority(asg[i])
                /\ asg[i].excl /\ asg[i].key = "PerClass"
                /\ <<asg[i].scope, asg[i].cls>> = k
  /\ \A s \in Scopes :
       LET i == claims.byScope[s] IN
       i # 0 => /\ i \in DOMAIN asg /\ HoldsAuthority(asg[i])
                /\ asg[i].excl /\ asg[i].key = "PerScope"
                /\ asg[i].scope = s

Overlap(r, s) ==
  /\ r.excl /\ s.excl /\ r.scope = s.scope
  /\ r.cls = s.cls \/ "PerScope" \in {r.key, s.key}

\* README, "Exclusivity": at most one assignment holds exclusive authority over
\* a scope and class, and a whole-scope claim stands against every class.
ExclusiveAuthority ==
  \A i, j \in DOMAIN asg :
    Running /\ i # j /\ HoldsAuthority(asg[i]) /\ HoldsAuthority(asg[j]) =>
      ~Overlap(asg[i], asg[j])

\* No grant backs more holders than its use budget allows.
UseBudget ==
  Running => \A g \in GrantIds :
    GrantTerms[g].max # 0 => Used(asg, g) <= GrantTerms[g].max

\* The demand of the holders on a device.
DemandHeld(d) ==
  Demand(asg, {i \in DOMAIN asg : HoldsAuthority(asg[i]) /\ asg[i].dev = d})

\* collect_invariants, "capacity_accounting": the committed demand of a device
\* is the demand of the assignments that hold authority on it.
CapacityAccounting ==
  Running => \A d \in Devices : claims.committed[d] = DemandHeld(d)

\* The books never charge a device for demand that nobody holds, whatever
\* sequence of releases, suspensions and replacements led there.
NoPhantomDemand ==
  Running => \A d \in Devices : claims.committed[d] <= DemandHeld(d)

\* An attempt that ended stays ended: a terminal record may come back to life
\* only as a new attempt, whose token dominates the old one.
NoAttemptRevives ==
  [][\A i \in DOMAIN asg :
       IsTerminal(asg[i]) /\ ~IsTerminal(asg'[i]) =>
         Dominates(asg'[i].fence, asg[i].fence)]_vars

\* docs/architecture.md, "Lifecycle": revalidation suspends an assignment whose
\* policy generation moved or whose authority was withdrawn, so that none of
\* those holds authority.
NoHolderOutlivesItsGrant ==
  Running => \A i \in DOMAIN asg :
    HoldsAuthority(asg[i]) =>
      /\ asg[i].bPol = ev.pol.gen
      /\ asg[i].auth # NoGrant => ~ev.grants[asg[i].auth].revoked
=============================================================================
