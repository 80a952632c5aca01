------------------------------ MODULE Recovery ------------------------------
(***************************************************************************)
(* What a restart of the coordinator reconstructs (src/src/fabric.cpp).    *)
(* Every operation writes records to the journal and then moves the state  *)
(* in memory; a start decodes the snapshot and re-executes the journal     *)
(* with the code of its own in apply_record.  `mem' is the state in        *)
(* memory.  `disk' is the state that decoding the snapshot and applying    *)
(* the journal would give now: replay is a left fold over records that the *)
(* store keeps in order and returns once (module Journal), so each commit  *)
(* applies one record to it.                                               *)
(*                                                                         *)
(* The operations hold the mutex from their first to their last commit:    *)
(* `pending' is what the operation in progress still has to write.  The    *)
(* process may die before each of these commits, and each may be preceded  *)
(* by the compaction of a full journal.  Which live assignments an         *)
(* evidence change invalidates, and whether a placement is eligible, is    *)
(* decided by module Fabric; here it is open.  Failing appends are in      *)
(* modules Fabric, Journal and Requests.  Requests carry an identifier:    *)
(* those that carry none are never remembered.  The digest of a report or  *)
(* of a request is the report or the request; the history of an assignment *)
(* is its length, its effects are those under its current token.           *)
(***************************************************************************)
EXTENDS Integers, Sequences, FiniteSets

CONSTANTS
  Functions,     \* function identifiers
  Descriptors,   \* what a function may be registered with: its class and requirement
  Sources,       \* evidence sources
  Slots,         \* what an item is about: devices (with a class), grants, and Whole
  Whole,         \* the slot of topology and policy, which are replaced whole
  Reports,       \* the evidence the sources may deliver, any number of times
  Scopes, Classes,  \* together the key under which reassignments are counted
  RequestIds,    \* request identifiers, numbers, in map order
  Operations,    \* what the clients may ask for
  MaxFunctions, MaxGrants, MaxIdempotency,     \* bounds.max_*
  MaxAssignments, MaxSources, MaxScopes,       \* bounds.max_*
  MaxCapabilities, MaxObservations,  \* bounds.max_capability_records, max_observations
  MaxHistory,    \* bounds.max_history_per_assignment
  StampLimit,    \* bounds.max_reassignments_per_scope * 8
  MaxEpoch, MaxCalls, MaxOrdinal \* bounds

VARIABLES
  phase,    \* "down" or "up"
  mem,      \* the state in memory
  disk,     \* the state a start would read
  scopes,   \* scope_specs, the one derived index that a snapshot carries
  pending,  \* the records the operation in progress has yet to commit
  calls,    \* number of operations begun
  sent,     \* what was asked when an identifier was last acted on
  answered, \* number of times each request was answered by executing it
  forgotten \* requests whose answer was evicted from memory or from the disk

rvars == <<phase, mem, disk, scopes, pending, calls, sent, answered, forgotten>>

Domains == {"Topology", "Capability", "Policy", "Observation", "Authority"}

\* `gen' is the generation of a topology, policy or capability, the topology
\* generation an observation names, the policy generation a grant names.
Report == [dom : Domains, src : Sources, seq : Nat \ {0}, gen : Nat \ {0},
           slots : SUBSET Slots, body : Nat]

\* `hints' stands for whatever else of a placement request its plan does not carry
\* on: preferences, dependencies, minimum generations, a permission to fall back
\* that was not used, a requirement or version that the registration changes.
Operation == [kind : {"place", "apply_plan", "revoke", "reauthorize", "effect"},
              target : Nat, key : Scopes \X Classes, repl : BOOLEAN, hints : BOOLEAN,
              outcome : {"None", "Applied", "Rejected", "Failed", "Unknown"}]

Placement(op) == op.kind \in {"place", "apply_plan"}

\* ExclusivityKey: where reassignments can happen.
Keys == {op.key : op \in {o \in Operations : Placement(o)}}

ASSUME RecoveryAssumption ==
  /\ RequestIds \subseteq Nat \ {0} /\ IsFiniteSet(RequestIds)
  /\ Whole \in Slots /\ Reports \subseteq Report /\ Operations \subseteq Operation
  /\ \A r \in Reports : /\ r.dom \in {"Topology", "Policy"} => r.slots = {Whole}
                        /\ r.dom = "Authority" => \E k \in Slots : r.slots = {k}
  /\ {MaxFunctions, MaxGrants, MaxAssignments, MaxSources, MaxScopes, MaxCapabilities,
      MaxObservations, MaxHistory, MaxEpoch, MaxCalls, MaxOrdinal} \subseteq Nat
  /\ {MaxIdempotency, StampLimit} \subseteq Nat \ {0}

-----------------------------------------------------------------------------
(* The state, FabricState without its derived indexes *)

NoRequest == 0
NoItem == [src |-> 0, seq |-> 0, gen |-> 0, body |-> 0, ep |-> 0, revoked |-> FALSE]
NoReport == [gen |-> 0, slots |-> {}, body |-> 0]

Empty ==
  [readable |-> TRUE, epoch |-> 0, ordinal |-> 0, functions |-> [f \in {} |-> 0],
   ev |-> [k \in Domains \X Slots |-> NoItem],
   sources |-> [k \in Sources \X Domains |-> [last |-> 0, digest |-> NoReport, floor |-> 0]],
   asg |-> [i \in {} |-> 0], stamps |-> [k \in Keys |-> 0],
   idem |-> [id \in {} |-> 0], order |-> <<>>]

Holding == {"Dispatched", "AppliedVerified"}
Terminal == {"Revoked", "Superseded", "Rejected", "Failed"}
LiveIds(s) == {i \in DOMAIN s.asg : s.asg[i].st \notin Terminal}

Put(f, i, r) == [j \in DOMAIN f \cup {i} |-> IF j = i THEN r ELSE f[j]]

\* The members of a set of numbers in increasing order.
InOrder(S) ==
  CHOOSE q \in [1..Cardinality(S) -> S] :
    \A i, j \in 1..Cardinality(S) : i < j => q[i] < q[j]

Greater(m, n) == IF m > n THEN m ELSE n
Lesser(m, n) == IF m < n THEN m ELSE n

-----------------------------------------------------------------------------
(* Parts of a step that live code and replay share *)

\* mark_source.
Marked(s, r) ==
  [s EXCEPT !.sources[<<r.src, r.dom>>].last = r.seq,
            !.sources[<<r.src, r.dom>>].digest =
              [gen |-> r.gen, slots |-> r.slots, body |-> r.body]]

\* The content of report r, accepted in epoch ep, takes the place of what was
\* there.  The code keeps no ep: it is what is_current is compared with.
Taken(s, r, ep) ==
  [s EXCEPT !.ev = [k \in Domains \X Slots |->
     IF k[1] = r.dom /\ k[2] \in r.slots
     THEN [src |-> r.src, seq |-> r.seq, gen |-> r.gen, body |-> r.body,
           ep |-> ep, revoked |-> FALSE]
     ELSE s.ev[k]]]

\* Mutant of Remembered: the first entries of the map go, not those of the order.
RememberedMapFirst(s, id, entry) ==
  IF id = NoRequest THEN s
  ELSE LET order == IF id \in DOMAIN s.idem THEN s.order ELSE Append(s.order, id)
           excess == Greater(Cardinality(DOMAIN s.idem \cup {id}) - MaxIdempotency, 0)
           evicted == {InOrder(DOMAIN s.idem)[n] : n \in 1..excess}
       IN [s EXCEPT
             !.order = SubSeq(order, excess + 1, Len(order)),
             !.idem = [j \in (DOMAIN s.idem \cup {id}) \ evicted |->
                         IF j = id THEN entry ELSE s.idem[j]]]

\* record_idempotency: a new request goes to the end of the order, the requests
\* at its front are evicted.
Remembered(s, id, entry) ==
  IF id = NoRequest THEN s
  ELSE LET order == IF id \in DOMAIN s.idem THEN s.order ELSE Append(s.order, id)
           excess == Greater(Cardinality(DOMAIN s.idem \cup {id}) - MaxIdempotency, 0)
           evicted == {order[n] : n \in 1..excess}
       IN [s EXCEPT
             !.order = SubSeq(order, excess + 1, Len(order)),
             !.idem = [j \in (DOMAIN s.idem \cup {id}) \ evicted |->
                         IF j = id THEN entry ELSE s.idem[j]]]

\* What a client is answered that was served, or refused.
Served(fp, i, r) == [fp |-> fp, outcome |-> "Ok", response |-> [id |-> i, record |-> r]]
Refused(fp) == [fp |-> fp, outcome |-> "Refused", response |-> [id |-> 0]]

-----------------------------------------------------------------------------
(* The records *)

FunctionRegistered(f, d) ==
  [type |-> "FunctionRegistered", function |-> f, descriptor |-> d]
EvidenceIngested(r, ep) == [type |-> "EvidenceIngested", report |-> r, ep |-> ep]
AuthorityWithdrawn(k) == [type |-> "AuthorityWithdrawn", grant |-> k]
AssignmentStored(i, r, id, fp) ==
  [type |-> "AssignmentStored", id |-> i, record |-> r, request |-> id, fp |-> fp]
EffectRecorded(i, r, id, fp) ==
  [type |-> "EffectRecorded", id |-> i, record |-> r, request |-> id, fp |-> fp]
ReassignmentRecorded(k) == [type |-> "ReassignmentRecorded", key |-> k]
RequestRecorded(id, fp) == [type |-> "RequestRecorded", request |-> id, fp |-> fp]
EpochStarted(n) == [type |-> "EpochStarted", epoch |-> n]

\* Mutant of RecoveryInvariants: the floor of a source is left where it was.
RecoveryInvariantsWithoutFloor(s) ==
  [s EXCEPT !.ev = [k \in Domains \X Slots |->
                      IF k[1] = "Observation" THEN NoItem ELSE s.ev[k]]]

\* apply_recovery_invariants.
RecoveryInvariants(s) ==
  [s EXCEPT
     !.sources = [k \in Sources \X Domains |-> [s.sources[k] EXCEPT !.floor = s.sources[k].last]],
     !.ev = [k \in Domains \X Slots |->
               IF k[1] = "Observation" THEN NoItem ELSE s.ev[k]]]

-----------------------------------------------------------------------------
(* Live: the state in memory around the commit of a record *)

\* note_reassignment stamps the state before it commits.
Before(s, rec) ==
  IF rec.type = "ReassignmentRecorded"
  THEN [s EXCEPT !.stamps[rec.key] = Lesser(@ + 1, StampLimit)] ELSE s

\* Every other operation changes the state after it commits; start applies the
\* recovery invariants once the epoch is durable.
After(s, rec) ==
  CASE rec.type = "FunctionRegistered" ->
         [s EXCEPT !.functions = Put(@, rec.function, rec.descriptor)]
    [] rec.type = "EvidenceIngested" -> Marked(Taken(s, rec.report, rec.ep), rec.report)
    [] rec.type = "AuthorityWithdrawn" ->
         [s EXCEPT !.ev[<<"Authority", rec.grant>>].revoked = TRUE]
    [] rec.type \in {"AssignmentStored", "EffectRecorded"} ->
         Remembered([s EXCEPT !.asg = Put(@, rec.id, rec.record)],
                    rec.request, Served(rec.fp, rec.id, rec.record))
    [] rec.type = "RequestRecorded" -> Remembered(s, rec.request, Refused(rec.fp))
    [] rec.type = "EpochStarted" -> RecoveryInvariants(s)
    [] OTHER -> s

-----------------------------------------------------------------------------
(* Replay: Impl::apply_record *)

\* Evidence is taken and its source marked; the digests kept to compare equal
\* generations are not restored, and are never equal anyway.
ReplayedEvidence(s, rec) == Taken(Marked(s, rec.report), rec.report, rec.ep)

\* Mutant of ReplayedWithdrawal: the grant comes back.
ReplayedWithdrawalIgnored(s, rec) == s

ReplayedWithdrawal(s, rec) ==
  IF s.ev[<<"Authority", rec.grant>>].gen = 0 THEN s
  ELSE [s EXCEPT !.ev[<<"Authority", rec.grant>>].revoked = TRUE]

\* decode_assignment refuses a history above the bound.
DecodesAssignment(r) == r.hist <= MaxHistory

\* Mutant of ReplayedAssignment: the answer is not reconstructed.
ReplayedAssignmentUnanswered(s, rec) ==
  [s EXCEPT !.readable = @ /\ DecodesAssignment(rec.record),
            !.asg = Put(@, rec.id, rec.record)]

\* The answer is encoded anew from the record.
ReplayedAssignment(s, rec) ==
  Remembered([s EXCEPT !.readable = @ /\ DecodesAssignment(rec.record),
                       !.asg = Put(@, rec.id, rec.record)],
             rec.request, Served(rec.fp, rec.id, rec.record))

\* Mutant of ReplayedStamp: the stamp is lost.
ReplayedStampLost(s, rec) == s

\* Replay does not trim the stamps.
ReplayedStamp(s, rec) == [s EXCEPT !.stamps[rec.key] = @ + 1]

Replayed(s, rec) ==
  CASE rec.type = "EpochStarted" -> [s EXCEPT !.epoch = Greater(@, rec.epoch)]
    [] rec.type = "FunctionRegistered" ->
         [s EXCEPT !.functions = Put(@, rec.function, rec.descriptor)]
    [] rec.type = "EvidenceIngested" -> ReplayedEvidence(s, rec)
    [] rec.type = "AuthorityWithdrawn" -> ReplayedWithdrawal(s, rec)
    [] rec.type \in {"AssignmentStored", "EffectRecorded"} -> ReplayedAssignment(s, rec)
    [] rec.type = "ReassignmentRecorded" -> ReplayedStamp(s, rec)
    [] rec.type = "RequestRecorded" -> Remembered(s, rec.request, Refused(rec.fp))

-----------------------------------------------------------------------------
(* Snapshots *)

\* encode_state: the eviction order is not written.
Encoded(s) == [s EXCEPT !.order = <<>>]

ItemCount(s, dom) == Cardinality({k \in Slots : s.ev[<<dom, k>>].gen # 0})
SourceCount(s) == Cardinality({k \in DOMAIN s.sources : s.sources[k].last # 0})
StampedKeys(s) == {k \in Keys : s.stamps[k] # 0}

\* The counts decode_state refuses to exceed, up to the grants and after them.
FitsEvidence(s) ==
  /\ Cardinality(DOMAIN s.functions) <= MaxFunctions
  /\ ItemCount(s, "Capability") <= MaxCapabilities
  /\ ItemCount(s, "Observation") <= MaxObservations
  /\ ItemCount(s, "Authority") <= MaxGrants
FitsRecords(s, specs) ==
  /\ Cardinality(DOMAIN s.asg) <= MaxAssignments
  /\ \A i \in DOMAIN s.asg : DecodesAssignment(s.asg[i])
  /\ Cardinality(specs) <= MaxScopes
  /\ SourceCount(s) <= MaxSources
  /\ Cardinality(StampedKeys(s)) <= MaxScopes
  /\ \A k \in Keys : s.stamps[k] <= 8 * StampLimit
  /\ Cardinality(DOMAIN s.idem) <= MaxIdempotency

\* decode_state: the requests are queued for eviction in the order of the map.
Decoded(s, specs) ==
  [s EXCEPT !.readable = FitsEvidence(s) /\ FitsRecords(s, specs),
            !.order = InOrder(DOMAIN s.idem)]

\* compact_locked, and what a start would make of its snapshot; the scopes are read
\* and derived again.
Compacted(s) == Decoded(Encoded(s), scopes)

-----------------------------------------------------------------------------
(* The process *)

Init ==
  /\ phase = "down" /\ mem = Empty /\ disk = Empty
  /\ scopes = {} /\ pending = <<>> /\ calls = 0
  /\ sent = [id \in RequestIds |-> NoReport]
  /\ answered = [id \in RequestIds |-> 0] /\ forgotten = {}

Idle == phase = "up" /\ pending = <<>>

\* trim_history keeps the last entries.
TrimHistory(n) == Lesser(n, MaxHistory)

Moved(r, st) == [r EXCEPT !.st = st, !.hist = TrimHistory(@ + 1)]

\* The records that move the assignments DOMAIN to of s to the states `to'.
Transitions(s, to) ==
  LET ids == InOrder(DOMAIN to) IN
  [n \in 1..Len(ids) |->
     AssignmentStored(ids[n], Moved(s.asg[ids[n]], to[ids[n]]), NoRequest, NoReport)]

\* rebuild_indexes takes the ordinal from the snapshot and the live records.
Rebuilt(s) ==
  [s EXCEPT !.ordinal = CHOOSE n \in LiveIds(s) \cup {s.ordinal} :
                          \A m \in LiveIds(s) \cup {s.ordinal} : m <= n]

\* The scopes it takes from the live records.
LiveScopes(s) == {s.asg[i].key[1] : i \in LiveIds(s)}

\* Fabric::start of a store that can be read: the next epoch, then a suspension
\* for whatever is live and not suspended yet.
Start ==
  /\ phase = "down" /\ disk.readable /\ disk.epoch < MaxEpoch
  /\ phase' = "up"
  /\ mem' = [Rebuilt(disk) EXCEPT !.epoch = disk.epoch + 1]
  /\ pending' = <<EpochStarted(disk.epoch + 1)>> \o
                Transitions(disk, [i \in {j \in LiveIds(disk) : disk.asg[j].st # "Suspended"}
                                     |-> "Suspended"])
  /\ scopes' = LiveScopes(disk)
  /\ UNCHANGED <<disk, calls, sent, answered, forgotten>>

\* The process dies, or is shut down.
Crash ==
  /\ phase = "up" /\ disk.epoch < MaxEpoch
  /\ phase' = "down" /\ mem' = Empty /\ scopes' = {} /\ pending' = <<>>
  /\ UNCHANGED <<disk, calls, sent, answered, forgotten>>

\* The request whose answer a record carries.
Asker(rec) ==
  IF rec.type \in {"AssignmentStored", "EffectRecorded", "RequestRecorded"}
  THEN rec.request ELSE NoRequest

\* acquire_claims notes the scope of whatever is stored.
Touched(rec) ==
  IF rec.type \in {"AssignmentStored", "EffectRecorded"} THEN {rec.record.key[1]} ELSE {}

\* Impl::commit of the next record of the operation in progress, and the change
\* in memory that goes with it.  A full journal is compacted first.
Commit ==
  LET rec == Head(pending)
      m == Before(mem, rec)
      id == Asker(rec) IN
  /\ pending # <<>>
  /\ pending' = Tail(pending)
  /\ mem' = After(m, rec)
  /\ scopes' = scopes \cup Touched(rec)
  /\ \E d \in {disk, Compacted(m)} : disk' = Replayed(d, rec)
  /\ answered' = IF id = NoRequest THEN answered ELSE [answered EXCEPT ![id] = @ + 1]
  /\ forgotten' = forgotten \cup (DOMAIN mem.idem \ DOMAIN mem'.idem)
                            \cup (DOMAIN disk.idem \ DOMAIN disk'.idem)
  /\ UNCHANGED <<phase, calls, sent>>

\* Fabric::compact.
Compact ==
  /\ Idle
  /\ disk' = Compacted(mem)
  /\ forgotten' = forgotten \cup (DOMAIN disk.idem \ DOMAIN mem.idem)
  /\ UNCHANGED <<phase, mem, scopes, pending, calls, sent, answered>>

\* An operation has passed its checks and starts to commit.
Begin(records) ==
  /\ Idle /\ calls < MaxCalls
  /\ calls' = calls + 1
  /\ pending' = records
  /\ UNCHANGED <<phase, disk, scopes, answered, forgotten>>

-----------------------------------------------------------------------------
(* Functions and evidence *)

\* Mutant of RegistryOpen: one function too many.
RegistryOpenOffByOne(s) == Cardinality(DOMAIN s.functions) <= MaxFunctions

RegistryOpen(s) == Cardinality(DOMAIN s.functions) < MaxFunctions

\* register_function: a known function is registered anew with another descriptor,
\* however full the registry is; with the same one nothing happens.
RegisterFunction(f, d) ==
  /\ IF f \in DOMAIN mem.functions THEN mem.functions[f] # d ELSE RegistryOpen(mem)
  /\ Begin(<<FunctionRegistered(f, d)>>) /\ UNCHANGED <<mem, sent>>

\* Mutant of Newer: a repeated sequence number is taken again.
NewerOrSame(s, r) == r.seq >= s.sources[<<r.src, r.dom>>].last

\* accept_evidence: an older sequence number is a regression; the last one is
\* a duplicate, or a conflict when the digest differs.  Neither changes a thing.
Newer(s, r) == r.seq > s.sources[<<r.src, r.dom>>].last

\* The conditions of the ingest functions and grant_authority on generations.
Admissible(s, r) ==
  \/ /\ r.dom \in {"Topology", "Policy"}
     /\ r.gen > s.ev[<<r.dom, Whole>>].gen
  \/ /\ r.dom = "Capability"
     /\ \A k \in r.slots : LET old == s.ev[<<r.dom, k>>] IN
          old.gen < r.gen \/ (old.gen = r.gen /\ old.body = r.body)
  \/ /\ r.dom = "Observation"
     /\ r.gen = s.ev[<<"Topology", Whole>>].gen
  \/ /\ r.dom = "Authority"
     /\ r.gen = s.ev[<<"Policy", Whole>>].gen
     /\ \A k \in r.slots : s.ev[<<r.dom, k>>].gen = 0
     /\ ItemCount(s, "Authority") < MaxGrants

\* The moves a revalidation may find necessary.
Verdicts(s) ==
  {to \in UNION {[S -> {"Suspended", "Degraded"}] : S \in SUBSET LiveIds(s)} :
     \A i \in DOMAIN to : to[i] = "Degraded" => s.asg[i].st # "Degraded"}

\* The ingest functions end with a revalidation, grant_authority does not.
Ingest(r, to) ==
  /\ Newer(mem, r) /\ Admissible(mem, r)
  /\ r.dom = "Authority" => DOMAIN to = {}
  /\ Begin(<<EvidenceIngested(r, mem.epoch)>> \o Transitions(mem, to)) /\ UNCHANGED <<mem, sent>>

WithdrawAuthority(k, to) ==
  /\ mem.ev[<<"Authority", k>>].gen # 0 /\ ~mem.ev[<<"Authority", k>>].revoked
  /\ Begin(<<AuthorityWithdrawn(k)>> \o Transitions(mem, to)) /\ UNCHANGED <<mem, sent>>

Revalidate(to) ==
  /\ DOMAIN to # {}
  /\ Begin(Transitions(mem, to)) /\ UNCHANGED <<mem, sent>>

-----------------------------------------------------------------------------
(* Requests *)

\* find_idempotency comes first in every operation: a request that is
\* remembered is answered from memory, or fenced, and changes nothing.
Unanswered(id) == id \notin DOMAIN mem.idem

\* Request id with content op is acted on.
ActsOn(id, op, records) == Begin(records) /\ sent' = [sent EXCEPT ![id] = op]

\* The request authorize_locked rebuilds from the plan, whose digest is kept:
\* neither the replacement wish nor the hints are in it, nor that it was a plan.
Synthetic(op) == [op EXCEPT !.kind = "place", !.repl = FALSE, !.hints = FALSE]

\* Who may have to give way to a placement: one holder in its scope, or nobody.
\* Which, the exclusivity of the two decides.
GivingWay(s, op) ==
  {{}} \cup {{i} : i \in {j \in DOMAIN s.asg : /\ s.asg[j].st \in Holding
                                              /\ s.asg[j].key[1] = op.key[1]}}

NewAssignment(op) ==
  [st |-> "Dispatched", key |-> op.key, ep |-> mem.epoch, hist |-> TrimHistory(2), told |-> {}]

\* authorize_locked: the holder in `old' is superseded, the move is stamped, and the
\* new assignment is stored under the identity issued before.
Place(id, op, old) ==
  LET displaced == [i \in old |-> "Superseded"]
      stamp == IF old = {} THEN <<>> ELSE <<ReassignmentRecorded(op.key)>>
      i == mem.ordinal + 1 IN
  /\ Placement(op) /\ Unanswered(id)
  /\ old \in GivingWay(mem, op) /\ (old # {} => op.repl)
  /\ i <= MaxOrdinal
  /\ mem' = [mem EXCEPT !.ordinal = i]
  /\ ActsOn(id, op, Transitions(mem, displaced) \o stamp \o
                    <<AssignmentStored(i, NewAssignment(op), id, Synthetic(op))>>)

\* Mutant of RefusePlacement: the digest is that of the rebuilt request.
RefusePlacementRebuilt(id, op) ==
  /\ Placement(op) /\ Unanswered(id)
  /\ ActsOn(id, op, <<RequestRecorded(id, Synthetic(op))>>) /\ UNCHANGED mem

\* record_refusal, for a placement that is not eligible.
RefusePlacement(id, op) ==
  /\ Placement(op) /\ Unanswered(id)
  /\ ActsOn(id, op, <<RequestRecorded(id, op)>>) /\ UNCHANGED mem

Revoke(id, op) ==
  LET i == op.target IN
  /\ op.kind = "revoke" /\ Unanswered(id)
  /\ i \in DOMAIN mem.asg /\ mem.asg[i].st # "Revoked"
  /\ ActsOn(id, op, <<AssignmentStored(i, Moved(mem.asg[i], "Revoked"), id, op)>>)
  /\ UNCHANGED mem

Reauthorize(id, op) ==
  LET i == op.target IN
  /\ op.kind = "reauthorize" /\ Unanswered(id)
  /\ i \in DOMAIN mem.asg /\ mem.asg[i].st \in {"Suspended", "Degraded"}
  /\ \E st \in {"Dispatched", "Degraded"} :
       ActsOn(id, op,
              <<AssignmentStored(i, [Moved(mem.asg[i], st) EXCEPT !.ep = mem.epoch, !.told = {}],
                                 id, op)>>)
  /\ UNCHANGED mem

\* Where an effect report leads, and what becomes of the history: report_effect
\* trims before it adds the transition.
Effected(r, outcome) ==
  [r EXCEPT !.st = CASE outcome = "Applied" -> "AppliedVerified"
                     [] outcome = "Unknown" -> @
                     [] OTHER -> outcome,
            !.hist = TrimHistory(@) + 1,
            !.told = @ \cup {outcome}]

ReportEffect(id, op) ==
  LET i == op.target
      r == mem.asg[i] IN
  /\ op.kind = "effect" /\ Unanswered(id)
  /\ i \in DOMAIN mem.asg
  /\ r.ep = mem.epoch /\ op.outcome \notin r.told /\ r.st \notin Terminal
  /\ op.outcome = "Applied" => r.st \in {"Dispatched", "Degraded"}
  /\ ActsOn(id, op, <<EffectRecorded(i, Effected(r, op.outcome), id, op)>>)
  /\ UNCHANGED mem

Next ==
  \/ Start \/ Crash \/ Commit \/ Compact
  \/ \E f \in Functions, d \in Descriptors : RegisterFunction(f, d)
  \/ \E to \in Verdicts(mem) :
       \/ \E r \in Reports : Ingest(r, to)
       \/ \E k \in Slots : WithdrawAuthority(k, to)
       \/ Revalidate(to)
  \/ \E id \in RequestIds, op \in Operations :
       \/ \E old \in GivingWay(mem, op) : Place(id, op, old)
       \/ RefusePlacement(id, op)
       \/ Revoke(id, op) \/ Reauthorize(id, op) \/ ReportEffect(id, op)

Spec == Init /\ [][Next]_rvars
-----------------------------------------------------------------------------
(* Properties *)

\* The store the coordinator wrote is one it can open again: nothing it commits
\* or compacts is refused by decode_state and apply_record, as long as the
\* limits that only they look at are not exceeded: capabilities, observations,
\* assignments, scopes, sources, reassignment keys and their stamps, history.
StoreReopens == disk.readable

\* fabric_state.hpp, "recovered state is derived exactly the way live state is";
\* docs/proof-obligations.md:20, "Persistence round-trips correctness-critical
\* state without semantic loss": at every commit boundary a restart would find
\* the functions, the evidence with its sources and withdrawals, and the
\* assignments that memory has, and for every request it remembers the answer
\* that memory would give.
ReplayReproduces ==
  phase = "up" =>
    /\ disk.functions = mem.functions
    /\ \A k \in Domains \X Slots : k[1] # "Observation" => disk.ev[k] = mem.ev[k]
    /\ \A k \in DOMAIN mem.sources :
         /\ disk.sources[k].last = mem.sources[k].last
         /\ disk.sources[k].digest = mem.sources[k].digest
    /\ disk.asg = mem.asg
    /\ \A id \in DOMAIN mem.idem \cap DOMAIN disk.idem : disk.idem[id] = mem.idem[id]

\* detail::SourceState::is_current.
IsCurrent(s, k) ==
  LET source == s.sources[<<s.ev[k].src, k[1]>>] IN
  source.last # 0 /\ s.ev[k].seq > source.floor

\* "Evidence at or below this sequence predates the most recent coordinator
\* start and is therefore never current" (fabric_state.hpp): evidence is current
\* exactly when it was accepted since the last start, whichever sources sent
\* it, repeated it or went on with it, and whatever a snapshot saved of the
\* floors.  Module Fabric takes this for granted.
CurrentIffThisLifetime ==
  Idle => \A k \in Domains \X Slots :
    mem.ev[k].gen # 0 => (IsCurrent(mem, k) <=> mem.ev[k].ep = mem.epoch)

\* accept_evidence across restarts: what the disk knows of a source never goes
\* back, and an accepted sequence number never gets another payload.
NoSourceRegresses ==
  [][\A k \in DOMAIN disk.sources :
       /\ disk'.sources[k].last >= disk.sources[k].last
       /\ disk'.sources[k].last = disk.sources[k].last =>
            disk'.sources[k].digest = disk.sources[k].digest]_rvars

\* A request is executed, or refused, at most once, however often it is
\* delivered, before and after restarts, unless its answer was evicted.
AnsweredOnce == \A id \in RequestIds \ forgotten : answered[id] <= 1

\* docs/architecture.md, "Duplicate delivery": the answers remembered, and the
\* eviction order, which a snapshot does not save, list the same requests, each
\* once, so that an eviction finds something to evict.
OrderMatches(s) ==
  /\ {s.order[n] : n \in DOMAIN s.order} = DOMAIN s.idem
  /\ Len(s.order) = Cardinality(DOMAIN s.idem)

EvictionOrderSound == OrderMatches(mem) /\ OrderMatches(disk)

\* The request that is digested for an answer is the one that was sent: it is no
\* placement, or authorize_locked rebuilds it as it was.
Reproduced(op) == Placement(op) => Synthetic(op) = op

\* A repetition of request id is recognised in state s: the identifier is found,
\* and with it the digest of what was sent.
Recognised(s, id) == id \in DOMAIN s.idem /\ s.idem[id].fp = sent[id]

\* A client that is cut off by a crash, or that just repeats a request, finds it
\* executed or refused in memory and, after a restart, from disk: the identifier is
\* there, and unless the request is a placement that its plan does not reproduce,
\* with its digest, so that the identical request is answered and not fenced as a
\* DUPLICATE_DELIVERY.
RetryFindsAnswer ==
  \A id \in RequestIds \ forgotten : answered[id] > 0 =>
    \A s \in {disk} \cup (IF phase = "up" THEN {mem} ELSE {}) :
      /\ id \in DOMAIN s.idem
      /\ Reproduced(sent[id]) \/ s.idem[id].outcome = "Refused" => Recognised(s, id)

\* docs/architecture.md:100, "Duplicate delivery of an identical request returns the
\* identical result": whatever the request was.
DuplicateGetsSameResult ==
  phase = "up" =>
    \A id \in RequestIds \ forgotten : answered[id] > 0 => Recognised(mem, id)

\* A restart never gives a scope back the reassignments it has used.
NoStampLost ==
  phase = "up" => \A k \in Keys : disk.stamps[k] >= mem.stamps[k]
=============================================================================
