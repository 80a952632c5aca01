# Network Offload Fabric: a TLA+ verification project

The Network Offload Fabric decides which device runs which offloadable network
function, and under which authority. Its runtime is a coordinator (`nof::Fabric`)
that ingests evidence (topology, policy, capabilities, observations, grants),
places functions on devices, hands the enforcement plane a fencing token with
every placement, and keeps all of it in a journal. A network service (`nofd`) puts
the coordinator's operations behind a framed protocol. This directory models the
coordinator, its store, its recovery and the service, checks them with TLC and
proves the main facts with TLAPS.

Paths below are relative to the root of the repository.

## 1. The system

| component | state | operations | interacts with |
|---|---|---|---|
| coordinator, `src/fabric.cpp` | evidence, assignments, exclusivity indexes, committed demand, counters, epoch | lifecycle, evidence, placement, assignment operations | store (append before effect), clients and enforcement plane (calls) |
| assignment records, `src/assignment.cpp` | state, binding, token, effects | the state classes *holding*, *live*, *terminal* | coordinator |
| authority, `src/authority.cpp` | grants, use counts | `authority_admits` | coordinator |
| capability matching, `src/capability.cpp` | capability records | `match_capability` | coordinator |
| store, `src/journal.cpp`, `src/detail/file_io.cpp` | journal file, snapshot file, sequence numbers | open, append, replay, compact, seal, close | file system; coordinator |
| replay, `apply_record`, `decode_state` | none of its own | one case per record type | store, coordinator |
| evidence provenance, `accept_evidence` | last sequence, digest and restart floor per source and domain | accept, mark, floor | coordinator |
| idempotency cache | request id to fingerprint and response, bounded | find, record, evict | coordinator, store |
| ranking and explanation, `src/explanation.cpp` | none | order of candidates | `plan_locked` |
| service threads, `src/service.cpp`, `src/detail/net.cpp`, `tools/nofd.cpp` | connection queue, connection registry, socket handles, `stopping` | accept, queue, serve, close, stop | sockets, condition variables |
| service requests, `src/service.cpp` | decoder buffers, response cache and its order of eviction | decode, look up, execute, remember, reply | coordinator, clients |
| codecs, validation, exports, tools | none | bytes, bounds, text | all |

One mutex covers the coordinator, so a public operation is one atomic step for
every other caller. What makes the coordinator hard is not threads but time:

* calls arrive in any order and late. An effect report, a grant or a kept plan
  may belong to an earlier attempt, generation or process lifetime;
* an operation is several durable appends. A death or a failed append between
  them leaves a legal prefix behind;
* authority is judged by two pieces of code, placement (`evaluate_device`,
  `authorize_locked`) and revalidation (`assignment_validity`);
* indexes and counters are rebuilt from the records at a start, and only from
  some of them;
* every record is applied twice by different code: when it is written, and by
  `apply_record` when it is replayed; the bounds are checked in different places.

The service is hard because of its threads: four mutexes and two atomics, a registry
of handle numbers that the operating system gives out again, a stop that has to reach
threads in `select`, `recv` and two condition variables, and a response cache that is
looked up and filled in two critical sections.

What has to be true: holders are fenced by a token of this process lifetime; no
token is issued twice; an attempt that ended stays ended; nothing accepted
before a restart justifies authority; exclusive claims exclude each other; budgets
and books are right; holders are still valid; the store gives back exactly
what was acknowledged and a restart makes of it what memory had; a request is carried
out once and answered truly; and stop returns with every connection closed.
`PROJECT.json` lists the hazards line by line.

## 2. Modules

| module | role |
|---|---|
| `Fabric` | the coordinator: state, one action per operation, properties |
| `Fencing` | what the coordinator promises about tokens, with its own proofs |
| `FabricProofs` | type invariant, lemmas about the operators, `Fabric` implements `Fencing` |
| `FabricEvidence` | no evidence of an earlier lifetime behind a holder |
| `FabricSafety` | targets, claims, exclusivity, budgets, demand, and that placement and revalidation agree |
| `MCFabric` | instances of `Fabric` |
| `Journal` | the store: files, deaths, failing writes |
| `DurableLog` | what the store promises |
| `JournalProofs` | invariants of the store, `Journal` implements `DurableLog` |
| `MCJournal` | instances of `Journal` |
| `Recovery` | records, replay, snapshots, evidence sources, remembered requests |
| `RecoveryProofs` | memory and disk agree, record by record |
| `MCRecovery` | instances of `Recovery` |
| `Service` | threads, queue, registry and stop of the network service |
| `ServiceProofs` | who owns a handle, and what follows |
| `MCService` | instance of `Service` |
| `Requests` | frames, requests, responses and their cache |
| `RequestsProofs` | cache, effects and answers |
| `MCRequests` | instance of `Requests` |

How they fit: `Recovery` checks what `Fabric` takes for granted (a start reproduces the
state; evidence is current exactly in the lifetime that accepted it) and takes for
granted what `Journal` checks (records come back once and in order). `Requests` and
`Service` split the worker between them: what is said on a connection, and how a
connection gets to a worker and ends.

### Fabric

Variables and code:

* `phase`: not running, running but recovery not accepted, running (`running`,
  `recovery_accepted`);
* `epoch`: `state.epoch.counter`, also the mark of what was accepted when. Evidence
  carries the epoch in which it was accepted. `SourceState::is_current` (sequence
  above the restart floor) holds exactly of evidence of the current epoch,
  since a start raises every floor to the last accepted sequence;
* `ev`: topology (generation and the incarnation of each device, 0 = absent or
  decommissioned), policy (generation and one rule per class), one capability
  record per device and class, one observation per device, the grants, the
  descriptor each function is registered with (its required semantics and version);
* `asg`: `state.assignments`, a partial function of ordinals;
* `claims`: `exclusive_by_class`, `exclusive_by_scope`, `committed`;
* `moves`: reassignment stamps per scope and class;
* `nextOrd`, `nextFence`: the counters; `snap`: the ordinal a snapshot saved;
* `plans`: the `PlanResult`s clients hold outside the lock;
* `unjudged`: a history variable, the assignments nobody has placed, re-authorized or
  revalidated since their function was registered with another descriptor.

Actions and code: `Start`, `StartInterrupted`, `Stop`, `AcceptRecovery`, `Compact`;
`RegisterFunction`, `IngestTopology`, `IngestPolicy`, `IngestCapability`,
`IngestObservation`, `GrantAuthority`, `WithdrawAuthority`, `Revalidate`; `Plan`,
`Apply`, `ApplyPlan`, `Replace`, `Revoke`, `Reauthorize`, `ReportEffect` are the
public operations. Evidence operations contain the revalidation that the code
runs at their end. `Authorize` is `authorize_locked` with all its commits;
`AuthorizeInterrupted` and `AuthorizeFails` are its prefixes when the process dies
or an append fails; `ReauthorizeFails` likewise. `Expire` is time.

Abstractions:

* the five dimensions of demand and capacity are one number: the code treats
  them alike;
* a freshness window is a Boolean that time may turn off, never on;
* lease, attempt and token are issued together and compared together, so the
  token stands for the three;
* a client may name any device as preferred: any eligible device can be selected,
  whatever the ranking. Affinity labels and minimum generations only refuse more.
  Required semantics and versions are sets and numbers that `match_capability` (`Match`)
  and the ceiling of a grant (`Covers`) are held against;
* a function is identified with its class. It may be registered again with another
  descriptor (`RegisterFunction`), not under another class;
* a refused operation changes no modelled state; request identifiers are in
  `Recovery`;
* the stamps of a scope are counted and never lapse, as in `reassignment_count`. A
  stamp whose append failed stays in `moves` over a restart;
* a start always runs in a fresh process; calling `start` again on an object
  whose earlier `start` failed is not modelled;
* replay is taken to reproduce the state; `Recovery` is about that.

### Journal

A record is its sequence number, its payload, and whether all of it is in the
file. `open` is `Create`, `CreateInterrupted` and `Open`; `append` is `Commit`,
`CommitFails` and `CommitCrashes`, which leave nothing, a fragment or the whole
record behind; `compact` is `InstallSnapshot`, `ReplaceJournal`, `AppendBase` with
their failures. A compaction may be tried again after one whose replacement of the journal
failed, and then opens it again. `seal` and `close` are `Shutdown`; `Crash` is a death between two
file operations. `state` is what the coordinator has in memory, `Recovered` what a
start would make of the files. A fragment with more records behind it announces a
length that runs past the end of the file or into the next record, so the scan may
call it torn or damaged: both are tried.

### Recovery

`mem` is `FabricState` without its derived indexes; `disk` is what decoding the
snapshot and replaying the journal would give now. Replay is a left fold over the
records, so `Commit` applies one record to each: `Before` and `After` are the live
code around the commit, `Replayed` is `apply_record`, and either may follow a
compaction, whose snapshot is `Decoded(Encoded(mem))`. `pending` holds what the
operation in progress has yet to write. No other operation can start in between (the
mutex), but the process can die before each commit. `Start` is `Fabric::start` with
its epoch record and the suspension of what is live; the public operations queue
their records: `RegisterFunction`, `Ingest` (the four ingest functions and
`grant_authority`), `WithdrawAuthority`, `Revalidate`, `Place` (`apply`, `apply_plan`
and `replace`), `RefusePlacement`, `Revoke`, `Reauthorize`, `ReportEffect`.

Which assignments a revalidation moves, and whether a placement is eligible, is left
open: `Fabric` decides that. The digest of a report or request is its content, the
history of an assignment is its length, and `readable` says that no decoder has
refused a count: `FitsEvidence` and `FitsRecords` are all the counts `decode_state` looks at.
A function may be registered again with another descriptor. Of a placement request the
model keeps what decides whether its repetition is recognised: the wish to replace, and
`hints` for whatever else its plan does not carry on. `sent`, `answered` and `forgotten` are
history variables.

### Service

One record per thread: `acceptor`, `worker`, `stopper` (the main thread of `nofd`, which
waits for `g_stop_requested` and then is in `Server::stop`). A step is one critical
section or one system call, in the order of the code: a connection is accepted,
registered, submitted; taken, looked up by handle, served, closed, erased. `handles` is
the table of the operating system, which gives out the lowest free number, so that a
number closed by a worker can be another connection's before the worker erases its
registry entry. The queue is read without its lock in one place (`Top`), where both
outcomes are possible. Waiting on a condition variable is a state of its own that only
a notification, or nothing at all (`SpuriousWakeup`, `MainWakes`), ends. The `Socket`
that stop makes of a handle closes it in its destructor, and so does the model.

### Requests

A worker serves one connection after another. A frame is two pieces that arrive
together or apart, with whatever is pipelined behind; a piece of garbage makes the
decoder refuse. `Lookup`, `Remember` and the execution between them are separate steps,
so two workers interleave there. The opcodes come in four groups by what
`handle_request` does after the call of the coordinator (`Opcodes`); the verdict of the
coordinator is open. `ExecuteFails` is a refusal that changed nothing, `ExecuteThenFails` an
error after the effect: evidence that is committed before its revalidation fails, a
replacement whose later append fails, a response that cannot be encoded. Nothing is cached
then, and a repetition reaches the coordinator again. `carried` and `excused` are history variables.

## 3. Runs

| run | instance | shows |
|---|---|---|
| `restart` | one device, class and scope, two grants, three lifetimes, failing appends | types, fenced holders, unique tokens, no prior evidence, no attempt revives |
| `evidence` | two incarnations, two capability generations, two lifetimes, lapsing windows, late effect reports | refinement of `Fencing`; token, target and capability binding of holders |
| `placement` | two classes (per-class and whole-scope claims), two scopes, a budget of two uses, three assignments, one kept plan, failing appends | exclusivity, budget, indexes, books |
| `agreement` | a network device and a host stack, a class that depends on the other, a function registered again with three descriptors, one of which the device does not support and one the ceiling of the grant excludes | what placement lets through is valid for revalidation, and what was looked at since the last registration stays so |
| `journal` | four payloads, six sequence numbers, deaths | durable log, recovery, no damage |
| `journal_failures` | the same with failing writes and deaths everywhere, tails cut | nothing applied twice or out of order |
| `recovery` | three lifetimes, three operations, seven reports of two sources, functions registered again, placements, replacements, revocations, re-authorizations and reports under three request ids with room for two | a restart reproduces the state, sources never regress, currency, the store reopens; requests are answered once, remembered with the digest that recognises a repetition, evicted in order; no stamp lost |
| `service` | two workers, three connections, a bound of two and a queue of one | registry, ownership and bound of connections; stop returns and leaves nothing open; no lost wake-up |
| `requests` | two workers, three frames, five requests on three ids, a cache of one | effects once, true answers, in order, none left lying; the cache evicts soundly |

Bounds: two generations, two incarnations and two or three lifetimes are enough for
*old*, *current* and *older still*; two assignments for every pairwise property, and
a third in `placement` so that a replacement can happen beside a holder; the journal
bounds allow two compactions with appends before, between and after them. `MaxFence`
is the number of attempts per lifetime. In `recovery` the
bounds of the code are 1 or 2, so that a few operations meet the limits they count (a full
registry, a full store of grants, an eviction in an order that a compaction has changed), and
those they do not count cannot be exceeded; `history` is the run in which one is. Three
operations are what five minutes allow over three lifetimes; that an evicted request is
carried out again takes a fourth, and is left to the theorems of section 5. Three
connections are one more than the bound, and enough for a handle to be used again
while its old entry is there. Three frames are an answer, its repetition and an
eviction between or after them. Deadlock is checked in the coordinator and recovery
runs. It is not in the journal runs, because the bound on sequence numbers, or a
partial header, really stops the store; nor in the service runs, where a stopped server,
or one whose clients are silent, has nothing left to do.

`placement` and `agreement` leave out re-authorization, and `agreement` effect
reports: with them the properties fail, as the next section shows. `agreement` has one
lifetime, because one of its rules does not require a capability (the next section again).

Fairness. `Reopens`: `FairSpec` assumes weak fairness of `Create` and `Open`, that is, an
operator or a supervisor starts a stopped `nofd` again; deaths may go on for ever.
`StopReturns` and `NoLostWakeup`: weak fairness of the steps of the acceptor, of each
worker and of the main thread, that is, the scheduler runs every thread that can go
on. Clients owe nothing: they may stay silent in the middle of a connection, and a
`recv` then ends only because stop shuts the handle. `ArrivedIsAnswered`: weak fairness of
each worker. Mutexes are held for one step and are no obstacle to it.

## 4. Where the code does something else

Three runs are expected to find a violation; the findings in `PROJECT.json` quote the
documented claim.

| run | property | what happens |
|---|---|---|
| `resume` | `ExclusiveAuthority` | `reauthorize` does not look at exclusivity: after a suspension and a new placement two holders share a scope and class |
| `journal_base` | `StateIsDurable` | a death between the new journal and its base record restarts the sequence numbers below the snapshot; later records are skipped by replay |
| `history` | `StoreReopens` | `report_effect` trims a full history before it adds an entry; the record it writes is refused by the decoder, and the store never opens again |

The following definitions are in the modules and are false as well, some of them only
under the constants given. To see TLC's trace, put the definition into the configuration
named in the place of its properties, with the changes given.

| definition | configuration | what happens |
|---|---|---|
| `CapacityAccounting` (`Fabric`) | `MCFabricRestart.cfg`, `CommitCanFail = FALSE`, two scopes, `Outcomes = {"Failed"}`, `MaxEpoch = 1` | `release_claims` gives back demand a suspended record no longer holds, although `src/export.cpp:719` calls that a violated invariant |
| `NoHolderOutlivesItsGrant` (`Fabric`) | the same with one scope, `Policies <- ObsPolicies`, `Livenesses = {"Alive", "Degraded"}`, `Outcomes = {"Applied"}` | a degraded device hides a withdrawn grant from revalidation (`assignment_validity` returns the target's verdict first), and an Applied report restores authority; `docs/architecture.md:103` says that revalidation suspends |
| `NoPriorEvidence` (`Fabric`) | `MCFabricRestart.cfg`, `MaxPlans = 1`, `MaxEpoch = 2` | a plan kept over a restart is applied on topology and policy below the restart floor: `authorize_locked` (`src/fabric.cpp:3371`) compares generations, which survive a restart, and not their currency; `include/nof/fabric.hpp:118` says that `apply_plan` re-validates a plan "against current evidence" |
| `StoreReopens` (`Recovery`) | `MCRecovery.cfg`, `Reports <- TwoCapabilities`, `Slots = {whole, dev, dev2}` | `ingest_capabilities` bounds a report (`src/capability.cpp:68`) and not the state: two reports together exceed what `decode_state` (`src/fabric.cpp:699`) accepts, and a compaction writes a snapshot that never opens again; `docs/proof-obligations.md:20` |
| `DuplicateGetsSameResult` (`Recovery`) | `MCRecovery.cfg` | the fingerprint kept with a placement is that of a request rebuilt from the plan (`src/fabric.cpp:3574`): the identical repetition of a replacement is refused as `DUPLICATE_DELIVERY` (`3628`), although `docs/architecture.md:100` says that it "returns the identical result" |
| `AcknowledgedSurvives` (`Journal`) | `MCJournalFailures.cfg`, `CrashPoints = {"open", "snapshot"}` | a failed append leaves a fragment in front of records acknowledged later; a recovery cuts them off |
| `RegistryExact` (`Service`) | `MCService.cfg` | a worker closes its socket, the number is used again, and the next worker takes the old entry for its own: an entry stays for ever and `max_connections` has shrunk, although `docs/protocol.md` speaks of connections beyond the bound |
| `ShutdownStops` (`Service`) | `MCService.cfg`, as a property | `request_stop` (`tools/nofd.cpp:29`) notifies without the mutex. If the main thread has looked at the flag and does not wait yet, it sleeps on: the server accepts nothing any more and never stops, until a second signal; `include/nof/service.hpp:107` says the hook lets a process tear down "without polling" |
| `DuplicateReplays` (`Requests`) | `MCRequests.cfg` | two workers look up the same request id before either has an answer, and the second carries it out when the response of the first is in the cache; `docs/protocol.md:47` says that a duplicate "replays the identical response instead of taking effect twice" |

Further disagreements met while reading:

* the ordinal of a terminal assignment is issued again after a restart if no snapshot
  saved it (`rebuild_indexes`, `src/fabric.cpp:929`), and its record is overwritten;
  `NoAttemptRevives` is what remains true;
* `scope_has_exclusive_conflict` returns early for the empty scope identity
  (`src/fabric.cpp:1088`), so exclusivity is not enforced there;
* `evaluate_device` lets a host stack pass on `allow_host_fallback` alone,
  `assignment_target_validity` also asks `allowed_kinds` (`src/fabric.cpp:1164` and
  `2052`); `agreement` therefore lists the host stack among the kinds;
* `evaluate_device` asks whether a capability is current only under `require_capability`
  (`src/fabric.cpp:1221`), binds a supported one all the same (`1232`), and
  `assignment_target_validity` asks it of every bound capability (`2066`): after a restart a
  placement under a rule without `require_capability` binds to old evidence, and the next
  revalidation suspends it. `agreement` therefore has one lifetime; with `MaxEpoch = 2` TLC
  finds the case;
* `register_function` overwrites a registered descriptor and looks at no assignment
  (`src/fabric.cpp:2870`). A holder whose function now needs more than its device can do, or
  more than the ceiling of its grant, keeps its authority until the next revalidation.
  `docs/architecture.md:103` speaks of changes of evidence, so no document is contradicted;
  `HoldersValid` leaves such holders out (`unjudged`) and covers them again from the next
  revalidation or placement on. A plan made before the registration is still applied with
  the requirement it was made with;
* `decode_state` refuses more than `max_capability_records`, `max_observations`,
  `max_assignments`, `max_scopes` (of scopes and again of reassignment keys) and `max_sources`
  entries, and more stamps and history than their bounds. No operation counts any of
  these in the state (assignments are only refused by the number of live ones). `history` and
  the table above show two; `recovery` stays below all of them;
* a death inside the write of the very first header leaves a journal no later open accepts
  (`src/journal.cpp`, `open`): an operator has to delete the file. `Reopens` excepts it;
* the order in which requests are evicted is not in a snapshot; after a restart it is
  that of the identifiers;
* what `DuplicateGetsSameResult` shows of a replacement is also true of a request with preferences,
  dependencies or minimum generations (`hints`, `Synthetic` in `Recovery`), and of
  `apply_plan`, which compares with the digest of the plan (`src/fabric.cpp:3720`).
  `RetryFindsAnswer` claims recognition for all other requests and for every refusal;
* `note_reassignment` stamps memory before it commits: when that commit compacts, the
  stamp is in the snapshot and in the journal and counts twice after a restart. That is
  why `NoStampLost` is an inequality. `reassignment_count` looks at no window, although
  `docs/validation.md:79` says the budget is per time window;
* what `DuplicateReplays` shows makes a replacement without an operation id take effect twice;
  `EffectOnce` excuses an id that two workers hold at once, and one whose execution ended in
  an error after its effect. Ids may stand in `cache_order` twice, so that an eviction can
  hit the newest answer; evictions are counted as `requests_refused += 0`;
* a worker that served a shutdown leaves its registry entry behind; stop closes handles
  that workers own, and each of them closes the number again.

## 5. What is proved

Every invariant and every action property of the passing runs is a theorem, with the
exceptions at the end of this section. The theorems hold for every value of the constants
that satisfies the module's assumption: `ConstantsAssumption` (finite sets of devices,
classes and grants, well-typed inputs), `JournalAssumption`, `RecoveryAssumption`
(request ids are positive, a topology or policy is one item, a grant comes alone), `ServiceAssumption` (at least
as many handles as connections), `RequestsAssumption` (a cache of at least one entry).
Where a theorem has a hypothesis of its own, the code does not keep the property without it;
section 4 says what happens then.

### Coordinator: fencing and evidence (`FabricProofs`, `FabricEvidence`, `Fencing`)

* `TypeCorrect`: `Spec => []TypeOK`.
* `FabricImplementsFencing`: `Spec => ImplementsFencing`. Each step of the coordinator
  does one of three things to the records: every record is *carried* (same token, a
  terminal one stays terminal, authority regained only under a token of this
  lifetime), one identifier gets a new token, or a start strips the records. These
  are the steps of `Fencing`. The type invariant is the only invariant needed.
* `FencingSafe`, `FencingMonotone`: about the abstract specification. Its inductive
  invariant adds to the two claims (unique tokens, holders of this lifetime) that no
  token comes from the future, without which a new token could equal an old one.
* `FabricHoldersFenced`, `FabricFencesUnique`, `FabricNoAttemptRevives`: the same facts
  about the coordinator, through the refinement.
* `FabricNoPriorEvidence`, under `MaxPlans = 0` (no plan is kept outside the lock;
  section 4 shows that the assumption is needed). `reauthorize` never asks whether its
  grant is current. The invariant `GrantsBehind` says why that is safe: a grant is
  bound to the policy generation it was made under, a policy accepted after a restart
  has a larger generation than any earlier one, and `reauthorize` asks for a current
  policy and for a grant of its generation. `AttemptsJustified` strengthens the claim
  from holders to all attempts of this lifetime, because an effect report may give a
  degraded one authority at any time.

### Coordinator: targets, claims, budgets, agreement (`FabricSafety`)

| theorem | hypotheses | inductive invariant |
|---|---|---|
| `FabricTargetPresent`, `FabricCapabilityBound` | no append fails | `TargetsBound`: the evidence a record is bound to is the evidence in force, of every record that holds authority *or may regain it by a report* |
| `FabricIndexSound` | none | `ClaimsInv`: an index names only a record that holds the claim. Index and record change in the same critical section, but authorization claims before its last commit and a death or a failing append leaves it in between |
| `FabricExclusiveAuthority` | `NoResume`, `NoRegain`, no scope has the empty identity | `ExclusionInv`: besides soundness, that the indexes are complete (every exclusive holder is in its index). Soundness alone cannot refuse a second claimant |
| `FabricUseBudget` | `NoRegain` | `PlansBudgeted`: a plan names a grant only if the policy it was made under asks for one, so that a plan applied late counts uses exactly where authorization would |
| `FabricNoPhantomDemand` | none | `ChargedInv`: a release gives back at least the demand the record stands for, so a device is never charged for more than its holders ask |
| `FabricHoldersValid` | `NoResume`, `NoRegain`, no append fails, `MaxPlans = 0`, `Consistent` | `StandingInv`: all that `assignment_validity` asks of a holder except freshness, which time takes away, by the descriptor in force now, of every holder that is not `unjudged`; `Dated` and `RulesKnown` for the evidence it is asked of |

* `NoResume`: no grant covers Reauthorize. `reauthorize` does not look at exclusivity (run
  `resume`), and its grant need not be the one the placement was made under.
* `NoRegain`: no observation says Degraded, or no report says Applied. Together they let
  `report_effect` give authority back to a record that was counted neither against a budget
  nor against validity in between (`NoHolderOutlivesItsGrant` in section 4). `Calm` carries
  the hypothesis: where nothing is observed to be degraded no record is.
* no scope has the empty identity: `scope_has_exclusive_conflict` does not look at it.
* no append fails (`~CommitCanFail`): the suspensions of a revalidation are separate commits,
  and the operation ends at the first that fails.
* `unjudged` is an exception inside `HoldersValid` and no hypothesis: functions may be
  registered again at any time, and the theorem says when a holder is covered again.
* `Consistent`: the two disagreements between `evaluate_device` and
  `assignment_target_validity` in section 4 do not arise.

The demand of a device and the uses of a grant are a sum and a number over all
assignments. What they need (taking out a summand, comparing two families, a sum over a
larger set) is proved by a least counterexample on the number of elements:
`NatLessThanWellFounded` and `WFMin` of the library take a set and no operator, so the
provers can use them.

### Store (`JournalProofs`)

`JournalInv` says that the payloads of the snapshot and of the records a recovery would
visit rise, that none was never sent, and that a running process holds the number its next
record must exceed, also after a failed compaction has closed its handle. It gives `JournalTypeOK` and
`JournalAppliedOnceInOrder` with failing writes, deaths anywhere and every policy.
`JournalNoDamage` needs that no write fails in a running process. Under `Quiet` (no failing
write, and no death between the new journal and its base record, run `journal_base`)
`QuietInv` adds that the files yield what is in memory, which is `JournalStateIsDurable`, and
makes every step one of `DurableLog` or a stutter: `JournalImplementsDurableLog`.

### Records, replay and answers (`RecoveryProofs`)

`RecoveryInv` relates memory, disk and the records an operation has yet to write. The two
states are never simply equal (floors, observations, the ordinal, the order of eviction and
stamps differ); `Alike` says in what they agree, and each of them is sound by itself: the
order lists the remembered requests, no evidence is ahead of its source, no floor above it.
What is pending fits memory: `Fits` keeps what an operation has checked, at its beginning,
of the sequence number, the grant or the epoch it is going to commit. A commit is then one
lemma for each type of record about two states that are alike, so that it does not matter
whether a compaction comes first. From it: `RecoveryReplayReproduces`,
`RecoveryCurrentIffThisLifetime`, `RecoveryAnsweredOnce`, `RecoveryEvictionOrderSound`,
`RecoveryNoStampLost`, `RecoveryRetryFindsAnswer` and the action property
`RecoveryNoSourceRegresses`. `RetryFindsAnswer` needs besides that an answer in memory, on
disk or pending carries the digest of what was sent last under its id, or of its `Synthetic`
form where a placement was made.

`RecoveryStoreReopens` needs `Roomy`, one conjunct for each count `decode_state` looks at and
no operation does: the reports can fill no more slots than there is room for capabilities and
observations; the keys of the placements are no more than `max_scopes`, the ordinals no
more than `max_assignments`, the reporting sources no more than `max_sources`; stamps and,
if effects are reported, histories cannot grow to their bounds. Section 4
shows what happens without the conjuncts for capabilities and for histories. `StoreInv` then says how large each of these can have
become: numbers are at most the ordinal, a source is one that reports, an item fills a slot
that some report covers, a scope is that of a key, a history grows by one with every
operation and every start, a stamp counts twice if its commit compacts. Functions and grants,
which the operations count, need no hypothesis; `Admitted` carries their check from the
beginning of the operation to its first commit.

### Network service (`ServiceProofs`, `RequestsProofs`)

* `ServiceInv`: in which of its states a thread owns its handle, that an open handle has
  exactly one owner, and that the handle of a queue entry or a worker is in the registry
  under an id that no worker behind its close is about to erase (`SafeEntry`). The last part
  is what the reuse of numbers puts at risk: an entry of the same number may be another
  connection's, and a worker may erase that one instead of its own. From it: `ServiceTypeOK`,
  `ServiceOpenIsRegistered`, `ServiceConnectionBound`, `ServiceOneOwner`,
  `ServiceStoppedClean`, for any number of workers, connections and handles.
* `RequestsInv`: what is cached, or about to be, has been carried out; an effect under an id
  that is not excused is in the cache or with the one worker that is about to put it there,
  so that whoever looks the id up and finds nothing is the first; and what a worker works on
  and has not read yet is together what it owes its connection, in order. From it: `RequestsEffectOnce`,
  `RequestsAnswerIsTrue`, `RequestsEvictionFindsEntry`, `RequestsAnsweredInOrder`.

### Only model-checked

Liveness under fairness (`Reopens`, `StopReturns`, `NoLostWakeup`, `ArrivedIsAnswered`), which
the prover does not do, and what section 4 shows to be violated.
The induction over data that the proofs need (sums, sorted lists, the fold behind a
recovery) is done with recursive functions and least counterexamples. Theorems of the
library that take an operator are not used.

## 6. Mutants

Every property of a passing run has a mutant in the module it is about, an operator
that changes one definition the way a slip in the code would (a dropped comparison of
epochs, a budget off by one, a release left out, replay of covered records). Under
the mutant the property fails in the same run.

## 7. Not modelled, and the plan

Not modelled:

* byte layout of the codecs, SHA-256, CRC (data; tests and fuzzers cover them);
* validation of one topology, policy, capability or observation report against bounds:
  it passes or refuses and touches no state;
* the ranking of candidates and explanations: any eligible device may be selected in
  `Fabric`, which covers every ranking;
* exports, statistics, `nofctl`, the synthetic scenarios (formatting, counters, data);
* `Client::receive` and `Client::call`, which wait for one answer on one connection;
* lost or reordered renames after a power failure (the store model takes renames to be
  durable in order), and descriptors other than those of connections;
* in `Recovery`: the content of scope specifications, bounds on encoded sizes, failing
  appends (those are in `Fabric`, `Journal` and `Requests`). A stamp whose append fails is
  therefore not compared with the disk;
* in `Service`: failing `accept` and `select` calls, after which the loop goes round again;
  the check of `stopping` and the `accept` behind it are one step, and so are the receipt,
  execution and answer of a request and the three statements that serve a shutdown. What
  follows them (registration, submission, close, erasure) is separate again, so that a
  stop can still come before it;
* `SIGPIPE`: `send_bytes` (`src/detail/net.cpp:144`) passes no flags and `nofd` does not
  ignore the signal, so that on POSIX an answer to a connection that was shut down may end the
  process. For the coordinator this is a death, which `Fabric`, `Journal` and `Recovery` allow
  at any moment; `Service` is about a process that lives;
* what the coordinator does with a repetition after an error that followed the effect: it is
  decided by the coordinator's own operation ids, which `Recovery` models for requests that
  were answered.

Left to do: nothing the runs check as an invariant or action property is without a theorem.
The hypotheses of section 5 are what remains between the theorems and the code; each of them
names a place where the code would have to change before the theorem could do without.
