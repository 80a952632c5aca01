------------------------------ MODULE Journal ------------------------------
(***************************************************************************)
(* The store of src/src/journal.cpp: an append-only file of records next   *)
(* to a snapshot file, each replaced atomically by a compaction.  A record *)
(* is a sequence number and a payload; its bytes, length and checksum are  *)
(* abstracted to whether all of it is in the file.  The process may die    *)
(* between any two file operations and inside a write; a write may also    *)
(* fail and leave the process running.  Renames are durable in the order   *)
(* they are made.                                                          *)
(***************************************************************************)
EXTENDS Integers, Sequences

CONSTANTS
  Policy,        \* RecoveryPolicy
  CrashPoints,   \* where the process may die: values of pc
  WriteCanFail,  \* whether a write may fail in a running process
  MaxJournal,    \* bounds.max_journal_bytes, in records
  MaxSequence, MaxPayload \* bounds

ASSUME JournalAssumption ==
  /\ Policy \in {"Refuse", "TruncateTornTail", "TruncateDamagedTail"}
  /\ CrashPoints \subseteq {"open", "snapshot", "base"}
  /\ WriteCanFail \in BOOLEAN
  /\ {MaxJournal, MaxSequence, MaxPayload} \subseteq Nat

VARIABLES
  header,    \* the 64-byte header of the file: "none", "partial" or "whole"
  log,       \* what follows it
  snapshot,  \* the snapshot file
  pc,        \* "closed", "open", or inside compact: "snapshot", "base"
  handle,    \* impl.journal is valid
  last,      \* impl.last_sequence
  covered,   \* impl.snapshot_covered
  bytes,     \* impl.bytes, in records
  state,     \* the payloads the coordinator has in its state
  sent       \* number of payloads the coordinator has tried to append

disk == <<header, log, snapshot>>
memory == <<pc, handle, last, covered, bytes, state>>
jvars == <<disk, memory, sent>>

Payloads == 1..MaxPayload
Bookkeeping == 0    \* the payload of SnapshotBase and StoreSealed records
Item == [whole : BOOLEAN, seq : Nat, payload : Payloads \cup {Bookkeeping}]
Record(n, v) == [whole |-> TRUE, seq |-> n, payload |-> v]
Fragment == [whole |-> FALSE, seq |-> 0, payload |-> Bookkeeping]
NoSnapshot == [covered |-> 0, body |-> <<>>]

-----------------------------------------------------------------------------
(* Reading the file *)

\* scan_records gets over item j: it is complete and its sequence is larger.
SoundAt(l, j) == l[j].whole /\ (j > 1 => l[j].seq > l[j - 1].seq)

\* Number of items before the first one the scan stops at.
GoodLength(l) ==
  CHOOSE k \in 0..Len(l) : /\ \A j \in 1..k : SoundAt(l, j)
                           /\ k < Len(l) => ~SoundAt(l, k + 1)

Good(l) == SubSeq(l, 1, GoodLength(l))

\* How scan_records may classify the file.  A fragment at the end is torn.  A
\* fragment with more behind it announces a length that reaches past the end of
\* the file (torn) or into the next record (damaged).
Verdicts(l) ==
  LET k == GoodLength(l) IN
  IF k = Len(l) THEN {"clean"}
  ELSE IF l[k + 1].whole THEN {"damaged"}
  ELSE IF k + 1 = Len(l) THEN {"torn"}
  ELSE {"torn", "damaged"}

\* Whether open goes on.
Accepted(verdict) ==
  \/ verdict = "clean"
  \/ verdict = "torn" /\ Policy = "TruncateTornTail"
  \/ Policy = "TruncateDamagedTail"

\* Mutant of Visits: the records the snapshot covers are replayed too.
VisitsCovered(item, upto) == item.payload # Bookkeeping

\* replay calls the visitor for records above the snapshot; the coordinator's
\* visitor ignores StoreSealed.
Visits(item, upto) == item.payload # Bookkeeping /\ item.seq > upto

\* The payloads the visitor is called with, in the order of the file.
Replayed(l, upto) ==
  LET first[n \in 0..Len(l)] ==
        IF n = 0 THEN <<>>
        ELSE IF Visits(l[n], upto) THEN Append(first[n - 1], l[n].payload)
        ELSE first[n - 1]
  IN first[Len(l)]

\* What a recovery of the files as they are would yield.
Recovered == snapshot.body \o Replayed(Good(log), snapshot.covered)

-----------------------------------------------------------------------------
(* Operations *)

Init ==
  /\ header = "none" /\ log = <<>> /\ snapshot = NoSnapshot
  /\ pc = "closed" /\ handle = FALSE /\ last = 0 /\ covered = 0 /\ bytes = 0
  /\ state = <<>> /\ sent = 0

\* JournalStore::open of a missing or empty file writes the header and returns
\* before any snapshot is looked at.
Create ==
  /\ pc = "closed" /\ header = "none"
  /\ header' = "whole"
  /\ pc' = "open" /\ handle' = TRUE /\ last' = 0 /\ covered' = 0 /\ bytes' = 0
  /\ state' = <<>>
  /\ UNCHANGED <<log, snapshot, sent>>

\* The process dies while it writes the header; a partial header is refused by
\* every later open.
CreateInterrupted ==
  /\ pc = "closed" /\ header = "none"
  /\ header' \in {"partial", "whole"}
  /\ UNCHANGED <<log, snapshot, memory, sent>>

\* Mutant of LastSequence: appending resumes behind the number of records.
LastSequenceByCount(l) == Len(l)

\* Mutant of LastSequence: the number of the next record, less one too many.
LastSequenceOffByOne(l) == IF l = <<>> THEN -1 ELSE l[Len(l)].seq - 1

\* The sequence number open resumes from; the snapshot is not consulted.
LastSequence(l) == IF l = <<>> THEN 0 ELSE l[Len(l)].seq

\* JournalStore::open followed by Fabric::start's use of snapshot_payload and
\* replay.  The tail the scan did not get over is cut off, if that is allowed.
Open ==
  /\ pc = "closed" /\ header = "whole"
  /\ \E verdict \in Verdicts(log) : Accepted(verdict)
  /\ log' = Good(log)
  /\ pc' = "open" /\ handle' = TRUE
  /\ last' = LastSequence(Good(log)) /\ covered' = snapshot.covered
  /\ bytes' = Len(Good(log))
  /\ state' = Recovered
  /\ UNCHANGED <<header, snapshot, sent>>

\* JournalStore::append gets the record into the file.
Appended(v) ==
  /\ handle /\ last < MaxSequence
  /\ log' = Append(log, Record(last + 1, v))
  /\ last' = last + 1 /\ bytes' = bytes + 1

\* What may be in the file when the write of a record did not complete.
Interrupted(v) == {log, Append(log, Fragment), Append(log, Record(last + 1, v))}

\* Impl::commit, when the journal is not full: the payload takes effect in the
\* coordinator once it is durable.
Commit ==
  /\ pc = "open" /\ bytes <= MaxJournal /\ sent < MaxPayload
  /\ Appended(sent + 1)
  /\ state' = Append(state, sent + 1) /\ sent' = sent + 1
  /\ UNCHANGED <<header, snapshot, pc, handle, covered>>

\* The write or the flush fails: the coordinator gets an error, the counters are
\* not advanced, and what reached the file stays there.
CommitFails ==
  /\ WriteCanFail
  /\ pc = "open" /\ handle /\ last < MaxSequence /\ sent < MaxPayload
  /\ log' \in Interrupted(sent + 1) /\ sent' = sent + 1
  /\ UNCHANGED <<header, snapshot, memory>>

\* The process is gone, its memory with it.
Down ==
  /\ pc' = "closed" /\ handle' = FALSE /\ last' = 0 /\ covered' = 0 /\ bytes' = 0
  /\ state' = <<>>

CommitCrashes ==
  /\ "open" \in CrashPoints
  /\ pc = "open" /\ handle /\ last < MaxSequence /\ sent < MaxPayload
  /\ log' \in Interrupted(sent + 1) /\ sent' = sent + 1
  /\ Down
  /\ UNCHANGED <<header, snapshot>>

\* The process dies between two file operations.  An append through the handle
\* a failed compaction left closed is such a death too.
Crash ==
  /\ pc \in CrashPoints
  /\ Down
  /\ UNCHANGED <<disk, sent>>

\* Fabric::shutdown: seal and close.
Shutdown ==
  /\ pc = "open" /\ handle /\ last < MaxSequence
  /\ log' = Append(log, Record(last + 1, Bookkeeping))
  /\ Down
  /\ UNCHANGED <<header, snapshot, sent>>

\* compact, 1: the snapshot of the coordinator's state is installed atomically.
\* Until then only a temporary file exists, which open removes.  A compaction does
\* not look at the handle: after a failed one the next tries again.
InstallSnapshot ==
  /\ pc = "open" /\ covered <= last /\ last < MaxSequence
  /\ snapshot' = [covered |-> last, body |-> state]
  /\ pc' = "snapshot"
  /\ UNCHANGED <<header, log, handle, last, covered, bytes, state, sent>>

\* Mutant of Renumbered: a new journal counts from one again.
RenumberedFromOne == 0

\* The sequence number a new journal starts behind.
Renumbered == snapshot.covered

\* compact, 2: the journal is replaced by one with a header only, and reopened.
ReplaceJournal ==
  /\ pc = "snapshot"
  /\ log' = <<>> /\ bytes' = 0
  /\ last' = Renumbered /\ covered' = snapshot.covered
  /\ pc' = "base" /\ handle' = TRUE
  /\ UNCHANGED <<header, snapshot, state, sent>>

\* A file operation of that step fails: the journal handle is closed already,
\* the rename may have happened.
ReplaceFails ==
  /\ WriteCanFail /\ pc = "snapshot"
  /\ log' \in {log, <<>>}
  /\ pc' = "open" /\ handle' = FALSE
  /\ UNCHANGED <<header, snapshot, last, covered, bytes, state, sent>>

\* compact, 3: the first record of the new journal.
AppendBase ==
  /\ pc = "base"
  /\ Appended(Bookkeeping)
  /\ pc' = "open"
  /\ UNCHANGED <<header, snapshot, handle, covered, state, sent>>

AppendBaseFails ==
  /\ WriteCanFail /\ pc = "base"
  /\ log' \in Interrupted(Bookkeeping)
  /\ pc' = "open"
  /\ UNCHANGED <<header, snapshot, handle, last, covered, bytes, state, sent>>

AppendBaseCrashes ==
  /\ "base" \in CrashPoints /\ pc = "base"
  /\ log' \in Interrupted(Bookkeeping)
  /\ Down
  /\ UNCHANGED <<header, snapshot, sent>>

Next ==
  \/ Create \/ CreateInterrupted \/ Open
  \/ Commit \/ CommitFails \/ CommitCrashes \/ Crash \/ Shutdown
  \/ InstallSnapshot \/ ReplaceJournal \/ ReplaceFails
  \/ AppendBase \/ AppendBaseFails \/ AppendBaseCrashes

Spec == Init /\ [][Next]_jvars

\* A stopped coordinator is started again as long as the store lets it.
FairSpec == Spec /\ WF_jvars(Create) /\ WF_jvars(Open)

-----------------------------------------------------------------------------
(* Properties *)

\* Every variable stays within its type: what open reconstructs from the files
\* is a sequence number and a list of payloads, whatever died or failed before.
TypeOK ==
  /\ header \in {"none", "partial", "whole"}
  /\ log \in Seq(Item)
  /\ snapshot \in [covered : Nat, body : Seq(Payloads)]
  /\ pc \in {"closed", "open", "snapshot", "base"}
  /\ handle \in BOOLEAN /\ last \in Nat /\ covered \in Nat /\ bytes \in Nat
  /\ state \in Seq(Payloads) /\ sent \in 0..MaxPayload

\* docs/architecture.md, "Persistence": an append is in the file before it is
\* acknowledged, and neither a compaction, wherever it is interrupted, nor a
\* recovery changes what the files hold.
Promise == INSTANCE DurableLog WITH Values <- Payloads, serving <- pc # "closed",
                                    content <- Recovered
ImplementsDurableLog == Promise!Spec

\* What the coordinator acts on is what a recovery would yield: nothing it has
\* in its state can be lost by dying now.
StateIsDurable == pc # "closed" => state = Recovered

\* Dying processes alone never damage the file: an open finds it clean or finds
\* the fragment of one record at its end.
NoDamage == Verdicts(log) \subseteq {"clean", "torn"}

\* Under a policy that cuts torn tails the store comes back from every death,
\* but for one inside the write of the very first header.
Reopens == (pc = "closed" /\ header # "partial") ~> (pc = "open" \/ header = "partial")

\* Whatever dies or fails, a recovery applies a payload at most once and in the
\* order of the appends: a record a snapshot covers is not applied again.
AppliedOnceInOrder ==
  \A i, j \in 1..Len(Recovered) : i < j => Recovered[i] < Recovered[j]

\* docs/architecture.md, "Persistence": an append is complete before it is
\* acknowledged, so that what the coordinator acknowledged is in the files.
AcknowledgedSurvives ==
  pc # "closed" =>
    \A i \in 1..Len(state) : \E j \in 1..Len(Recovered) : Recovered[j] = state[i]
=============================================================================
