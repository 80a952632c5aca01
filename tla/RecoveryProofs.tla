--------------------------- MODULE RecoveryProofs ---------------------------
(***************************************************************************)
(* What a restart reconstructs is what memory had, for every set of        *)
(* functions, sources, reports, requests and operations and every bound.   *)
(* The invariant is about three things at once: each of the two states is  *)
(* sound by itself (the order of eviction lists the remembered requests,   *)
(* evidence is not ahead of its source), the state on disk is like the one *)
(* in memory, and the records still to be committed fit the state in       *)
(* memory.  A commit is then one lemma per type of record about two states *)
(* that are alike, whether or not the journal is compacted before it.      *)
(* The last section adds to it what keeps the store readable.              *)
(***************************************************************************)
EXTENDS Recovery, TLAPS, FunctionTheorems, FiniteSetTheorems, WellFoundedInduction,
        SequenceTheorems

-----------------------------------------------------------------------------
(* Sets of numbers in increasing order *)

\* A nonempty set of naturals has a least element.
LEMMA LeastNat ==
  ASSUME NEW S, S \subseteq Nat, S # {}
  PROVE  \E n \in S : \A m \in S : n <= m
<1>1. PICK n \in S : \A m \in S : <<m, n>> \notin OpToRel(<, Nat)
  BY NatLessThanWellFounded, WFMin, Zenon
<1>2. ASSUME NEW m \in S
      PROVE  n <= m
  <2>1. <<m, n>> \notin {p \in Nat \X Nat : p[1] < p[2]}
    BY <1>1 DEF OpToRel
  <2> QED BY <2>1
<1> QED BY <1>2

Increasing(q, n) == \A i, j \in 1..n : i < j => q[i] < q[j]

Sortable(S) == \E q \in [1..Cardinality(S) -> S] : Increasing(q, Cardinality(S))

\* The least element goes in front of the others.
LEMMA SortStep ==
  ASSUME NEW S, S \subseteq Nat, IsFiniteSet(S), NEW m \in S, \A k \in S : m <= k,
         Sortable(S \ {m})
  PROVE  Sortable(S)
<1> DEFINE n == Cardinality(S)
           T == S \ {m}
<1>1. n \in Nat /\ n # 0 /\ Cardinality(T) = n - 1
  BY FS_CardinalityType, FS_RemoveElement, FS_EmptySet
<1>2. PICK p \in [1..(n - 1) -> T] : Increasing(p, n - 1)
  BY <1>1 DEF Sortable
<1> DEFINE q == [i \in 1..n |-> IF i = 1 THEN m ELSE p[i - 1]]
<1> HIDE DEF n
<1>3. ASSUME NEW i \in 1..n, i # 1
      PROVE  q[i] = p[i - 1] /\ i - 1 \in 1..(n - 1) /\ p[i - 1] \in T
  BY <1>1, <1>2, <1>3
<1>4. q \in [1..n -> S]
  BY <1>3
<1>5. ASSUME NEW i \in 1..n, NEW j \in 1..n, i < j
      PROVE  q[i] < q[j]
  <2>1. j # 1 /\ q[j] = p[j - 1] /\ j - 1 \in 1..(n - 1) /\ p[j - 1] \in T
    BY <1>1, <1>3, <1>5
  <2>2. CASE i = 1
    <3>1. q[i] = m /\ m \in Nat /\ p[j - 1] \in Nat /\ m <= p[j - 1] /\ m # p[j - 1]
      BY <2>1, <2>2
    <3> QED BY <2>1, <3>1
  <2>3. CASE i # 1
    <3>1. q[i] = p[i - 1] /\ i - 1 \in 1..(n - 1) /\ i - 1 < j - 1
      BY <1>1, <1>3, <1>5, <2>3
    <3> QED BY <1>2, <2>1, <3>1 DEF Increasing
  <2> QED BY <2>2, <2>3
<1> HIDE DEF q
<1>6. Increasing(q, n)
  BY <1>5 DEF Increasing
<1> QED BY <1>4, <1>6 DEF Sortable, n

\* Every finite set of naturals can be listed in increasing order.
LEMMA SortFinite ==
  ASSUME NEW S, S \subseteq Nat, IsFiniteSet(S)
  PROVE  Sortable(S)
<1> DEFINE Bad == {n \in Nat : \E T \in SUBSET Nat : /\ IsFiniteSet(T) /\ Cardinality(T) = n
                                                      /\ ~Sortable(T)}
<1> SUFFICES ASSUME Bad # {} PROVE FALSE
  <2>1. Cardinality(S) \in Nat
    BY FS_CardinalityType
  <2> QED BY <2>1
<1>1. PICK n \in Bad : \A k \in Bad : n <= k
  <2>1. Bad \subseteq Nat
    OBVIOUS
  <2> HIDE DEF Bad
  <2> QED BY <2>1, LeastNat
<1>2. PICK T \in SUBSET Nat : IsFiniteSet(T) /\ Cardinality(T) = n /\ ~Sortable(T)
  BY <1>1
<1>3. T # {}
  <2> SUFFICES ASSUME T = {} PROVE Sortable(T)
    BY <1>2
  <2>1. Cardinality(T) = 0
    BY FS_EmptySet
  <2>2. 1..0 = {}
    OBVIOUS
  <2>3. [i \in 1..0 |-> 0] \in [1..0 -> T] /\ Increasing([i \in 1..0 |-> 0], 0)
    BY <2>2 DEF Increasing
  <2> QED BY <2>1, <2>3 DEF Sortable
<1>4. PICK m \in T : \A k \in T : m <= k
  BY <1>3, LeastNat
<1>5. IsFiniteSet(T \ {m}) /\ Cardinality(T \ {m}) = n - 1 /\ n \in Nat
  BY <1>1, <1>2, FS_RemoveElement
<1>6. n - 1 \in Nat
  BY <1>2, <1>5, FS_CardinalityType
<1>7. Sortable(T \ {m})
  <2>1. n - 1 \notin Bad
    BY <1>1, <1>6
  <2> QED BY <1>2, <1>5, <1>6, <2>1
<1> QED BY <1>2, <1>4, <1>7, SortStep

\* A list of the members of D, each once.
Lists(q, D) ==
  /\ q \in Seq(D)
  /\ \A i, j \in 1..Len(q) : q[i] = q[j] => i = j
  /\ \A x \in D : \E i \in 1..Len(q) : q[i] = x

\* InOrder lists a finite set of numbers.
LEMMA InOrderLists ==
  ASSUME NEW S, S \subseteq Nat, IsFiniteSet(S)
  PROVE  Lists(InOrder(S), S) /\ Len(InOrder(S)) = Cardinality(S)
<1> DEFINE n == Cardinality(S)
           q == InOrder(S)
<1>1. n \in Nat
  BY FS_CardinalityType
<1>2. q \in [1..n -> S] /\ Increasing(q, n)
  BY SortFinite DEF Sortable, Increasing, InOrder
<1> HIDE DEF q
<1>3. q \in Seq(S) /\ Len(q) = n
  <2> HIDE DEF n
  <2> QED BY <1>1, <1>2
<1>4. ASSUME NEW i \in 1..n, NEW j \in 1..n, q[i] = q[j]
      PROVE  i = j
  <2> HIDE DEF n
  <2>0. q[i] \in Nat /\ q[j] \in Nat
    BY <1>2
  <2>1. ~(q[i] < q[j]) /\ ~(q[j] < q[i])
    BY <1>4, <2>0
  <2>2. ~(i < j) /\ ~(j < i)
    BY <1>2, <2>1 DEF Increasing
  <2> QED BY <1>1, <2>2
<1>5. q \in Injection(1..n, S)
  BY <1>2, <1>4, Fun_IsInj
<1>6. IsFiniteSet(1..n) /\ Cardinality(1..n) = n
  BY <1>1, FS_Interval
<1>7. q \in Surjection(1..n, S)
  BY <1>5, <1>6, FS_Injection
<1>8. \A x \in S : \E i \in 1..n : q[i] = x
  BY <1>7 DEF Surjection
<1> QED BY <1>3, <1>4, <1>8 DEF Lists, q

\* A list is as long as its set is large.
LEMMA ListLength ==
  ASSUME NEW q, NEW D, Lists(q, D)
  PROVE  IsFiniteSet(D) /\ Cardinality(D) = Len(q) /\ Len(q) \in Nat
<1>1. Len(q) \in Nat /\ q \in [1..Len(q) -> D]
  BY LenProperties DEF Lists
<1>2. q \in Injection(1..Len(q), D)
  BY <1>1, Fun_IsInj DEF Lists
<1>3. q \in Surjection(1..Len(q), D)
  BY <1>1 DEF Lists, Surjection
<1>4. ExistsBijection(1..Len(q), D)
  BY <1>2, <1>3 DEF Bijection, ExistsBijection
<1>5. Cardinality(D) = Len(q) /\ IsFiniteSet(D)
  BY <1>1, <1>4, FS_CountingElements, FS_NatBijection
<1> QED BY <1>1, <1>5

-----------------------------------------------------------------------------
(* One state *)

Fields == {"readable", "epoch", "ordinal", "functions", "ev", "sources", "asg", "stamps",
           "idem", "order"}

Items == [src : Sources \cup {0}, seq : Nat, gen : Nat, body : Nat, ep : Nat,
          revoked : BOOLEAN]
Digests == [gen : Nat, slots : SUBSET Slots, body : Nat]
Outcomes == {"None", "Applied", "Rejected", "Failed", "Unknown"}
Assignment ==
  [st : Outcomes \cup {"Dispatched", "AppliedVerified", "Suspended", "Degraded", "Revoked",
                       "Superseded"},
   key : Keys, ep : Nat, hist : Nat, told : SUBSET Outcomes]

\* The slots that a report can fill.
Covered(dom) == {k \in Slots : \E r \in Reports : r.dom = dom /\ k \in r.slots}

StateTypes(s) ==
  /\ DOMAIN s = Fields
  /\ s.epoch \in Nat /\ s.ordinal \in Nat /\ s.stamps \in [Keys -> Nat]
  /\ s.ev \in [Domains \X Slots -> Items]
  /\ s.sources \in [Sources \X Domains -> [last : Nat, digest : Digests, floor : Nat]]
  /\ DOMAIN s.asg \subseteq Nat /\ IsFiniteSet(DOMAIN s.asg)
  /\ \A i \in DOMAIN s.asg : s.asg[i] \in Assignment
  /\ DOMAIN s.idem \subseteq RequestIds

\* The order of eviction lists the remembered requests, of which there are not too
\* many.
Queued(s) == Lists(s.order, DOMAIN s.idem) /\ Len(s.order) <= MaxIdempotency

\* Evidence was reported, is not ahead of its source, nor of the epoch, and a floor
\* not above what has arrived.
EvidenceSound(s) ==
  /\ \A k \in Domains \X Slots : s.ev[k].gen # 0 =>
       /\ s.ev[k].src \in Sources /\ s.ev[k].ep <= s.epoch /\ k[2] \in Covered(k[1])
       /\ s.ev[k].seq <= s.sources[<<s.ev[k].src, k[1]>>].last
  /\ \A k \in Sources \X Domains : s.sources[k].floor <= s.sources[k].last

StateOK(s) == StateTypes(s) /\ Queued(s) /\ EvidenceSound(s)

\* The state of a store that was never written.
LEMMA EmptyOK == StateOK(Empty)
<1>1. StateTypes(Empty)
  BY FS_EmptySet DEF StateTypes, Empty, Fields, Items, Digests, NoItem, NoReport
<1>2. Queued(Empty)
  BY RecoveryAssumption DEF Queued, Lists, Empty
<1>3. EvidenceSound(Empty)
  BY DEF EvidenceSound, Empty, NoItem, NoReport
<1> QED BY <1>1, <1>2, <1>3 DEF StateOK

\* A list that loses its first element where it is too long.
LEMMA ListTail ==
  ASSUME NEW q, NEW D, Lists(q, D), NEW e \in {0, 1}, e <= Len(q)
  PROVE  /\ Lists(SubSeq(q, e + 1, Len(q)), D \ {q[n] : n \in 1..e})
         /\ Len(SubSeq(q, e + 1, Len(q))) = Len(q) - e
<1> DEFINE t == SubSeq(q, e + 1, Len(q))
           out == {q[n] : n \in 1..e}
           N == Len(q)
<1>1. N \in Nat /\ \A i \in 1..N : q[i] \in D
  BY LenProperties DEF Lists
<1> HIDE DEF N
<1>2. \A i \in (e + 1)..N : q[i] \in D \ out
  <2> SUFFICES ASSUME NEW i \in (e + 1)..N, NEW n \in 1..e, q[i] = q[n]
               PROVE  FALSE
    BY <1>1
  <2>1. i \in 1..N /\ n \in 1..N /\ i # n
    BY <1>1 DEF N
  <2> QED BY <2>1 DEF Lists, N
<1>3. /\ t \in Seq(D \ out) /\ Len(t) = IF e + 1 <= N THEN N - (e + 1) + 1 ELSE 0
      /\ \A i \in 1..N - (e + 1) + 1 : t[i] = q[(e + 1) + i - 1]
  <2> HIDE DEF out
  <2>1. e + 1 \in Int /\ N \in Int
    BY <1>1
  <2> QED BY <1>2, <2>1, SubSeqProperties DEF N
<1> HIDE DEF t
<1>4. Len(t) = N - e /\ \A i \in 1..N - e : t[i] = q[i + e]
  <2>1. N - (e + 1) + 1 = N - e /\ (~(e + 1 <= N) => N - e = 0)
    BY <1>1 DEF N
  <2>2. \A i \in 1..N - e : (e + 1) + i - 1 = i + e
    BY <1>1
  <2> QED BY <1>3, <2>1, <2>2
<1>5. ASSUME NEW i \in 1..Len(t), NEW j \in 1..Len(t), t[i] = t[j]
      PROVE  i = j
  <2>1. i + e \in 1..N /\ j + e \in 1..N /\ q[i + e] = q[j + e]
    BY <1>1, <1>4, <1>5
  <2>2. i + e = j + e
    BY <2>1 DEF Lists, N
  <2> QED BY <1>1, <1>4, <2>2
<1>6. ASSUME NEW x \in D \ out
      PROVE  \E i \in 1..Len(t) : t[i] = x
  <2>1. PICK n \in 1..N : q[n] = x
    BY DEF Lists, N
  <2>2. n \notin 1..e
    BY <2>1
  <2>3. n - e \in 1..Len(t) /\ (n - e) + e = n /\ n - e \in 1..N - e
    BY <1>1, <1>4, <2>1, <2>2
  <2> QED BY <1>4, <2>1, <2>3
<1> QED BY <1>3, <1>4, <1>5, <1>6 DEF Lists, t, N

\* A list that gets a new member.
LEMMA ListAppend ==
  ASSUME NEW q, NEW D, Lists(q, D), NEW x, x \notin D
  PROVE  Lists(Append(q, x), D \cup {x}) /\ Len(Append(q, x)) = Len(q) + 1
         /\ Append(q, x)[Len(q) + 1] = x
<1>1. Len(q) \in Nat /\ \A i \in 1..Len(q) : q[i] \in D
  BY LenProperties DEF Lists
<1>2. q \in Seq(D \cup {x})
  BY DEF Lists
<1> DEFINE t == Append(q, x)
<1>3. /\ t \in Seq(D \cup {x}) /\ Len(t) = Len(q) + 1 /\ t[Len(q) + 1] = x
      /\ \A i \in 1..Len(q) : t[i] = q[i]
  BY <1>2, AppendProperties
<1> HIDE DEF t
<1>4. ASSUME NEW i \in 1..Len(t), NEW j \in 1..Len(t), t[i] = t[j]
      PROVE  i = j
  <2>1. (i \in 1..Len(q) \/ i = Len(q) + 1) /\ (j \in 1..Len(q) \/ j = Len(q) + 1)
    BY <1>1, <1>3
  <2> QED BY <1>1, <1>3, <1>4, <2>1 DEF Lists
<1>5. ASSUME NEW y \in D \cup {x}
      PROVE  \E i \in 1..Len(t) : t[i] = y
  <2>1. CASE y = x
    BY <1>1, <1>3, <2>1
  <2>2. CASE y \in D
    <3>1. PICK i \in 1..Len(q) : q[i] = y
      BY <2>2 DEF Lists
    <3>2. i \in 1..Len(t) /\ t[i] = y
      BY <1>1, <1>3, <3>1
    <3> QED BY <3>2
  <2> QED BY <2>1, <2>2
<1>6. Lists(t, D \cup {x})
  BY <1>3, <1>4, <1>5 DEF Lists
<1> QED BY <1>3, <1>6 DEF t

\* What the requests have nothing to do with.
SameRest(t, s) ==
  /\ t.readable = s.readable /\ t.epoch = s.epoch /\ t.ordinal = s.ordinal
  /\ t.functions = s.functions /\ t.ev = s.ev /\ t.sources = s.sources /\ t.asg = s.asg
  /\ t.stamps = s.stamps

\* Numbers of record_idempotency: at most one request has to go, and not the new one.
LEMMA ExcessIsOne ==
  \A n \in Nat : n <= MaxIdempotency + 1 =>
    /\ Greater(n - MaxIdempotency, 0) \in {0, 1}
    /\ Greater(n - MaxIdempotency, 0) <= n
    /\ n - Greater(n - MaxIdempotency, 0) <= MaxIdempotency
    /\ n <= MaxIdempotency => Greater(n - MaxIdempotency, 0) = 0
    /\ n > 0 => Greater(n - MaxIdempotency, 0) < n
BY RecoveryAssumption DEF Greater

\* record_idempotency keeps the order of eviction and forgets other requests only:
\* the one it was called for is remembered.
LEMMA RememberedOK ==
  ASSUME NEW s, DOMAIN s = Fields, DOMAIN s.idem \subseteq RequestIds, Queued(s),
         NEW id \in RequestIds, NEW entry, NEW t, t = Remembered(s, id, entry)
  PROVE  /\ DOMAIN t = Fields /\ SameRest(t, s) /\ Queued(t)
         /\ DOMAIN t.idem \subseteq DOMAIN s.idem \cup {id}
         /\ id \in DOMAIN t.idem /\ t.idem[id] = entry
         /\ \A j \in DOMAIN t.idem : j # id => t.idem[j] = s.idem[j]
<1> DEFINE D == DOMAIN s.idem \cup {id}
           o == IF id \in DOMAIN s.idem THEN s.order ELSE Append(s.order, id)
           e == Greater(Cardinality(D) - MaxIdempotency, 0)
           out == {o[n] : n \in 1..e}
           p == SubSeq(o, e + 1, Len(o))
           x == [j \in D \ out |-> IF j = id THEN entry ELSE s.idem[j]]
<1>1. id # NoRequest
  BY RecoveryAssumption DEF NoRequest
<1>2. t = [s EXCEPT !.order = p, !.idem = x]
  BY <1>1 DEF Remembered
<1>3. Lists(o, D) /\ Len(o) <= MaxIdempotency + 1
  <2>0. MaxIdempotency \in Nat /\ Len(s.order) \in Nat
    BY RecoveryAssumption, ListLength DEF Queued
  <2>1. CASE id \in DOMAIN s.idem
    <3>1. D = DOMAIN s.idem /\ o = s.order
      BY <2>1
    <3> HIDE DEF o, D
    <3> QED BY <2>0, <3>1, RecoveryAssumption DEF Queued
  <2>2. CASE id \notin DOMAIN s.idem
    <3>1. o = Append(s.order, id) /\ Lists(s.order, DOMAIN s.idem)
      BY <2>2 DEF Queued
    <3>2. Lists(o, D) /\ Len(o) = Len(s.order) + 1
      BY <2>2, <3>1, ListAppend
    <3> HIDE DEF o, D
    <3> QED BY <2>0, <3>2 DEF Queued
  <2> QED BY <2>1, <2>2
<1>4. /\ IsFiniteSet(D) /\ Cardinality(D) = Len(o) /\ Len(o) \in Nat
  <2> HIDE DEF D, o
  <2> QED BY <1>3, ListLength
<1>5. /\ e \in {0, 1} /\ e <= Len(o) /\ Len(o) - e <= MaxIdempotency
      /\ Len(o) <= MaxIdempotency => e = 0
      /\ Len(o) > 0 => e < Len(o)
  <2> HIDE DEF D, o
  <2> QED BY <1>3, <1>4, ExcessIsOne
<1>6. Lists(p, D \ out) /\ Len(p) = Len(o) - e
  <2> HIDE DEF D, o, e
  <2> QED BY <1>3, <1>5, ListTail
<1>7. id \notin out
  <2> SUFFICES ASSUME NEW n \in 1..e, o[n] = id
               PROVE  FALSE
    OBVIOUS
  <2>1. CASE id \in DOMAIN s.idem
    <3>1. Len(o) <= MaxIdempotency
      BY <2>1 DEF Queued
    <3>2. e = 0
      BY <1>5, <3>1
    <3> HIDE DEF e
    <3> QED BY <3>2
  <2>2. CASE id \notin DOMAIN s.idem
    <3>1. Lists(s.order, DOMAIN s.idem) /\ Len(s.order) \in Nat
      BY ListLength DEF Queued
    <3>2. o = Append(s.order, id) /\ Len(o) = Len(s.order) + 1 /\ o[Len(s.order) + 1] = id
      BY <2>2, <3>1, ListAppend
    <3> HIDE DEF o, e
    <3>3. e < Len(s.order) + 1 /\ e \in Nat
      BY <1>4, <1>5, <3>1, <3>2
    <3>4. n \in 1..Len(o) /\ Len(o) \in 1..Len(o) /\ o[n] = o[Len(o)] /\ n # Len(o)
      BY <3>1, <3>2, <3>3
    <3> QED BY <1>3, <3>4 DEF Lists
  <2> QED BY <2>1, <2>2
<1>8. DOMAIN x = D \ out /\ id \in D
  OBVIOUS
<1>9. x[id] = entry /\ \A j \in DOMAIN x : j # id => x[j] = s.idem[j]
  BY <1>7
<1> HIDE DEF D, o, e, out, p, x
<1>10. t.order = p /\ t.idem = x /\ DOMAIN t = Fields /\ SameRest(t, s)
  BY <1>2 DEF Fields, SameRest
<1>11. Queued(t)
  BY <1>5, <1>6, <1>8, <1>10 DEF Queued
<1> QED BY <1>7, <1>8, <1>9, <1>10, <1>11 DEF D

\* A request without an identifier is not remembered.
LEMMA NotRemembered ==
  ASSUME NEW s, NEW entry
  PROVE  Remembered(s, NoRequest, entry) = s
BY DEF Remembered

-----------------------------------------------------------------------------
(* Records *)

Prints == Operation \cup {NoReport}
Askers == RequestIds \cup {NoRequest}

Records ==
  UNION {[type : {"FunctionRegistered"}, function : Functions, descriptor : Descriptors],
         [type : {"EvidenceIngested"}, report : Reports, ep : Nat],
         [type : {"AuthorityWithdrawn"}, grant : Slots],
         [type : {"AssignmentStored", "EffectRecorded"}, id : Nat, record : Assignment,
          request : Askers, fp : Prints],
         [type : {"ReassignmentRecorded"}, key : Keys],
         [type : {"RequestRecorded"}, request : Askers, fp : Prints],
         [type : {"EpochStarted"}, epoch : Nat]}

Stores(rec) == rec.type \in {"AssignmentStored", "EffectRecorded"}

\* The fields of a record by its type.
LEMMA RecordFields ==
  ASSUME NEW rec \in Records
  PROVE  /\ rec.type \in {"FunctionRegistered", "EvidenceIngested", "AuthorityWithdrawn",
                          "AssignmentStored", "EffectRecorded", "ReassignmentRecorded",
                          "RequestRecorded", "EpochStarted"}
         /\ rec.type = "EvidenceIngested" => rec.report \in Reports /\ rec.ep \in Nat
         /\ rec.type = "AuthorityWithdrawn" => rec.grant \in Slots
         /\ Stores(rec) => rec.id \in Nat /\ rec.record \in Assignment
                           /\ rec.request \in Askers
         /\ rec.type = "ReassignmentRecorded" => rec.key \in Keys
         /\ rec.type = "RequestRecorded" => rec.request \in Askers
         /\ rec.type = "EpochStarted" => rec.epoch \in Nat
BY DEF Records, Stores

\* The fields of a report.
LEMMA ReportFields ==
  ASSUME NEW r \in Reports
  PROVE  /\ r.dom \in Domains /\ r.src \in Sources /\ r.seq \in Nat \ {0}
         /\ r.gen \in Nat \ {0} /\ r.slots \in SUBSET Slots /\ r.body \in Nat
         /\ <<r.src, r.dom>> \in Sources \X Domains
<1>1. r \in Report
  BY RecoveryAssumption
<1> QED BY <1>1 DEF Report

\* A state that differs from a sound one in what soundness is not about.
LEMMA SameOK ==
  ASSUME NEW s, NEW t, StateOK(s), DOMAIN t = Fields, t.ev = s.ev, t.sources = s.sources,
         t.asg = s.asg, t.idem = s.idem, t.order = s.order,
         t.epoch \in Nat, s.epoch <= t.epoch, t.ordinal \in Nat, t.stamps \in [Keys -> Nat]
  PROVE  StateOK(t)
<1>1. StateTypes(t) /\ Queued(t)
  BY DEF StateOK, StateTypes, Queued
<1>2. ASSUME NEW k \in Domains \X Slots, t.ev[k].gen # 0
      PROVE  /\ t.ev[k].src \in Sources /\ t.ev[k].ep <= t.epoch
             /\ t.ev[k].seq <= t.sources[<<t.ev[k].src, k[1]>>].last
             /\ k[2] \in Covered(k[1])
  <2>1. s.ev[k].ep \in Nat /\ s.epoch \in Nat /\ s.ev[k].ep <= s.epoch
    BY <1>2 DEF StateOK, StateTypes, EvidenceSound, Items
  <2> QED BY <1>2, <2>1 DEF StateOK, EvidenceSound
<1> QED BY <1>1, <1>2 DEF StateOK, EvidenceSound

\* What replay and memory agree on: everything but the observations, the floors, the
\* ordinal, and requests that one of them has forgotten.
Alike(d, m) ==
  /\ d.functions = m.functions
  /\ \A k \in Domains \X Slots : k[1] # "Observation" => d.ev[k] = m.ev[k]
  /\ \A k \in Sources \X Domains : /\ d.sources[k].last = m.sources[k].last
                                   /\ d.sources[k].digest = m.sources[k].digest
  /\ d.asg = m.asg
  /\ \A id \in DOMAIN m.idem \cap DOMAIN d.idem : d.idem[id] = m.idem[id]

\* A record fits the state in memory, and the one it is appended to, when the
\* operation that wrote it has checked what it has to check.
Fits(rec, d, m) ==
  /\ rec.type = "EvidenceIngested" =>
       /\ rec.ep = m.epoch /\ d.epoch = m.epoch
       /\ rec.report.seq > m.sources[<<rec.report.src, rec.report.dom>>].last
  /\ rec.type = "AuthorityWithdrawn" => m.ev[<<"Authority", rec.grant>>].gen # 0
  /\ rec.type = "EpochStarted" => rec.epoch = m.epoch /\ d.epoch <= m.epoch

\* The evidence of s with report r of epoch ep, and its sources.
EvidenceWith(s, r, ep) ==
  [k \in Domains \X Slots |->
     IF k[1] = r.dom /\ k[2] \in r.slots
     THEN [src |-> r.src, seq |-> r.seq, gen |-> r.gen, body |-> r.body,
           ep |-> ep, revoked |-> FALSE]
     ELSE s.ev[k]]
SourcesWith(s, r) ==
  [k \in Sources \X Domains |->
     IF k = <<r.src, r.dom>>
     THEN [last |-> r.seq, digest |-> [gen |-> r.gen, slots |-> r.slots, body |-> r.body],
           floor |-> s.sources[k].floor]
     ELSE s.sources[k]]

\* Evidence is taken and its source marked, in either order.
LEMMA EvidenceFields ==
  ASSUME NEW s, StateTypes(s), NEW r \in Reports, NEW ep \in Nat, NEW t,
         t = Marked(Taken(s, r, ep), r) \/ t = Taken(Marked(s, r), r, ep)
  PROVE  /\ DOMAIN t = Fields /\ t.ev = EvidenceWith(s, r, ep)
         /\ t.sources = SourcesWith(s, r)
         /\ t.readable = s.readable /\ t.epoch = s.epoch /\ t.ordinal = s.ordinal
         /\ t.functions = s.functions /\ t.asg = s.asg /\ t.stamps = s.stamps
         /\ t.idem = s.idem /\ t.order = s.order
<1> DEFINE g == [gen |-> r.gen, slots |-> r.slots, body |-> r.body]
           src == [s.sources EXCEPT ![<<r.src, r.dom>>].last = r.seq,
                                    ![<<r.src, r.dom>>].digest = g]
           ev == EvidenceWith(s, r, ep)
<1>1. src = SourcesWith(s, r)
  <2> DEFINE key == <<r.src, r.dom>>
             old == s.sources[key]
             new == [last |-> r.seq, digest |-> g, floor |-> old.floor]
  <2>1. key \in Sources \X Domains
    BY ReportFields
  <2>2. old \in [last : Nat, digest : Digests, floor : Nat]
    BY <2>1 DEF StateTypes
  <2> HIDE DEF key, g
  <2>3. src = [s.sources EXCEPT ![key] = [[old EXCEPT !.last = r.seq] EXCEPT !.digest = g]]
    BY <2>1 DEF StateTypes, key
  <2> HIDE DEF old
  <2>4. [[old EXCEPT !.last = r.seq] EXCEPT !.digest = g] = new
    <3>1. old = [last |-> old.last, digest |-> old.digest, floor |-> old.floor]
      BY <2>2
    <3>2. [old EXCEPT !.last = r.seq]
            = [last |-> r.seq, digest |-> old.digest, floor |-> old.floor]
      BY <3>1
    <3>3. [[last |-> r.seq, digest |-> old.digest, floor |-> old.floor] EXCEPT !.digest = g]
            = new
      OBVIOUS
    <3> QED BY <3>2, <3>3
  <2>5. src = [s.sources EXCEPT ![key] = new]
    BY <2>3, <2>4
  <2> HIDE DEF src, new
  <2>6. src = [k \in Sources \X Domains |-> IF k = key THEN new ELSE s.sources[k]]
    BY <2>1, <2>5 DEF StateTypes
  <2> QED BY <2>6 DEF SourcesWith, new, key, old, g
<1>2. \/ t = [[s EXCEPT !.ev = ev] EXCEPT !.sources[<<r.src, r.dom>>].last = r.seq,
                                          !.sources[<<r.src, r.dom>>].digest = g]
      \/ t = [[s EXCEPT !.sources[<<r.src, r.dom>>].last = r.seq,
                        !.sources[<<r.src, r.dom>>].digest = g] EXCEPT !.ev = ev]
  BY DEF Marked, Taken, EvidenceWith, StateTypes, Fields
<1> HIDE DEF ev, g
<1>3. \/ t = [[s EXCEPT !.ev = ev] EXCEPT !.sources = src]
      \/ t = [[s EXCEPT !.sources = src] EXCEPT !.ev = ev]
  BY <1>2 DEF StateTypes, Fields
<1> HIDE DEF src
<1>4. /\ DOMAIN t = Fields /\ t.ev = ev /\ t.sources = src
      /\ t.readable = s.readable /\ t.epoch = s.epoch /\ t.ordinal = s.ordinal
      /\ t.functions = s.functions /\ t.asg = s.asg /\ t.stamps = s.stamps
      /\ t.idem = s.idem /\ t.order = s.order
  BY <1>3 DEF StateTypes, Fields
<1> QED BY <1>1, <1>4 DEF ev

\* Accepted evidence: its source has moved on, it is of this epoch.
LEMMA EvidenceOK ==
  ASSUME NEW s, StateOK(s), NEW r \in Reports, NEW ep \in Nat, ep = s.epoch,
         r.seq > s.sources[<<r.src, r.dom>>].last, NEW t,
         t = Marked(Taken(s, r, ep), r) \/ t = Taken(Marked(s, r), r, ep)
  PROVE  StateOK(t)
<1>1. /\ DOMAIN t = Fields /\ t.ev = EvidenceWith(s, r, ep)
      /\ t.sources = SourcesWith(s, r) /\ t.epoch = s.epoch
  BY EvidenceFields DEF StateOK
<1>2. /\ r.dom \in Domains /\ r.src \in Sources /\ r.seq \in Nat /\ r.gen \in Nat
      /\ r.slots \in SUBSET Slots /\ r.body \in Nat /\ <<r.src, r.dom>> \in Sources \X Domains
  BY ReportFields
<1>3. t.ev \in [Domains \X Slots -> Items]
  BY <1>1, <1>2 DEF StateOK, StateTypes, EvidenceWith, Items
<1>4. t.sources \in [Sources \X Domains -> [last : Nat, digest : Digests, floor : Nat]]
  BY <1>1, <1>2 DEF StateOK, StateTypes, SourcesWith, Digests
<1>5. StateTypes(t) /\ Queued(t)
  <2>1. /\ t.ordinal = s.ordinal /\ t.asg = s.asg /\ t.stamps = s.stamps
        /\ t.idem = s.idem /\ t.order = s.order
    BY EvidenceFields DEF StateOK
  <2> QED BY <1>1, <1>3, <1>4, <2>1 DEF StateOK, StateTypes, Queued
<1>6. ASSUME NEW k \in Sources \X Domains
      PROVE  /\ s.sources[k].last <= t.sources[k].last
             /\ t.sources[k].floor <= t.sources[k].last
             /\ s.sources[k].last \in Nat /\ t.sources[k].last \in Nat
  <2>1. s.sources[k].last \in Nat /\ s.sources[k].floor \in Nat
        /\ s.sources[k].floor <= s.sources[k].last
    BY DEF StateOK, StateTypes, EvidenceSound
  <2>2. CASE k = <<r.src, r.dom>>
    BY <1>1, <1>2, <2>1, <2>2 DEF SourcesWith
  <2>3. CASE k # <<r.src, r.dom>>
    BY <1>1, <2>1, <2>3 DEF SourcesWith
  <2> QED BY <2>2, <2>3
<1>7. ASSUME NEW k \in Domains \X Slots, t.ev[k].gen # 0
      PROVE  /\ t.ev[k].src \in Sources /\ t.ev[k].ep <= t.epoch
             /\ t.ev[k].seq <= t.sources[<<t.ev[k].src, k[1]>>].last
             /\ k[2] \in Covered(k[1])
  <2>1. CASE k[1] = r.dom /\ k[2] \in r.slots
    <3>1. t.ev[k].src = r.src /\ t.ev[k].ep = ep /\ t.ev[k].seq = r.seq
      BY <1>1, <2>1 DEF EvidenceWith
    <3>2. t.sources[<<r.src, r.dom>>].last = r.seq
      BY <1>1, <1>2 DEF SourcesWith
    <3>3. k[2] \in Covered(k[1])
      BY <2>1 DEF Covered
    <3> QED BY <1>1, <1>2, <2>1, <3>1, <3>2, <3>3
  <2>2. CASE ~(k[1] = r.dom /\ k[2] \in r.slots)
    <3>1. t.ev[k] = s.ev[k] /\ s.ev[k].seq \in Nat
      BY <1>1, <2>2 DEF EvidenceWith, StateOK, StateTypes, Items
    <3>2. /\ s.ev[k].src \in Sources /\ s.ev[k].ep <= s.epoch /\ k[2] \in Covered(k[1])
          /\ s.ev[k].seq <= s.sources[<<s.ev[k].src, k[1]>>].last
      BY <1>7, <3>1 DEF StateOK, EvidenceSound
    <3>3. <<s.ev[k].src, k[1]>> \in Sources \X Domains
      BY <3>2
    <3>4. s.ev[k].seq <= t.sources[<<s.ev[k].src, k[1]>>].last
      BY <1>6, <3>1, <3>2, <3>3
    <3> QED BY <1>1, <3>1, <3>2, <3>4
  <2> QED BY <2>1, <2>2
<1> QED BY <1>5, <1>6, <1>7 DEF StateOK, EvidenceSound

-----------------------------------------------------------------------------
(* The commit of a record to two states that are alike *)

\* Evidence is current when it is of this epoch: above the floor of its source.
Lifetime(s) ==
  \A k \in Domains \X Slots : s.ev[k].gen # 0 =>
    IF s.ev[k].ep = s.epoch THEN s.ev[k].seq > s.sources[<<s.ev[k].src, k[1]>>].floor
                            ELSE s.ev[k].seq <= s.sources[<<s.ev[k].src, k[1]>>].floor

\* All evidence is of an earlier epoch.
Earlier(s) == \A k \in Domains \X Slots : s.ev[k].gen # 0 => s.ev[k].ep < s.epoch

\* Stamps, and those of one reassignment more.
AtMost(f, g) == \A k \in Keys : f[k] <= g[k]
Stamping(f, rec) ==
  IF rec.type = "ReassignmentRecorded" THEN [f EXCEPT ![rec.key] = @ + 1] ELSE f

\* A reassignment adds to the stamps of its key.
LEMMA StampingFacts ==
  ASSUME NEW rec \in Records, NEW f \in [Keys -> Nat]
  PROVE  /\ Stamping(f, rec) \in [Keys -> Nat]
         /\ \A k \in Keys : Stamping(f, rec)[k] =
              IF rec.type = "ReassignmentRecorded" /\ k = rec.key THEN f[k] + 1 ELSE f[k]
<1>1. CASE rec.type = "ReassignmentRecorded"
  <2> DEFINE g == [f EXCEPT ![rec.key] = f[rec.key] + 1]
  <2>1. Stamping(f, rec) = g /\ rec.key \in Keys
    BY <1>1, RecordFields DEF Stamping
  <2>2. /\ g \in [Keys -> Nat]
        /\ \A k \in Keys : g[k] = IF k = rec.key THEN f[k] + 1 ELSE f[k]
    BY <2>1
  <2> HIDE DEF g
  <2> QED BY <1>1, <2>1, <2>2
<1>2. CASE rec.type # "ReassignmentRecorded"
  BY <1>2 DEF Stamping
<1> QED BY <1>1, <1>2

\* The entry a record makes for the request it answers.
Entry(rec) ==
  IF Stores(rec) THEN Served(rec.fp, rec.id, rec.record) ELSE Refused(rec.fp)

\* What a record leaves of the remembered requests of s in t: its own is there.
Noted(s, rec, t) ==
  /\ Asker(rec) \in DOMAIN t.idem /\ t.idem[Asker(rec)] = Entry(rec)
  /\ \A j \in DOMAIN t.idem : j # Asker(rec) => j \in DOMAIN s.idem /\ t.idem[j] = s.idem[j]

\* States d and m have become e and n by record rec.
Commits(d, m, rec, e, n) ==
  /\ StateOK(e) /\ StateOK(n) /\ Alike(e, n)
  /\ n.epoch = m.epoch
  /\ e.epoch = IF rec.type = "EpochStarted" THEN rec.epoch ELSE d.epoch
  /\ n.stamps = m.stamps
  /\ e.stamps = Stamping(d.stamps, rec)
  /\ rec.type # "EvidenceIngested" => e.sources = d.sources
  /\ Asker(rec) = NoRequest => e.idem = d.idem /\ n.idem = m.idem
  /\ Asker(rec) # NoRequest => Noted(d, rec, e) /\ Noted(m, rec, n)
  /\ rec.type # "EpochStarted" /\ Lifetime(m) => Lifetime(n)
  /\ rec.type = "EpochStarted" /\ Earlier(m) => Lifetime(n)

\* register_function.
LEMMA CommitFunction ==
  ASSUME NEW d, NEW m, NEW rec \in Records, StateOK(d), StateOK(m), Alike(d, m),
         rec.type = "FunctionRegistered"
  PROVE  Commits(d, m, rec, Replayed(d, rec), After(m, rec))
<1> DEFINE e == Replayed(d, rec)
           n == After(m, rec)
<1>1. /\ e = [d EXCEPT !.functions = Put(@, rec.function, rec.descriptor)]
      /\ n = [m EXCEPT !.functions = Put(@, rec.function, rec.descriptor)]
  BY DEF Replayed, After
<1> HIDE DEF e, n
<1>2. /\ DOMAIN e = Fields /\ e.epoch = d.epoch /\ e.ordinal = d.ordinal /\ e.ev = d.ev
      /\ e.sources = d.sources /\ e.asg = d.asg /\ e.stamps = d.stamps
      /\ e.idem = d.idem /\ e.order = d.order
      /\ e.functions = Put(d.functions, rec.function, rec.descriptor)
  BY <1>1 DEF StateOK, StateTypes, Fields
<1>3. /\ DOMAIN n = Fields /\ n.epoch = m.epoch /\ n.ordinal = m.ordinal /\ n.ev = m.ev
      /\ n.sources = m.sources /\ n.asg = m.asg /\ n.stamps = m.stamps
      /\ n.idem = m.idem /\ n.order = m.order
      /\ n.functions = Put(m.functions, rec.function, rec.descriptor)
  BY <1>1 DEF StateOK, StateTypes, Fields
<1>4. StateOK(e) /\ StateOK(n)
  <2>1. /\ d.epoch \in Nat /\ d.ordinal \in Nat /\ d.stamps \in [Keys -> Nat]
        /\ m.epoch \in Nat /\ m.ordinal \in Nat /\ m.stamps \in [Keys -> Nat]
        /\ d.epoch <= d.epoch /\ m.epoch <= m.epoch
    BY DEF StateOK, StateTypes
  <2> QED BY <1>2, <1>3, <2>1, SameOK
<1>5. Alike(e, n)
  BY <1>2, <1>3 DEF Alike
<1>6. Asker(rec) = NoRequest
  BY DEF Asker
<1>7. Lifetime(m) => Lifetime(n)
  BY <1>3 DEF Lifetime
<1>8. Commits(d, m, rec, e, n)
  BY <1>2, <1>3, <1>4, <1>5, <1>6, <1>7 DEF Commits, Stamping
<1> QED BY <1>8 DEF e, n

\* note_reassignment: memory has been stamped before.
LEMMA CommitStamp ==
  ASSUME NEW d, NEW m, NEW rec \in Records, StateOK(d), StateOK(m), Alike(d, m),
         rec.type = "ReassignmentRecorded"
  PROVE  Commits(d, m, rec, Replayed(d, rec), After(m, rec))
<1> DEFINE e == Replayed(d, rec)
           f == Stamping(d.stamps, rec)
<1>1. After(m, rec) = m /\ e = [d EXCEPT !.stamps[rec.key] = @ + 1]
  BY DEF Replayed, ReplayedStamp, After
<1>1a. e = [d EXCEPT !.stamps = f]
  BY <1>1 DEF Stamping, StateOK, StateTypes, Fields
<1>1b. f \in [Keys -> Nat]
  BY StampingFacts DEF StateOK, StateTypes
<1> HIDE DEF e, f
<1>2. /\ DOMAIN e = Fields /\ e.epoch = d.epoch /\ e.ordinal = d.ordinal /\ e.ev = d.ev
      /\ e.sources = d.sources /\ e.asg = d.asg /\ e.stamps = f
      /\ e.idem = d.idem /\ e.order = d.order /\ e.functions = d.functions
  BY <1>1a DEF StateOK, StateTypes, Fields
<1>3. StateOK(e)
  <2>1. d.epoch \in Nat /\ d.ordinal \in Nat /\ d.epoch <= d.epoch
    BY DEF StateOK, StateTypes
  <2> QED BY <1>1b, <1>2, <2>1, SameOK
<1>4. Alike(e, m)
  BY <1>2 DEF Alike
<1>5. Asker(rec) = NoRequest
  BY DEF Asker
<1>6. Commits(d, m, rec, e, m)
  BY <1>2, <1>3, <1>4, <1>5 DEF Commits, f
<1> QED BY <1>1, <1>6 DEF e

\* start: the epoch is durable, memory raises the floors and drops the observations.
LEMMA CommitEpoch ==
  ASSUME NEW d, NEW m, NEW rec \in Records, StateOK(d), StateOK(m), Alike(d, m),
         Fits(rec, d, m), rec.type = "EpochStarted"
  PROVE  Commits(d, m, rec, Replayed(d, rec), After(m, rec))
<1> DEFINE e == Replayed(d, rec)
           n == After(m, rec)
           src == [k \in Sources \X Domains |-> [m.sources[k] EXCEPT !.floor = m.sources[k].last]]
           ev == [k \in Domains \X Slots |-> IF k[1] = "Observation" THEN NoItem ELSE m.ev[k]]
<1>1. /\ e = [d EXCEPT !.epoch = Greater(@, rec.epoch)]
      /\ n = [m EXCEPT !.sources = src, !.ev = ev]
  BY DEF Replayed, After, RecoveryInvariants
<1>2. Greater(d.epoch, rec.epoch) = rec.epoch /\ d.epoch <= rec.epoch /\ rec.epoch \in Nat
  BY RecordFields DEF Fits, Greater, StateOK, StateTypes
<1>3. src \in [Sources \X Domains -> [last : Nat, digest : Digests, floor : Nat]]
  BY DEF StateOK, StateTypes
<1>4. ASSUME NEW k \in Sources \X Domains
      PROVE  /\ src[k].last = m.sources[k].last /\ src[k].digest = m.sources[k].digest
             /\ src[k].floor = m.sources[k].last /\ m.sources[k].last \in Nat
  BY DEF StateOK, StateTypes
<1>5. ev \in [Domains \X Slots -> Items]
  BY DEF StateOK, StateTypes, Items, NoItem
<1>6. ASSUME NEW k \in Domains \X Slots
      PROVE  /\ k[1] # "Observation" => ev[k] = m.ev[k]
             /\ ev[k].gen # 0 => ev[k] = m.ev[k]
  BY DEF NoItem
<1> HIDE DEF e, n, src, ev
<1>7. /\ DOMAIN e = Fields /\ e.epoch = rec.epoch /\ e.ordinal = d.ordinal /\ e.ev = d.ev
      /\ e.sources = d.sources /\ e.asg = d.asg /\ e.stamps = d.stamps
      /\ e.idem = d.idem /\ e.order = d.order /\ e.functions = d.functions
  BY <1>1, <1>2 DEF StateOK, StateTypes, Fields
<1>8. /\ DOMAIN n = Fields /\ n.epoch = m.epoch /\ n.ordinal = m.ordinal /\ n.ev = ev
      /\ n.sources = src /\ n.asg = m.asg /\ n.stamps = m.stamps
      /\ n.idem = m.idem /\ n.order = m.order /\ n.functions = m.functions
  BY <1>1 DEF StateOK, StateTypes, Fields
<1>9. StateOK(e)
  BY <1>2, <1>7, SameOK DEF StateOK, StateTypes
<1>10. StateTypes(n) /\ Queued(n)
  BY <1>3, <1>5, <1>8 DEF StateOK, StateTypes, Queued
<1>11. ASSUME NEW k \in Domains \X Slots, n.ev[k].gen # 0
       PROVE  /\ n.ev[k] = m.ev[k] /\ m.ev[k].src \in Sources /\ m.ev[k].ep <= m.epoch
              /\ k[2] \in Covered(k[1])
              /\ m.ev[k].seq <= src[<<m.ev[k].src, k[1]>>].last
              /\ m.ev[k].seq <= src[<<m.ev[k].src, k[1]>>].floor
  <2>1. n.ev[k] = m.ev[k] /\ m.ev[k].gen # 0
    BY <1>6, <1>8, <1>11
  <2>2. /\ m.ev[k].src \in Sources /\ m.ev[k].ep <= m.epoch /\ k[2] \in Covered(k[1])
        /\ m.ev[k].seq <= m.sources[<<m.ev[k].src, k[1]>>].last
    BY <2>1 DEF StateOK, EvidenceSound
  <2>3. <<m.ev[k].src, k[1]>> \in Sources \X Domains
    BY <2>2
  <2> QED BY <1>4, <2>1, <2>2, <2>3
<1>12. EvidenceSound(n)
  <2>1. \A k \in Sources \X Domains : n.sources[k].floor <= n.sources[k].last
    BY <1>4, <1>8
  <2> QED BY <1>8, <1>11, <2>1 DEF EvidenceSound
<1>13. Alike(e, n)
  BY <1>4, <1>6, <1>7, <1>8 DEF Alike
<1>14. Earlier(m) => Lifetime(n)
  <2> SUFFICES ASSUME Earlier(m), NEW k \in Domains \X Slots, n.ev[k].gen # 0
               PROVE  n.ev[k].ep # n.epoch /\ n.ev[k].seq <= n.sources[<<n.ev[k].src, k[1]>>].floor
    BY DEF Lifetime
  <2>1. n.ev[k] = m.ev[k] /\ m.ev[k].gen # 0
    BY <1>11
  <2>2. m.ev[k].ep < m.epoch /\ m.ev[k].ep \in Nat /\ m.epoch \in Nat
    BY <2>1 DEF Earlier, StateOK, StateTypes, Items
  <2> QED BY <1>8, <1>11, <2>1, <2>2
<1>15. Asker(rec) = NoRequest
  BY DEF Asker
<1>16. Commits(d, m, rec, e, n)
  BY <1>7, <1>8, <1>9, <1>10, <1>12, <1>13, <1>14, <1>15 DEF Commits, Stamping, StateOK
<1> QED BY <1>16 DEF e, n

\* The ingest functions and grant_authority.
LEMMA CommitEvidence ==
  ASSUME NEW d, NEW m, NEW rec \in Records, StateOK(d), StateOK(m), Alike(d, m),
         Fits(rec, d, m), rec.type = "EvidenceIngested"
  PROVE  Commits(d, m, rec, Replayed(d, rec), After(m, rec))
<1> DEFINE e == Replayed(d, rec)
           n == After(m, rec)
           r == rec.report
           key == <<r.src, r.dom>>
<1>1. /\ e = Taken(Marked(d, r), r, rec.ep) /\ n = Marked(Taken(m, r, rec.ep), r)
  BY DEF Replayed, ReplayedEvidence, After
<1>2. /\ r \in Reports /\ rec.ep \in Nat /\ key \in Sources \X Domains
      /\ r.seq \in Nat /\ r.src \in Sources /\ r.dom \in Domains
  BY RecordFields, ReportFields
<1>3. rec.ep = m.epoch /\ rec.ep = d.epoch /\ r.seq > m.sources[key].last
  BY DEF Fits
<1>4. r.seq > d.sources[key].last
  BY <1>2, <1>3 DEF Alike
<1> HIDE DEF e, n, r, key
<1>5. StateOK(e) /\ StateOK(n)
  BY <1>1, <1>2, <1>3, <1>4, EvidenceOK DEF key
<1>6. /\ e.ev = EvidenceWith(d, r, rec.ep) /\ e.sources = SourcesWith(d, r)
      /\ e.epoch = d.epoch /\ e.functions = d.functions /\ e.asg = d.asg
      /\ e.stamps = d.stamps /\ e.idem = d.idem
  BY <1>1, <1>2, EvidenceFields DEF StateOK
<1>7. /\ n.ev = EvidenceWith(m, r, rec.ep) /\ n.sources = SourcesWith(m, r)
      /\ n.epoch = m.epoch /\ n.functions = m.functions /\ n.asg = m.asg
      /\ n.stamps = m.stamps /\ n.idem = m.idem
  BY <1>1, <1>2, EvidenceFields DEF StateOK
<1>8. \A k \in Domains \X Slots : k[1] # "Observation" => e.ev[k] = n.ev[k]
  BY <1>6, <1>7 DEF EvidenceWith, Alike
<1>9. \A k \in Sources \X Domains : /\ e.sources[k].last = n.sources[k].last
                                    /\ e.sources[k].digest = n.sources[k].digest
  BY <1>6, <1>7 DEF SourcesWith, Alike
<1>10. Alike(e, n)
  BY <1>6, <1>7, <1>8, <1>9 DEF Alike
<1>11. Lifetime(m) => Lifetime(n)
  <2> SUFFICES ASSUME Lifetime(m), NEW k \in Domains \X Slots, n.ev[k].gen # 0
               PROVE  IF n.ev[k].ep = n.epoch
                      THEN n.ev[k].seq > n.sources[<<n.ev[k].src, k[1]>>].floor
                      ELSE n.ev[k].seq <= n.sources[<<n.ev[k].src, k[1]>>].floor
    BY DEF Lifetime
  <2>0. \A j \in Sources \X Domains : n.sources[j].floor = m.sources[j].floor
    BY <1>7 DEF SourcesWith
  <2>1. CASE k[1] = r.dom /\ k[2] \in r.slots
    <3>1. n.ev[k].src = r.src /\ n.ev[k].ep = rec.ep /\ n.ev[k].seq = r.seq
      BY <1>7, <2>1 DEF EvidenceWith
    <3>2. /\ m.sources[key].floor <= m.sources[key].last /\ m.sources[key].floor \in Nat
          /\ m.sources[key].last \in Nat
      BY <1>2 DEF StateOK, StateTypes, EvidenceSound
    <3>3. r.seq > m.sources[key].floor
      BY <1>2, <1>3, <3>2
    <3>4. n.sources[<<n.ev[k].src, k[1]>>].floor = m.sources[key].floor
      BY <1>2, <2>0, <2>1, <3>1 DEF key
    <3> QED BY <1>3, <1>7, <3>1, <3>3, <3>4
  <2>2. CASE ~(k[1] = r.dom /\ k[2] \in r.slots)
    <3>1. n.ev[k] = m.ev[k]
      BY <1>7, <2>2 DEF EvidenceWith
    <3>2. m.ev[k].src \in Sources
      BY <3>1 DEF StateOK, EvidenceSound
    <3>3. <<m.ev[k].src, k[1]>> \in Sources \X Domains
      BY <3>2
    <3> QED BY <1>7, <2>0, <3>1, <3>3 DEF Lifetime
  <2> QED BY <2>1, <2>2
<1>12. Asker(rec) = NoRequest
  BY DEF Asker
<1>13. Commits(d, m, rec, e, n)
  BY <1>5, <1>6, <1>7, <1>10, <1>11, <1>12 DEF Commits, Stamping
<1> QED BY <1>13 DEF e, n

\* A changed value keeps the type of a function.
LEMMA ExceptType ==
  ASSUME NEW D, NEW R, NEW f \in [D -> R], NEW k \in D, NEW v \in R
  PROVE  [f EXCEPT ![k] = v] \in [D -> R]
OBVIOUS

\* State t is state s with grant g withdrawn.
WithoutGrant(t, s, g) ==
  /\ t.epoch = s.epoch /\ t.stamps = s.stamps /\ t.sources = s.sources
  /\ t.functions = s.functions /\ t.asg = s.asg /\ t.idem = s.idem
  /\ \A k \in Domains \X Slots :
       /\ k # <<"Authority", g>> => t.ev[k] = s.ev[k]
       /\ k = <<"Authority", g>> => t.ev[k] = [s.ev[k] EXCEPT !.revoked = TRUE]
       /\ t.ev[k].src = s.ev[k].src /\ t.ev[k].seq = s.ev[k].seq
       /\ t.ev[k].gen = s.ev[k].gen /\ t.ev[k].ep = s.ev[k].ep

\* A withdrawn grant of one state.
LEMMA WithdrawnOK ==
  ASSUME NEW s, StateOK(s), NEW g \in Slots, NEW t,
         t = [s EXCEPT !.ev[<<"Authority", g>>].revoked = TRUE]
  PROVE  StateOK(t) /\ WithoutGrant(t, s, g)
<1> DEFINE key == <<"Authority", g>>
           new == [s.ev[key] EXCEPT !.revoked = TRUE]
<1>1. key \in Domains \X Slots
  BY DEF Domains
<1>2. s.ev[key] \in Items /\ s.ev \in [Domains \X Slots -> Items]
  BY <1>1 DEF StateOK, StateTypes
<1>3. /\ new \in Items /\ new.src = s.ev[key].src /\ new.seq = s.ev[key].seq
      /\ new.gen = s.ev[key].gen /\ new.ep = s.ev[key].ep
  BY <1>2 DEF Items
<1> HIDE DEF key
<1>4. t = [s EXCEPT !.ev = [s.ev EXCEPT ![key] = new]]
  BY <1>1 DEF StateOK, StateTypes, Fields, key
<1> HIDE DEF new
<1>5. /\ DOMAIN t = Fields /\ t.ev = [s.ev EXCEPT ![key] = new] /\ t.sources = s.sources
      /\ t.epoch = s.epoch /\ t.ordinal = s.ordinal /\ t.stamps = s.stamps /\ t.asg = s.asg
      /\ t.functions = s.functions /\ t.idem = s.idem /\ t.order = s.order
  BY <1>4 DEF StateOK, StateTypes, Fields
<1>6. ASSUME NEW k \in Domains \X Slots
      PROVE  /\ k # key => t.ev[k] = s.ev[k]
             /\ k = key => t.ev[k] = new
             /\ t.ev[k].src = s.ev[k].src /\ t.ev[k].seq = s.ev[k].seq
             /\ t.ev[k].gen = s.ev[k].gen /\ t.ev[k].ep = s.ev[k].ep
  BY <1>1, <1>2, <1>3, <1>5
<1>7. t.ev \in [Domains \X Slots -> Items]
  <2>1. [s.ev EXCEPT ![key] = new] \in [Domains \X Slots -> Items]
    BY <1>1, <1>2, <1>3, ExceptType
  <2> QED BY <1>5, <2>1
<1>8. StateTypes(t) /\ Queued(t)
  BY <1>5, <1>7 DEF StateOK, StateTypes, Queued
<1>9. EvidenceSound(t)
  BY <1>5, <1>6 DEF StateOK, EvidenceSound
<1>10. WithoutGrant(t, s, g)
  BY <1>5, <1>6 DEF WithoutGrant, key, new
<1> QED BY <1>8, <1>9, <1>10 DEF StateOK

\* withdraw_authority: replay looks for the grant, and finds it.
LEMMA CommitWithdrawal ==
  ASSUME NEW d, NEW m, NEW rec \in Records, StateOK(d), StateOK(m), Alike(d, m),
         Fits(rec, d, m), rec.type = "AuthorityWithdrawn"
  PROVE  Commits(d, m, rec, Replayed(d, rec), After(m, rec))
<1> DEFINE e == Replayed(d, rec)
           n == After(m, rec)
           g == rec.grant
<1>0. g \in Slots /\ m.ev[<<"Authority", g>>].gen # 0
  BY RecordFields DEF Fits
<1>1. d.ev[<<"Authority", g>>] = m.ev[<<"Authority", g>>]
  BY <1>0 DEF Alike, Domains
<1>2. /\ e = [d EXCEPT !.ev[<<"Authority", g>>].revoked = TRUE]
      /\ n = [m EXCEPT !.ev[<<"Authority", g>>].revoked = TRUE]
  BY <1>0, <1>1 DEF Replayed, ReplayedWithdrawal, After
<1> HIDE DEF e, n, g
<1>3. StateOK(e) /\ WithoutGrant(e, d, g)
  BY <1>0, <1>2, WithdrawnOK
<1>4. StateOK(n) /\ WithoutGrant(n, m, g)
  BY <1>0, <1>2, WithdrawnOK
<1>5. ASSUME NEW k \in Domains \X Slots, k[1] # "Observation"
      PROVE  e.ev[k] = n.ev[k]
  <2>1. d.ev[k] = m.ev[k]
    BY <1>5 DEF Alike
  <2>2. CASE k = <<"Authority", g>>
    <3>1. /\ e.ev[k] = [d.ev[k] EXCEPT !.revoked = TRUE]
          /\ n.ev[k] = [m.ev[k] EXCEPT !.revoked = TRUE]
      BY <1>3, <1>4, <2>2, Zenon DEF WithoutGrant
    <3> QED BY <2>1, <3>1
  <2>3. CASE k # <<"Authority", g>>
    <3>1. e.ev[k] = d.ev[k] /\ n.ev[k] = m.ev[k]
      BY <1>3, <1>4, <2>3, Zenon DEF WithoutGrant
    <3> QED BY <2>1, <3>1
  <2> QED BY <2>2, <2>3
<1>6. Alike(e, n)
  BY <1>3, <1>4, <1>5 DEF Alike, WithoutGrant
<1>7. Lifetime(m) => Lifetime(n)
  <2>1. /\ n.epoch = m.epoch /\ n.sources = m.sources
        /\ \A k \in Domains \X Slots :
             /\ n.ev[k].src = m.ev[k].src /\ n.ev[k].seq = m.ev[k].seq
             /\ n.ev[k].gen = m.ev[k].gen /\ n.ev[k].ep = m.ev[k].ep
    BY <1>4, Zenon DEF WithoutGrant
  <2> QED BY <2>1 DEF Lifetime
<1>8. Asker(rec) = NoRequest
  BY DEF Asker
<1>9. Commits(d, m, rec, e, n)
  BY <1>3, <1>4, <1>6, <1>7, <1>8 DEF Commits, Stamping, WithoutGrant
<1> QED BY <1>9 DEF e, n

\* A sound state stays sound when a request is remembered.
LEMMA RememberOK ==
  ASSUME NEW s, StateOK(s), NEW q \in Askers, NEW entry, NEW t, t = Remembered(s, q, entry)
  PROVE  /\ StateOK(t) /\ SameRest(t, s)
         /\ q = NoRequest => t.idem = s.idem
         /\ q # NoRequest => /\ q \in DOMAIN t.idem /\ t.idem[q] = entry
                             /\ DOMAIN t.idem \subseteq DOMAIN s.idem \cup {q}
                             /\ \A j \in DOMAIN t.idem : j # q => t.idem[j] = s.idem[j]
<1>1. CASE q = NoRequest
  BY <1>1, NotRemembered DEF SameRest
<1>2. CASE q # NoRequest
  <2>1. q \in RequestIds /\ DOMAIN s = Fields /\ DOMAIN s.idem \subseteq RequestIds /\ Queued(s)
    BY <1>2 DEF Askers, StateOK, StateTypes
  <2>2. /\ DOMAIN t = Fields /\ SameRest(t, s) /\ Queued(t)
        /\ DOMAIN t.idem \subseteq DOMAIN s.idem \cup {q}
        /\ q \in DOMAIN t.idem /\ t.idem[q] = entry
        /\ \A j \in DOMAIN t.idem : j # q => t.idem[j] = s.idem[j]
    BY <2>1, RememberedOK
  <2>3. StateTypes(t) /\ EvidenceSound(t)
    BY <2>1, <2>2 DEF SameRest, StateOK, StateTypes, EvidenceSound
  <2> QED BY <1>2, <2>2, <2>3 DEF StateOK
<1> QED BY <1>1, <1>2

\* The same answer is remembered in two states that are alike.
LEMMA CommitAnswer ==
  ASSUME NEW d, NEW m, NEW rec \in Records, StateOK(d), StateOK(m), Alike(d, m),
         rec.type \in {"AssignmentStored", "EffectRecorded", "RequestRecorded"},
         NEW entry, entry = Entry(rec), NEW e, NEW n,
         e = Remembered(d, rec.request, entry), n = Remembered(m, rec.request, entry)
  PROVE  Commits(d, m, rec, e, n)
<1> DEFINE q == rec.request
<1>1. q \in Askers /\ Asker(rec) = q
  BY RecordFields DEF Stores, Asker
<1>2. /\ StateOK(e) /\ SameRest(e, d)
      /\ q = NoRequest => e.idem = d.idem
      /\ q # NoRequest => /\ q \in DOMAIN e.idem /\ e.idem[q] = entry
                          /\ DOMAIN e.idem \subseteq DOMAIN d.idem \cup {q}
                          /\ \A j \in DOMAIN e.idem : j # q => e.idem[j] = d.idem[j]
  BY <1>1, RememberOK
<1>3. /\ StateOK(n) /\ SameRest(n, m)
      /\ q = NoRequest => n.idem = m.idem
      /\ q # NoRequest => /\ q \in DOMAIN n.idem /\ n.idem[q] = entry
                          /\ DOMAIN n.idem \subseteq DOMAIN m.idem \cup {q}
                          /\ \A j \in DOMAIN n.idem : j # q => n.idem[j] = m.idem[j]
  BY <1>1, RememberOK
<1>4. \A j \in DOMAIN n.idem \cap DOMAIN e.idem : e.idem[j] = n.idem[j]
  BY <1>2, <1>3 DEF Alike
<1>5. Alike(e, n)
  BY <1>2, <1>3, <1>4 DEF Alike, SameRest
<1>6. Lifetime(m) => Lifetime(n)
  BY <1>3 DEF Lifetime, SameRest
<1>7. q # NoRequest => Noted(d, rec, e) /\ Noted(m, rec, n)
  BY <1>1, <1>2, <1>3 DEF Noted
<1> QED BY <1>1, <1>2, <1>3, <1>5, <1>6, <1>7 DEF Commits, Stamping, SameRest

\* record_refusal.
LEMMA CommitRefusal ==
  ASSUME NEW d, NEW m, NEW rec \in Records, StateOK(d), StateOK(m), Alike(d, m),
         rec.type = "RequestRecorded"
  PROVE  Commits(d, m, rec, Replayed(d, rec), After(m, rec))
<1>1. /\ Replayed(d, rec) = Remembered(d, rec.request, Refused(rec.fp))
      /\ After(m, rec) = Remembered(m, rec.request, Refused(rec.fp))
      /\ Refused(rec.fp) = Entry(rec)
  BY DEF Replayed, After, Entry, Stores
<1> QED BY <1>1, CommitAnswer

\* An assignment is stored in one state.
LEMMA StoredOK ==
  ASSUME NEW s, StateOK(s), NEW i \in Nat, NEW r \in Assignment, NEW t, DOMAIN t = Fields,
         t.asg = Put(s.asg, i, r), t.epoch = s.epoch, t.ordinal = s.ordinal,
         t.stamps = s.stamps, t.ev = s.ev, t.sources = s.sources, t.idem = s.idem,
         t.order = s.order
  PROVE  StateOK(t)
<1>1. DOMAIN t.asg = DOMAIN s.asg \cup {i}
  BY DEF Put
<1>2. \A j \in DOMAIN t.asg : t.asg[j] \in Assignment
  <2>1. \A j \in DOMAIN s.asg : s.asg[j] \in Assignment
    BY DEF StateOK, StateTypes
  <2> QED BY <2>1 DEF Put
<1>3. IsFiniteSet(DOMAIN t.asg)
  <2> DEFINE D == DOMAIN s.asg
  <2>1. IsFiniteSet(D)
    BY DEF StateOK, StateTypes
  <2> HIDE DEF D
  <2>2. IsFiniteSet(D \cup {i})
    BY <2>1, FS_AddElement
  <2> QED BY <1>1, <2>2 DEF D
<1>4. StateTypes(t)
  BY <1>1, <1>2, <1>3 DEF StateOK, StateTypes
<1>5. Queued(t) /\ EvidenceSound(t)
  BY DEF StateOK, Queued, EvidenceSound
<1> QED BY <1>4, <1>5 DEF StateOK

\* store_assignment and report_effect.
LEMMA CommitAssignment ==
  ASSUME NEW d, NEW m, NEW rec \in Records, StateOK(d), StateOK(m), Alike(d, m),
         Stores(rec)
  PROVE  Commits(d, m, rec, Replayed(d, rec), After(m, rec))
<1> DEFINE a == [d EXCEPT !.readable = @ /\ DecodesAssignment(rec.record),
                          !.asg = Put(@, rec.id, rec.record)]
           b == [m EXCEPT !.asg = Put(@, rec.id, rec.record)]
           entry == Served(rec.fp, rec.id, rec.record)
           e == Replayed(d, rec)
           n == After(m, rec)
<1>1. /\ e = Remembered(a, rec.request, entry) /\ n = Remembered(b, rec.request, entry)
      /\ entry = Entry(rec)
  BY DEF Replayed, ReplayedAssignment, After, Stores, Entry
<1>2. rec.id \in Nat /\ rec.record \in Assignment
  BY RecordFields
<1>3. /\ DOMAIN a = Fields /\ a.asg = Put(d.asg, rec.id, rec.record)
      /\ a.epoch = d.epoch /\ a.ordinal = d.ordinal /\ a.stamps = d.stamps
      /\ a.ev = d.ev /\ a.sources = d.sources /\ a.idem = d.idem /\ a.order = d.order
      /\ a.functions = d.functions
  BY DEF StateOK, StateTypes, Fields
<1>4. /\ DOMAIN b = Fields /\ b.asg = Put(m.asg, rec.id, rec.record)
      /\ b.epoch = m.epoch /\ b.ordinal = m.ordinal /\ b.stamps = m.stamps
      /\ b.ev = m.ev /\ b.sources = m.sources /\ b.idem = m.idem /\ b.order = m.order
      /\ b.functions = m.functions
  BY DEF StateOK, StateTypes, Fields
<1> HIDE DEF a, b, entry, e, n
<1>5. StateOK(a) /\ StateOK(b)
  BY <1>2, <1>3, <1>4, StoredOK
<1>6. Alike(a, b)
  BY <1>3, <1>4 DEF Alike
<1>7. Commits(a, b, rec, e, n)
  BY <1>1, <1>5, <1>6, CommitAnswer DEF Stores
<1>8. Lifetime(m) => Lifetime(b)
  BY <1>4 DEF Lifetime
<1>9. Commits(d, m, rec, e, n)
  BY <1>3, <1>4, <1>7, <1>8 DEF Commits, Noted, Stamping, Stores
<1> QED BY <1>9 DEF e, n

\* A record of any type.
LEMMA CommitRecord ==
  ASSUME NEW d, NEW m, NEW rec \in Records, StateOK(d), StateOK(m), Alike(d, m),
         Fits(rec, d, m)
  PROVE  Commits(d, m, rec, Replayed(d, rec), After(m, rec))
<1>1. rec.type \in {"FunctionRegistered", "EvidenceIngested", "AuthorityWithdrawn",
                    "ReassignmentRecorded", "RequestRecorded", "EpochStarted"} \/ Stores(rec)
  BY RecordFields DEF Stores
<1> QED BY <1>1, CommitFunction, CommitEvidence, CommitWithdrawal, CommitStamp,
           CommitRefusal, CommitEpoch, CommitAssignment

\* A compaction: a start would find what memory has, in another order of eviction.
LEMMA CompactedOK ==
  ASSUME NEW m, StateOK(m), NEW d, d = Compacted(m)
  PROVE  /\ StateOK(d) /\ Alike(d, m) /\ d.epoch = m.epoch /\ d.stamps = m.stamps
         /\ d.sources = m.sources /\ d.idem = m.idem
<1> DEFINE a == [m EXCEPT !.order = <<>>]
           q == InOrder(DOMAIN m.idem)
<1>1. DOMAIN a = Fields /\ a.idem = m.idem
  BY DEF StateOK, StateTypes, Fields
<1>2. d = [a EXCEPT !.readable = FitsEvidence(a) /\ FitsRecords(a, scopes), !.order = q]
  BY <1>1 DEF Compacted, Decoded, Encoded
<1>3. /\ a.epoch = m.epoch /\ a.ordinal = m.ordinal /\ a.stamps = m.stamps
      /\ a.ev = m.ev /\ a.sources = m.sources /\ a.asg = m.asg /\ a.functions = m.functions
  BY DEF StateOK, StateTypes, Fields
<1> HIDE DEF a
<1>4. Lists(m.order, DOMAIN m.idem) /\ Len(m.order) <= MaxIdempotency
  BY DEF StateOK, Queued
<1>5. DOMAIN m.idem \subseteq Nat /\ IsFiniteSet(DOMAIN m.idem)
      /\ Cardinality(DOMAIN m.idem) = Len(m.order)
  BY <1>4, ListLength, RecoveryAssumption DEF StateOK, StateTypes
<1>6. Lists(q, DOMAIN m.idem) /\ Len(q) <= MaxIdempotency
  BY <1>4, <1>5, InOrderLists
<1> HIDE DEF q
<1>7. /\ DOMAIN d = Fields /\ d.order = q /\ d.idem = m.idem /\ d.epoch = m.epoch
      /\ d.ordinal = m.ordinal /\ d.stamps = m.stamps /\ d.ev = m.ev
      /\ d.sources = m.sources /\ d.asg = m.asg /\ d.functions = m.functions
  BY <1>1, <1>2, <1>3 DEF Fields
<1>8. StateTypes(d) /\ EvidenceSound(d)
  BY <1>7 DEF StateOK, StateTypes, EvidenceSound
<1>9. Queued(d)
  BY <1>6, <1>7 DEF Queued
<1>10. Alike(d, m)
  BY <1>7 DEF Alike
<1> QED BY <1>7, <1>8, <1>9, <1>10 DEF StateOK

-----------------------------------------------------------------------------
(* The records of an operation *)

LaterTypes == {"AssignmentStored", "EffectRecorded", "ReassignmentRecorded", "RequestRecorded"}

\* The transitions and stamps of an operation: they answer nobody.
Plain(p) == /\ p \in Seq(Records)
            /\ \A n \in 1..Len(p) : p[n].type \in LaterTypes /\ Asker(p[n]) = NoRequest

\* The records of an operation: only the first can be one of evidence, a function, a
\* withdrawal or an epoch, only the last can answer a request.
WellFormed(p) ==
  /\ p \in Seq(Records)
  /\ \A n \in 2..Len(p) : p[n].type \in LaterTypes
  /\ \A n \in 1..Len(p) - 1 : Asker(p[n]) = NoRequest

\* Nobody is answered.
Unasked(p) == \A n \in 1..Len(p) : Asker(p[n]) = NoRequest

\* One record, then transitions.
LEMMA FirstThenPlain ==
  ASSUME NEW rec \in Records, NEW one, one = <<rec>>, NEW q, Plain(q),
         Asker(rec) = NoRequest, NEW p, p = one \o q
  PROVE  WellFormed(p) /\ p # <<>> /\ p[1] = rec /\ Unasked(p)
<1>1. q \in Seq(Records) /\ Len(q) \in Nat /\ <<rec>> \in Seq(Records) /\ Len(<<rec>>) = 1
      /\ <<rec>>[1] = rec
  BY LenProperties DEF Plain
<1>2. /\ p \in Seq(Records) /\ Len(p) = 1 + Len(q)
      /\ \A n \in 1..1 + Len(q) : p[n] = IF n <= 1 THEN <<rec>>[n] ELSE q[n - 1]
  BY <1>1, ConcatProperties
<1>3. p[1] = rec /\ p # <<>>
  BY <1>1, <1>2
<1>4. ASSUME NEW n \in 2..Len(p)
      PROVE  p[n].type \in LaterTypes /\ Asker(p[n]) = NoRequest
  <2>1. n - 1 \in 1..Len(q) /\ p[n] = q[n - 1]
    BY <1>1, <1>2
  <2> QED BY <2>1 DEF Plain
<1>5. \A n \in 1..Len(p) : Asker(p[n]) = NoRequest
  <2>1. \A n \in 1..Len(p) : n = 1 \/ n \in 2..Len(p)
    BY <1>1, <1>2
  <2> QED BY <1>3, <1>4, <2>1
<1>6. \A n \in 1..Len(p) - 1 : n \in 1..Len(p)
  BY <1>1, <1>2
<1> QED BY <1>2, <1>3, <1>4, <1>5, <1>6 DEF WellFormed, Unasked

\* Transitions, then the record with the answer.
LEMMA PlainThenLast ==
  ASSUME NEW rec \in Records, NEW q, Plain(q), rec.type \in LaterTypes, NEW p,
         p = q \o <<rec>>
  PROVE  /\ WellFormed(p)
         /\ \A n \in 1..Len(p) : /\ p[n].type \in LaterTypes
                                 /\ p[n] = rec \/ Asker(p[n]) = NoRequest
<1>1. q \in Seq(Records) /\ Len(q) \in Nat /\ <<rec>> \in Seq(Records) /\ Len(<<rec>>) = 1
      /\ <<rec>>[1] = rec
  BY LenProperties DEF Plain
<1>2. /\ p \in Seq(Records) /\ Len(p) = Len(q) + 1
      /\ \A n \in 1..Len(q) + 1 : p[n] = IF n <= Len(q) THEN q[n] ELSE <<rec>>[n - Len(q)]
  BY <1>1, ConcatProperties
<1>3. ASSUME NEW n \in 1..Len(q)
      PROVE  p[n].type \in LaterTypes /\ Asker(p[n]) = NoRequest
  <2>1. p[n] = q[n]
    BY <1>1, <1>2
  <2> QED BY <2>1 DEF Plain
<1>4. p[Len(q) + 1] = rec
  <2>1. Len(q) + 1 \in 1..Len(q) + 1 /\ ~(Len(q) + 1 <= Len(q)) /\ (Len(q) + 1) - Len(q) = 1
    BY <1>1
  <2> QED BY <1>1, <1>2, <2>1
<1>5. \A n \in 1..Len(p) : n \in 1..Len(q) \/ n = Len(q) + 1
  BY <1>1, <1>2
<1>6. \A n \in 1..Len(p) - 1 : n \in 1..Len(q)
  BY <1>1, <1>2
<1>7. \A n \in 2..Len(p) : n \in 1..Len(p)
  BY <1>1, <1>2
<1> QED BY <1>2, <1>3, <1>4, <1>5, <1>6, <1>7 DEF WellFormed

\* Transitions and a stamp.
LEMMA PlainConcat ==
  ASSUME NEW p, NEW q, Plain(p), Plain(q)
  PROVE  Plain(p \o q)
<1>1. /\ p \in Seq(Records) /\ q \in Seq(Records) /\ Len(p) \in Nat /\ Len(q) \in Nat
  BY LenProperties DEF Plain
<1>2. /\ p \o q \in Seq(Records) /\ Len(p \o q) = Len(p) + Len(q)
      /\ \A n \in 1..Len(p) + Len(q) : (p \o q)[n] = IF n <= Len(p) THEN p[n] ELSE q[n - Len(p)]
  BY <1>1, ConcatProperties
<1>3. ASSUME NEW n \in 1..Len(p) + Len(q)
      PROVE  (p \o q)[n].type \in LaterTypes /\ Asker((p \o q)[n]) = NoRequest
  <2>1. CASE n <= Len(p)
    <3>1. n \in 1..Len(p) /\ (p \o q)[n] = p[n]
      BY <1>1, <1>2, <2>1
    <3> QED BY <3>1 DEF Plain
  <2>2. CASE ~(n <= Len(p))
    <3>1. n - Len(p) \in 1..Len(q) /\ (p \o q)[n] = q[n - Len(p)]
      BY <1>1, <1>2, <2>2
    <3> QED BY <3>1 DEF Plain
  <2> QED BY <2>1, <2>2
<1> QED BY <1>2, <1>3 DEF Plain

\* Records without transitions.
LEMMA PlainEmpty == Plain(<<>>)
BY DEF Plain

\* A transition of an assignment is one.
LEMMA MovedType ==
  ASSUME NEW r \in Assignment,
         NEW st \in {"Suspended", "Degraded", "Superseded", "Revoked", "Dispatched"}
  PROVE  Moved(r, st) \in Assignment
<1>1. TrimHistory(r.hist + 1) \in Nat
  BY RecoveryAssumption DEF TrimHistory, Lesser, Assignment
<1> QED BY <1>1 DEF Moved, Assignment

\* The records of a revalidation, a supersession or a suspension.
LEMMA TransitionsPlain ==
  ASSUME NEW s, StateOK(s), NEW to, DOMAIN to \subseteq DOMAIN s.asg,
         \A i \in DOMAIN to : to[i] \in {"Suspended", "Degraded", "Superseded"}
  PROVE  Plain(Transitions(s, to))
<1> DEFINE ids == InOrder(DOMAIN to)
           p == Transitions(s, to)
           Rec(n) == AssignmentStored(ids[n], Moved(s.asg[ids[n]], to[ids[n]]), NoRequest,
                                      NoReport)
<1>1. IsFiniteSet(DOMAIN to) /\ DOMAIN to \subseteq Nat
  BY FS_Subset DEF StateOK, StateTypes
<1>2. ids \in Seq(DOMAIN to) /\ Len(ids) \in Nat
  BY <1>1, InOrderLists, LenProperties DEF Lists
<1> HIDE DEF ids
<1>3. ASSUME NEW n \in 1..Len(ids)
      PROVE  /\ Rec(n) \in Records /\ Rec(n).type \in LaterTypes /\ Asker(Rec(n)) = NoRequest
  <2>1. ids[n] \in DOMAIN to
    BY <1>2
  <2>2. ids[n] \in Nat /\ s.asg[ids[n]] \in Assignment
    BY <1>1, <2>1 DEF StateOK, StateTypes
  <2>3. Moved(s.asg[ids[n]], to[ids[n]]) \in Assignment
    BY <2>1, <2>2, MovedType
  <2>4. Rec(n) \in [type : {"AssignmentStored", "EffectRecorded"}, id : Nat,
                    record : Assignment, request : Askers, fp : Prints]
    BY <2>2, <2>3 DEF AssignmentStored, Askers, Prints
  <2>5. Rec(n) \in Records
    BY <2>4 DEF Records
  <2> QED BY <2>5 DEF AssignmentStored, LaterTypes, Asker
<1>4. p = [n \in 1..Len(ids) |-> Rec(n)]
  BY DEF Transitions, ids
<1> HIDE DEF p
<1>5. p \in Seq(Records) /\ Len(p) = Len(ids)
  BY <1>2, <1>3, <1>4
<1>6. \A n \in 1..Len(p) : p[n] = Rec(n)
  BY <1>4, <1>5
<1> HIDE DEF Rec
<1>7. Plain(p)
  BY <1>3, <1>5, <1>6 DEF Plain
<1> QED BY <1>7 DEF p

-----------------------------------------------------------------------------
(* The invariant *)

Starting == pending # <<>> /\ pending[1].type = "EpochStarted"

\* A record that answers a request has the digest of what was asked, if that can be
\* told.
Digested(rec, asked) ==
  Asker(rec) # NoRequest /\ (Reproduced(asked[Asker(rec)]) \/ rec.type = "RequestRecorded") =>
    rec.fp = asked[Asker(rec)]

\* What is still to be committed fits, and the request it answers is not remembered.
PendingOK ==
  /\ WellFormed(pending)
  /\ \A n \in 1..Len(pending) : /\ Asker(pending[n]) \notin DOMAIN mem.idem
                                /\ Digested(pending[n], sent)
  /\ pending # <<>> => Fits(pending[1], disk, mem)

\* A running coordinator: the disk is like memory, and the evidence of this epoch is
\* what is current once the epoch is durable.
Running ==
  /\ Alike(disk, mem) /\ AtMost(mem.stamps, disk.stamps)
  /\ Starting => Earlier(mem)
  /\ ~Starting => disk.epoch = mem.epoch /\ Lifetime(mem)

\* Request id is found in s, with the digest of what was asked, if that can be told.
Finds(s, id, asked) ==
  /\ id \in DOMAIN s.idem
  /\ Reproduced(asked[id]) \/ s.idem[id].outcome = "Refused" => s.idem[id].fp = asked[id]

\* A request that was answered and not forgotten is remembered.
Remembers ==
  /\ answered \in [RequestIds -> Nat]
  /\ \A id \in RequestIds \ forgotten :
       /\ answered[id] <= 1
       /\ answered[id] # 0 => /\ Finds(disk, id, sent)
                              /\ phase = "up" => Finds(mem, id, sent)

\* The scopes of the keys.
KeyScopes == {k[1] : k \in Keys}

RecoveryInv ==
  /\ phase \in {"down", "up"} /\ (phase = "down" => pending = <<>>)
  /\ StateOK(mem) /\ StateOK(disk)
  /\ sent \in [RequestIds -> Prints] /\ scopes \subseteq KeyScopes
  /\ PendingOK /\ (phase = "up" => Running) /\ Remembers

\* The store and the process before the first start.
LEMMA InitInv == Init => RecoveryInv
<1> SUFFICES ASSUME Init
             PROVE  RecoveryInv
  OBVIOUS
<1>1. StateOK(mem) /\ StateOK(disk)
  BY EmptyOK DEF Init
<1>2. PendingOK
  BY DEF Init, PendingOK, WellFormed
<1>3. Remembers
  BY DEF Init, Remembers
<1>4. sent \in [RequestIds -> Prints] /\ scopes \subseteq KeyScopes
  BY DEF Init, Prints
<1> QED BY <1>1, <1>2, <1>3, <1>4 DEF RecoveryInv, Init

\* The largest of finitely many numbers.
LEMMA LargestNat ==
  ASSUME NEW S, S \subseteq Nat, IsFiniteSet(S), S # {}
  PROVE  \E n \in S : \A m \in S : m <= n
<1> DEFINE q == InOrder(S)
           c == Cardinality(S)
<1>1. c \in Nat /\ c # 0
  BY FS_CardinalityType, FS_EmptySet
<1>2. q \in [1..c -> S] /\ Increasing(q, c)
  BY SortFinite DEF Sortable, Increasing, InOrder
<1>3. \A x \in S : \E i \in 1..c : q[i] = x
  BY InOrderLists DEF Lists
<1> HIDE DEF q, c
<1>4. c \in 1..c /\ q[c] \in S
  BY <1>1, <1>2
<1>5. ASSUME NEW m \in S
      PROVE  m <= q[c]
  <2>1. PICK i \in 1..c : q[i] = m
    BY <1>3
  <2>2. i = c \/ i < c
    BY <1>1
  <2>3. q[i] \in Nat /\ q[c] \in Nat
    BY <1>2, <1>4
  <2>4. i < c => q[i] < q[c]
    BY <1>2, <1>4 DEF Increasing
  <2> QED BY <2>1, <2>2, <2>3, <2>4
<1> QED BY <1>4, <1>5

\* The state a start begins with.
LEMMA RebuiltOK ==
  ASSUME NEW d, StateOK(d), NEW m, m = [Rebuilt(d) EXCEPT !.epoch = d.epoch + 1]
  PROVE  /\ StateOK(m) /\ Alike(d, m) /\ m.epoch = d.epoch + 1 /\ m.stamps = d.stamps
         /\ m.idem = d.idem /\ Earlier(m)
<1> DEFINE S == LiveIds(d) \cup {d.ordinal}
           o == CHOOSE n \in S : \A k \in S : k <= n
<1>1. S \subseteq Nat /\ IsFiniteSet(S) /\ S # {}
  <2>1. LiveIds(d) \subseteq DOMAIN d.asg /\ DOMAIN d.asg \subseteq Nat /\ d.ordinal \in Nat
        /\ IsFiniteSet(DOMAIN d.asg)
    BY DEF LiveIds, StateOK, StateTypes
  <2>2. IsFiniteSet(LiveIds(d))
    BY <2>1, FS_Subset
  <2> QED BY <2>1, <2>2, FS_AddElement
<1>2. o \in Nat
  BY <1>1, LargestNat
<1>3. m = [[d EXCEPT !.ordinal = o] EXCEPT !.epoch = d.epoch + 1]
  BY DEF Rebuilt, StateOK, StateTypes, Fields
<1> HIDE DEF o
<1>4. /\ DOMAIN m = Fields /\ m.epoch = d.epoch + 1 /\ m.ordinal = o /\ m.ev = d.ev
      /\ m.sources = d.sources /\ m.asg = d.asg /\ m.stamps = d.stamps
      /\ m.idem = d.idem /\ m.order = d.order /\ m.functions = d.functions
  BY <1>3 DEF StateOK, StateTypes, Fields
<1>5. /\ d.epoch \in Nat /\ d.stamps \in [Keys -> Nat] /\ d.epoch <= d.epoch + 1
      /\ d.epoch + 1 \in Nat
  BY DEF StateOK, StateTypes
<1>6. StateOK(m)
  BY <1>2, <1>4, <1>5, SameOK
<1>7. Alike(d, m)
  BY <1>4 DEF Alike
<1>8. Earlier(m)
  <2> SUFFICES ASSUME NEW k \in Domains \X Slots, d.ev[k].gen # 0
               PROVE  d.ev[k].ep < d.epoch + 1
    BY <1>4 DEF Earlier
  <2>1. d.ev[k].ep \in Nat /\ d.ev[k].ep <= d.epoch
    BY DEF StateOK, StateTypes, EvidenceSound, Items
  <2> QED BY <1>5, <2>1
<1> QED BY <1>4, <1>6, <1>7, <1>8

\* Fabric::start.
LEMMA StartKeeps == RecoveryInv /\ Start => RecoveryInv'
<1> SUFFICES ASSUME RecoveryInv, Start
             PROVE  RecoveryInv'
  OBVIOUS
<1> DEFINE live == {j \in LiveIds(disk) : disk.asg[j].st # "Suspended"}
           to == [i \in live |-> "Suspended"]
           rec == EpochStarted(disk.epoch + 1)
<1>1. /\ phase = "down" /\ phase' = "up"
      /\ mem' = [Rebuilt(disk) EXCEPT !.epoch = disk.epoch + 1]
      /\ pending' = <<rec>> \o Transitions(disk, to) /\ scopes' = LiveScopes(disk)
      /\ disk' = disk /\ answered' = answered /\ forgotten' = forgotten /\ sent' = sent
  BY DEF Start
<1>2. /\ StateOK(mem') /\ Alike(disk, mem') /\ mem'.epoch = disk.epoch + 1
      /\ mem'.stamps = disk.stamps /\ mem'.idem = disk.idem /\ Earlier(mem')
  BY <1>1, RebuiltOK DEF RecoveryInv
<1>3. /\ disk.epoch \in Nat /\ disk.stamps \in [Keys -> Nat]
      /\ DOMAIN disk.idem \subseteq RequestIds
  BY DEF RecoveryInv, StateOK, StateTypes
<1>4. Plain(Transitions(disk, to))
  <2>1. DOMAIN to \subseteq DOMAIN disk.asg
    BY DEF LiveIds
  <2>2. \A i \in DOMAIN to : to[i] \in {"Suspended", "Degraded", "Superseded"}
    OBVIOUS
  <2> HIDE DEF to
  <2> QED BY <2>1, <2>2, TransitionsPlain DEF RecoveryInv
<1>5. rec \in Records /\ Asker(rec) = NoRequest /\ rec.type = "EpochStarted"
      /\ rec.epoch = disk.epoch + 1
  BY <1>3 DEF EpochStarted, Records, Asker
<1> HIDE DEF rec, to, live
<1>6. WellFormed(pending') /\ pending' # <<>> /\ pending'[1] = rec /\ Unasked(pending')
  <2> DEFINE q == Transitions(disk, to)
             p == pending'
             one == <<rec>>
  <2>1. p = one \o q /\ Plain(q) /\ one = <<rec>>
    BY <1>1, <1>4
  <2> HIDE DEF p, q, one
  <2>2. WellFormed(p) /\ p # <<>> /\ p[1] = rec /\ Unasked(p)
    BY <1>5, <2>1, FirstThenPlain
  <2> QED BY <2>2 DEF p
<1>7. Fits(rec, disk, mem')
  BY <1>2, <1>3, <1>5 DEF Fits
<1>8. NoRequest \notin DOMAIN disk.idem
  BY <1>3, RecoveryAssumption DEF NoRequest
<1>9. PendingOK'
  BY <1>1, <1>2, <1>6, <1>7, <1>8 DEF PendingOK, Unasked, Digested
<1>10. Running'
  <2>1. AtMost(disk.stamps, disk.stamps)
    BY <1>3 DEF AtMost
  <2> QED BY <1>1, <1>2, <1>3, <1>5, <1>6, <2>1 DEF Running, Starting
<1>11. Remembers'
  BY <1>1, <1>2 DEF RecoveryInv, Remembers, Finds
<1>12. scopes' \subseteq KeyScopes
  <2>1. \A i \in LiveIds(disk) : disk.asg[i].key \in Keys
    BY DEF LiveIds, RecoveryInv, StateOK, StateTypes, Assignment
  <2> QED BY <1>1, <2>1 DEF LiveScopes, KeyScopes
<1> QED BY <1>1, <1>2, <1>9, <1>10, <1>11, <1>12 DEF RecoveryInv

\* The process dies.
LEMMA CrashKeeps == RecoveryInv /\ Crash => RecoveryInv'
<1> SUFFICES ASSUME RecoveryInv, Crash
             PROVE  RecoveryInv'
  OBVIOUS
<1>1. /\ phase' = "down" /\ mem' = Empty /\ pending' = <<>> /\ scopes' = {}
      /\ disk' = disk /\ answered' = answered /\ forgotten' = forgotten /\ sent' = sent
  BY DEF Crash
<1>2. PendingOK'
  BY <1>1 DEF PendingOK, WellFormed
<1>3. Remembers'
  BY <1>1 DEF RecoveryInv, Remembers
<1> QED BY <1>1, <1>2, <1>3, EmptyOK DEF RecoveryInv

\* Fabric::compact.
LEMMA CompactKeeps == RecoveryInv /\ Compact => RecoveryInv'
<1> SUFFICES ASSUME RecoveryInv, Compact
             PROVE  RecoveryInv'
  OBVIOUS
<1>1. /\ phase = "up" /\ pending = <<>> /\ disk' = Compacted(mem)
      /\ forgotten' = forgotten \cup (DOMAIN disk.idem \ DOMAIN mem.idem)
      /\ phase' = phase /\ mem' = mem /\ pending' = pending /\ answered' = answered
      /\ sent' = sent /\ scopes' = scopes
  BY DEF Compact, Idle
<1>2. /\ StateOK(disk') /\ Alike(disk', mem) /\ disk'.epoch = mem.epoch
      /\ disk'.stamps = mem.stamps /\ disk'.idem = mem.idem
  BY <1>1, CompactedOK DEF RecoveryInv
<1>3. PendingOK'
  BY <1>1 DEF PendingOK, WellFormed
<1>4. AtMost(mem.stamps, mem.stamps)
  BY DEF RecoveryInv, StateOK, StateTypes, AtMost
<1>5. Lifetime(mem)
  BY <1>1 DEF RecoveryInv, Running, Starting
<1>6. Running'
  BY <1>1, <1>2, <1>4, <1>5 DEF Running, Starting
<1>7. Remembers'
  BY <1>1, <1>2 DEF RecoveryInv, Remembers, Finds
<1> QED BY <1>1, <1>2, <1>3, <1>6, <1>7 DEF RecoveryInv

\* The state in memory just before a commit: note_reassignment has stamped it.
LEMMA BeforeOK ==
  ASSUME NEW s, StateOK(s), NEW rec \in Records, NEW m, m = Before(s, rec)
  PROVE  /\ StateOK(m) /\ m.epoch = s.epoch /\ m.ev = s.ev /\ m.sources = s.sources
         /\ m.asg = s.asg /\ m.functions = s.functions /\ m.idem = s.idem
         /\ m.stamps \in [Keys -> Nat] /\ AtMost(m.stamps, Stamping(s.stamps, rec))
<1>1. CASE rec.type # "ReassignmentRecorded"
  <2>1. m = s
    BY <1>1 DEF Before
  <2> QED BY <1>1, <2>1 DEF StateOK, StateTypes, AtMost, Stamping
<1>2. CASE rec.type = "ReassignmentRecorded"
  <2> DEFINE v == Lesser(s.stamps[rec.key] + 1, StampLimit)
             n == [s.stamps EXCEPT ![rec.key] = v]
  <2>2. /\ s.stamps \in [Keys -> Nat] /\ s.epoch \in Nat /\ s.ordinal \in Nat
        /\ s.epoch <= s.epoch /\ rec.key \in Keys
    BY <1>2, RecordFields DEF StateOK, StateTypes
  <2>1. m = [s EXCEPT !.stamps = n]
    BY <1>2, <2>2 DEF Before, StateOK, StateTypes, Fields
  <2>0. v \in Nat /\ v <= s.stamps[rec.key] + 1
    BY <2>2, RecoveryAssumption DEF Lesser
  <2> HIDE DEF v
  <2>3. n \in [Keys -> Nat] /\ AtMost(n, Stamping(s.stamps, rec))
    <3>1. \A k \in Keys : n[k] = IF k = rec.key THEN v ELSE s.stamps[k]
      BY <2>2
    <3>2. \A k \in Keys : Stamping(s.stamps, rec)[k] = IF k = rec.key THEN s.stamps[k] + 1
                                                                      ELSE s.stamps[k]
      BY <1>2, <2>2, StampingFacts
    <3>3. \A k \in Keys : s.stamps[k] <= s.stamps[k]
      BY <2>2
    <3>4. AtMost(n, Stamping(s.stamps, rec))
      BY <2>0, <3>1, <3>2, <3>3 DEF AtMost
    <3> QED BY <2>0, <2>2, <3>4
  <2> HIDE DEF n
  <2>4. /\ DOMAIN m = Fields /\ m.epoch = s.epoch /\ m.ordinal = s.ordinal /\ m.ev = s.ev
        /\ m.sources = s.sources /\ m.asg = s.asg /\ m.stamps = n
        /\ m.idem = s.idem /\ m.order = s.order /\ m.functions = s.functions
    BY <2>1 DEF StateOK, StateTypes, Fields
  <2>5. StateOK(m)
    BY <2>2, <2>3, <2>4, SameOK
  <2> QED BY <1>2, <2>3, <2>4, <2>5
<1> QED BY <1>1, <1>2

\* The request of a record.
LEMMA AskerType ==
  ASSUME NEW rec \in Records
  PROVE  Asker(rec) \in Askers
BY RecordFields DEF Asker, Askers, Stores

\* The records that are left after one was committed.
LEMMA WellFormedTail ==
  ASSUME NEW p, WellFormed(p), p # <<>>
  PROVE  /\ Head(p) = p[1] /\ p[1] \in Records /\ WellFormed(Tail(p))
         /\ Len(p) \in Nat /\ Len(Tail(p)) = Len(p) - 1
         /\ \A n \in 1..Len(Tail(p)) : /\ n + 1 \in 1..Len(p) /\ Tail(p)[n] = p[n + 1]
                                       /\ Tail(p)[n].type \in LaterTypes
         /\ Tail(p) # <<>> => Asker(p[1]) = NoRequest /\ 1 \in 1..Len(Tail(p))
<1> DEFINE t == Tail(p)
<1>1. p \in Seq(Records) /\ Len(p) \in Nat /\ Len(p) # 0
  BY LenProperties DEF WellFormed
<1>2. /\ Head(p) = p[1] /\ p[1] \in Records /\ t \in Seq(Records) /\ Len(t) = Len(p) - 1
      /\ \A n \in 1..Len(t) : t[n] = p[n + 1]
  BY <1>1, HeadTailProperties
<1> HIDE DEF t
<1>3. ASSUME NEW n \in 1..Len(t)
      PROVE  n + 1 \in 1..Len(p) /\ n + 1 \in 2..Len(p) /\ t[n].type \in LaterTypes
  <2>1. n + 1 \in 1..Len(p) /\ n + 1 \in 2..Len(p)
    BY <1>1, <1>2
  <2> QED BY <1>2, <2>1 DEF WellFormed
<1>4. WellFormed(t)
  <2>1. \A n \in 2..Len(t) : n \in 1..Len(t)
    BY <1>1, <1>2
  <2>2. ASSUME NEW n \in 1..Len(t) - 1
        PROVE  Asker(t[n]) = NoRequest
    <3>1. n \in 1..Len(t) /\ n + 1 \in 1..Len(p) - 1
      BY <1>1, <1>2
    <3> QED BY <1>2, <3>1 DEF WellFormed
  <2> QED BY <1>2, <1>3, <2>1, <2>2 DEF WellFormed
<1>5. t # <<>> => Asker(p[1]) = NoRequest /\ 1 \in 1..Len(t)
  <2> SUFFICES ASSUME t # <<>>
               PROVE  Asker(p[1]) = NoRequest /\ 1 \in 1..Len(t)
    OBVIOUS
  <2>1. Len(t) \in Nat /\ Len(t) # 0
    BY <1>2, LenProperties
  <2>2. 1 \in 1..Len(t) /\ 1 \in 1..Len(p) - 1
    BY <1>1, <1>2, <2>1
  <2> QED BY <2>2 DEF WellFormed
<1> QED BY <1>1, <1>2, <1>3, <1>4, <1>5 DEF t

\* What a commit does, with or without the compaction of a full journal: the record
\* is applied to a state that is like the one in memory.
LEMMA CommitFacts ==
  ASSUME RecoveryInv, Commit
  PROVE  LET rec == pending[1] IN
         /\ phase = "up" /\ phase' = "up" /\ pending # <<>> /\ rec \in Records
         /\ pending' = Tail(pending)
         /\ \E d, m :
              /\ Commits(d, m, rec, disk', mem') /\ Fits(rec, d, m)
              /\ StateOK(d) /\ disk' = Replayed(d, rec)
              /\ m.epoch = mem.epoch /\ m.ev = mem.ev /\ m.sources = mem.sources
              /\ m.idem = mem.idem /\ d.idem \in {disk.idem, mem.idem}
              /\ d.epoch \in {disk.epoch, mem.epoch}
              /\ \A k \in Sources \X Domains : /\ d.sources[k].last = mem.sources[k].last
                                               /\ d.sources[k].digest = mem.sources[k].digest
              /\ AtMost(m.stamps, Stamping(d.stamps, rec))
<1> DEFINE rec == pending[1]
           m == Before(mem, rec)
<1>1. phase = "up" /\ pending # <<>> /\ Running /\ WellFormed(pending)
  BY DEF Commit, RecoveryInv, PendingOK
<1>2. Head(pending) = rec /\ rec \in Records
  BY <1>1, WellFormedTail
<1>3. PICK d \in {disk, Compacted(m)} : disk' = Replayed(d, rec)
  BY <1>2 DEF Commit
<1>4. mem' = After(m, rec) /\ phase' = phase /\ pending' = Tail(pending)
  BY <1>2 DEF Commit
<1>5. /\ StateOK(m) /\ m.epoch = mem.epoch /\ m.ev = mem.ev /\ m.sources = mem.sources
      /\ m.asg = mem.asg /\ m.functions = mem.functions /\ m.idem = mem.idem
      /\ m.stamps \in [Keys -> Nat] /\ AtMost(m.stamps, Stamping(mem.stamps, rec))
  <2>1. StateOK(mem)
    BY DEF RecoveryInv
  <2>2. m = Before(mem, rec) /\ rec \in Records
    BY <1>2
  <2> HIDE DEF m, rec
  <2> QED BY ONLY <2>1, <2>2, BeforeOK
<1>6. Alike(disk, m)
  BY <1>1, <1>5 DEF Running, Alike
<1>7. Fits(rec, disk, m)
  <2>1. Fits(rec, disk, mem)
    BY <1>1 DEF RecoveryInv, PendingOK
  <2> QED BY <1>5, <2>1 DEF Fits
<1> HIDE DEF m
<1>8. /\ StateOK(d) /\ Alike(d, m) /\ Fits(rec, d, m) /\ d.epoch \in {disk.epoch, mem.epoch}
      /\ d.idem \in {disk.idem, mem.idem} /\ AtMost(m.stamps, Stamping(d.stamps, rec))
  <2>1. CASE d = disk
    <3>1. /\ mem.stamps \in [Keys -> Nat] /\ disk.stamps \in [Keys -> Nat]
          /\ AtMost(mem.stamps, disk.stamps)
      BY <1>1 DEF RecoveryInv, StateOK, StateTypes, Running
    <3>2. StateOK(disk)
      BY DEF RecoveryInv
    <3>3. AtMost(m.stamps, Stamping(disk.stamps, rec))
      <4> DEFINE f == Stamping(mem.stamps, rec)
                 g == Stamping(disk.stamps, rec)
      <4>1. AtMost(m.stamps, f) /\ m.stamps \in [Keys -> Nat]
        BY <1>5
      <4>2. f \in [Keys -> Nat] /\ g \in [Keys -> Nat]
        BY <1>2, <3>1, StampingFacts
      <4>3. AtMost(f, g)
        BY <1>2, <3>1, StampingFacts DEF AtMost
      <4> HIDE DEF f, g
      <4>4. AtMost(m.stamps, g)
        BY <4>1, <4>2, <4>3 DEF AtMost
      <4> QED BY <4>4 DEF g
    <3> QED BY <1>5, <1>6, <1>7, <2>1, <3>1, <3>2, <3>3
  <2>2. CASE d = Compacted(m)
    <3>1. /\ StateOK(d) /\ Alike(d, m) /\ d.epoch = m.epoch /\ d.stamps = m.stamps
          /\ d.idem = m.idem
      BY <1>5, <2>2, CompactedOK
    <3>2. m.epoch \in Nat /\ m.epoch <= m.epoch
      BY <1>5 DEF StateOK, StateTypes
    <3>3. Fits(rec, d, m)
      BY <1>7, <3>1, <3>2 DEF Fits
    <3>4. AtMost(m.stamps, Stamping(m.stamps, rec))
      BY <1>2, <1>5, StampingFacts DEF AtMost
    <3> QED BY <1>5, <3>1, <3>3, <3>4
  <2> QED BY <2>1, <2>2
<1>9. Commits(d, m, rec, disk', mem')
  BY <1>2, <1>3, <1>4, <1>5, <1>8, CommitRecord
<1>10. \A k \in Sources \X Domains : /\ d.sources[k].last = mem.sources[k].last
                                     /\ d.sources[k].digest = mem.sources[k].digest
  BY <1>5, <1>8 DEF Alike
<1> HIDE DEF rec
<1>11. \E dd, mm :
              /\ Commits(dd, mm, rec, disk', mem') /\ Fits(rec, dd, mm)
              /\ StateOK(dd) /\ disk' = Replayed(dd, rec)
              /\ mm.epoch = mem.epoch /\ mm.ev = mem.ev /\ mm.sources = mem.sources
              /\ mm.idem = mem.idem /\ dd.idem \in {disk.idem, mem.idem}
              /\ dd.epoch \in {disk.epoch, mem.epoch}
              /\ \A k \in Sources \X Domains : /\ dd.sources[k].last = mem.sources[k].last
                                               /\ dd.sources[k].digest = mem.sources[k].digest
              /\ AtMost(mm.stamps, Stamping(dd.stamps, rec))
  <2> WITNESS d, m
  <2> QED BY <1>3, <1>5, <1>8, <1>9, <1>10 DEF rec
<1> QED BY <1>1, <1>2, <1>4, <1>11 DEF rec

\* Impl::commit.
LEMMA CommitKeeps == RecoveryInv /\ Commit => RecoveryInv'
<1> SUFFICES ASSUME RecoveryInv, Commit
             PROVE  RecoveryInv'
  OBVIOUS
<1> DEFINE rec == pending[1]
           id == Asker(rec)
<1>1. /\ phase = "up" /\ phase' = "up" /\ pending # <<>> /\ rec \in Records
      /\ pending' = Tail(pending)
  BY CommitFacts
<1>2. PICK d, m :
        /\ Commits(d, m, rec, disk', mem') /\ Fits(rec, d, m)
        /\ m.epoch = mem.epoch /\ m.ev = mem.ev /\ m.sources = mem.sources
        /\ m.idem = mem.idem /\ d.idem \in {disk.idem, mem.idem}
        /\ d.epoch \in {disk.epoch, mem.epoch}
        /\ AtMost(m.stamps, Stamping(d.stamps, rec))
  BY CommitFacts
<1>3. WellFormed(pending) /\ Running /\ Remembers
      /\ \A n \in 1..Len(pending) : /\ Asker(pending[n]) \notin DOMAIN mem.idem
                                    /\ Digested(pending[n], sent)
  BY <1>1 DEF RecoveryInv, PendingOK
<1>4. /\ Head(pending) = rec /\ WellFormed(pending') /\ Len(pending) \in Nat
      /\ \A n \in 1..Len(pending') : /\ n + 1 \in 1..Len(pending)
                                     /\ pending'[n] = pending[n + 1]
                                     /\ pending'[n].type \in LaterTypes
      /\ pending' # <<>> => id = NoRequest /\ 1 \in 1..Len(pending')
  BY <1>1, <1>3, WellFormedTail
<1>5. /\ answered' = (IF id = NoRequest THEN answered ELSE [answered EXCEPT ![id] = @ + 1])
      /\ forgotten' = forgotten \cup (DOMAIN mem.idem \ DOMAIN mem'.idem)
                                \cup (DOMAIN disk.idem \ DOMAIN disk'.idem)
      /\ sent' = sent /\ scopes' = scopes \cup Touched(rec)
  BY <1>4 DEF Commit
<1>6. ~Starting'
  BY <1>4 DEF Starting, LaterTypes
<1>7. PendingOK'
  <2>1. ASSUME NEW n \in 1..Len(pending')
        PROVE  Asker(pending'[n]) \notin DOMAIN mem'.idem /\ Digested(pending'[n], sent')
    <3>1. pending' # <<>>
      BY <1>4, <2>1
    <3>2. mem'.idem = mem.idem
      BY <1>2, <1>4, <3>1 DEF Commits
    <3> QED BY <1>3, <1>4, <1>5, <3>2
  <2>2. pending' # <<>> => Fits(pending'[1], disk', mem')
    BY <1>4 DEF Fits, LaterTypes
  <2> QED BY <1>4, <2>1, <2>2 DEF PendingOK
<1>8. Running'
  <2>1. disk'.epoch = mem'.epoch /\ Lifetime(mem')
    <3>1. CASE rec.type = "EpochStarted"
      <4>1. Earlier(mem)
        BY <1>1, <1>3, <3>1 DEF Running, Starting
      <4>2. Earlier(m)
        BY <1>2, <4>1 DEF Earlier
      <4> QED BY <1>2, <3>1, <4>2 DEF Commits, Fits
    <3>2. CASE rec.type # "EpochStarted"
      <4>1. disk.epoch = mem.epoch /\ Lifetime(mem)
        BY <1>1, <1>3, <3>2 DEF Running, Starting
      <4>2. Lifetime(m)
        BY <1>2, <4>1 DEF Lifetime
      <4> QED BY <1>2, <3>2, <4>1, <4>2 DEF Commits
    <3> QED BY <3>1, <3>2
  <2>2. Alike(disk', mem') /\ AtMost(mem'.stamps, disk'.stamps)
    BY <1>2 DEF Commits
  <2> QED BY <1>6, <2>1, <2>2 DEF Running
<1>9. Remembers'
  <2>1. id \in Askers /\ id \notin DOMAIN mem.idem /\ Digested(rec, sent)
    <3>1. 1 \in 1..Len(pending)
      BY <1>1, <1>4 DEF WellFormed
    <3> QED BY <1>1, <1>3, <3>1, AskerType
  <2>2. answered' \in [RequestIds -> Nat]
    BY <1>3, <1>5, <2>1 DEF Remembers, Askers
  <2>3. ASSUME NEW j \in RequestIds \ forgotten'
        PROVE  /\ answered'[j] <= 1
               /\ answered'[j] # 0 => Finds(disk', j, sent) /\ Finds(mem', j, sent)
    <3>1. /\ j \in RequestIds /\ j \notin forgotten
          /\ j \in DOMAIN mem.idem => j \in DOMAIN mem'.idem
          /\ j \in DOMAIN disk.idem => j \in DOMAIN disk'.idem
      BY <1>5, <2>3
    <3>2. /\ answered[j] \in Nat /\ answered[j] <= 1
          /\ answered[j] # 0 => Finds(disk, j, sent) /\ Finds(mem, j, sent)
      BY <1>1, <1>3, <3>1 DEF Remembers
    <3>3. CASE j # id
      <4>1. answered'[j] = answered[j]
        BY <1>3, <1>5, <3>1, <3>3 DEF Remembers
      <4>2. ASSUME answered[j] # 0
            PROVE  Finds(disk', j, sent) /\ Finds(mem', j, sent)
        <5>1. /\ j \in DOMAIN disk'.idem /\ j \in DOMAIN mem'.idem
              /\ Finds(disk, j, sent) /\ Finds(mem, j, sent)
          BY <3>1, <3>2, <4>2 DEF Finds
        <5>2. disk'.idem[j] = d.idem[j] /\ mem'.idem[j] = mem.idem[j]
          BY <1>2, <3>3, <5>1 DEF Commits, Noted
        <5>3. disk'.idem[j] \in {disk.idem[j], mem.idem[j]}
          BY <1>2, <5>2
        <5> QED BY <5>1, <5>2, <5>3 DEF Finds
      <4> QED BY <3>1, <3>2, <4>1, <4>2
    <3>4. CASE j = id
      <4>1. answered[j] = 0 /\ id # NoRequest
        BY <2>1, <3>1, <3>2, <3>4, RecoveryAssumption DEF NoRequest, Finds
      <4>2. answered'[j] = 1
        BY <1>3, <1>5, <3>1, <3>4, <4>1 DEF Remembers
      <4>3. Noted(d, rec, disk') /\ Noted(m, rec, mem')
        BY <1>2, <4>1 DEF Commits
      <4>4. Entry(rec).fp = rec.fp /\ (Entry(rec).outcome = "Refused" => ~Stores(rec))
        BY DEF Entry, Served, Refused
      <4>5. ~Stores(rec) => rec.type = "RequestRecorded"
        BY <4>1 DEF Asker, Stores
      <4>6. Finds(disk', j, sent) /\ Finds(mem', j, sent)
        BY <2>1, <3>4, <4>1, <4>3, <4>4, <4>5 DEF Noted, Finds, Digested
      <4> QED BY <4>2, <4>6
    <3> QED BY <3>3, <3>4
  <2> QED BY <1>1, <1>5, <2>2, <2>3 DEF Remembers
<1>10. scopes' \subseteq KeyScopes
  <2>1. Stores(rec) => rec.record.key \in Keys
    BY <1>1, RecordFields DEF Assignment
  <2>2. Touched(rec) \subseteq KeyScopes
    BY <2>1 DEF Touched, Stores, KeyScopes
  <2> QED BY <1>5, <2>2 DEF RecoveryInv
<1>11. sent' \in [RequestIds -> Prints]
  BY <1>5 DEF RecoveryInv
<1> QED BY <1>1, <1>2, <1>7, <1>8, <1>9, <1>10, <1>11 DEF RecoveryInv, Commits

\* An operation that begins changes no more of memory than the ordinal.
SameButOrdinal(n, m) == n = m \/ \E o \in Nat : n = [m EXCEPT !.ordinal = o]

\* The state when a new assignment has been given its number.
LEMMA OrdinalOK ==
  ASSUME NEW m, StateOK(m), NEW n, SameButOrdinal(n, m)
  PROVE  /\ StateOK(n) /\ n.epoch = m.epoch /\ n.ev = m.ev /\ n.sources = m.sources
         /\ n.asg = m.asg /\ n.functions = m.functions /\ n.idem = m.idem
         /\ n.stamps = m.stamps
<1>1. CASE n = m
  BY <1>1
<1>2. CASE n # m
  <2>1. PICK o \in Nat : n = [m EXCEPT !.ordinal = o]
    BY <1>2 DEF SameButOrdinal
  <2>2. m.stamps \in [Keys -> Nat] /\ m.epoch \in Nat /\ m.epoch <= m.epoch
    BY DEF StateOK, StateTypes
  <2>3. /\ DOMAIN n = Fields /\ n.epoch = m.epoch /\ n.ordinal = o /\ n.ev = m.ev
        /\ n.sources = m.sources /\ n.asg = m.asg /\ n.stamps = m.stamps
        /\ n.idem = m.idem /\ n.order = m.order /\ n.functions = m.functions
    BY <2>1 DEF StateOK, StateTypes, Fields
  <2> QED BY <2>2, <2>3, SameOK
<1> QED BY <1>1, <1>2

\* The records an operation may begin to write.
Beginning(p, asked) ==
  /\ WellFormed(p)
  /\ \A n \in 1..Len(p) : Asker(p[n]) \notin DOMAIN mem.idem /\ Digested(p[n], asked)
  /\ p # <<>> => p[1].type # "EpochStarted" /\ Fits(p[1], disk, mem)

\* It may be for a request that is not remembered.
Asked(asked) ==
  /\ asked \in [RequestIds -> Prints]
  /\ \A id \in DOMAIN mem.idem : asked[id] = sent[id]

\* Nothing new is asked.
LEMMA AskedNothing == RecoveryInv /\ sent' = sent => Asked(sent')
BY DEF RecoveryInv, Asked

\* A request that is not remembered is acted on.
LEMMA AskedAnew ==
  ASSUME RecoveryInv, NEW id \in RequestIds, NEW op \in Operations, id \notin DOMAIN mem.idem,
         sent' = [sent EXCEPT ![id] = op]
  PROVE  Asked(sent') /\ sent'[id] = op
BY RecoveryAssumption DEF RecoveryInv, Asked, Prints

\* An operation begins.
LEMMA BeginKeeps ==
  ASSUME RecoveryInv, NEW p, Begin(p), Asked(sent'), Beginning(p, sent'),
         SameButOrdinal(mem', mem)
  PROVE  RecoveryInv'
<1>1. /\ phase = "up" /\ pending = <<>> /\ pending' = p /\ phase' = phase /\ disk' = disk
      /\ answered' = answered /\ forgotten' = forgotten /\ scopes' = scopes
  BY DEF Begin, Idle
<1>2. /\ StateOK(mem') /\ mem'.epoch = mem.epoch /\ mem'.ev = mem.ev
      /\ mem'.sources = mem.sources /\ mem'.asg = mem.asg
      /\ mem'.functions = mem.functions /\ mem'.idem = mem.idem
      /\ mem'.stamps = mem.stamps
  BY OrdinalOK DEF RecoveryInv
<1>3. ~Starting /\ ~Starting'
  BY <1>1 DEF Starting, Beginning
<1>4. PendingOK'
  <2>1. p # <<>> => Fits(p[1], disk, mem')
    BY <1>2 DEF Beginning, Fits
  <2> QED BY <1>1, <1>2, <2>1 DEF Beginning, PendingOK
<1>5. Running'
  BY <1>1, <1>2, <1>3 DEF RecoveryInv, Running, Alike, Lifetime
<1>6. Remembers'
  <2>1. ASSUME NEW id \in RequestIds \ forgotten
        PROVE  /\ answered[id] <= 1
               /\ answered[id] # 0 => Finds(disk, id, sent') /\ Finds(mem', id, sent')
    <3>1. /\ answered[id] <= 1
          /\ answered[id] # 0 => Finds(disk, id, sent) /\ Finds(mem, id, sent)
      BY <1>1 DEF RecoveryInv, Remembers
    <3>2. id \in DOMAIN mem.idem => sent'[id] = sent[id]
      BY DEF Asked
    <3> QED BY <1>2, <3>1, <3>2 DEF Finds
  <2>2. answered \in [RequestIds -> Nat]
    BY DEF RecoveryInv, Remembers
  <2> QED BY <1>1, <2>1, <2>2 DEF Remembers
<1>7. sent' \in [RequestIds -> Prints] /\ scopes' \subseteq KeyScopes
  BY <1>1 DEF Asked, RecoveryInv
<1> QED BY <1>1, <1>2, <1>4, <1>5, <1>6, <1>7 DEF RecoveryInv

\* Nobody asks under the number that stands for no request.
LEMMA NobodyIsRemembered == RecoveryInv => NoRequest \notin DOMAIN mem.idem
BY RecoveryAssumption DEF RecoveryInv, StateOK, StateTypes, NoRequest

\* A record and then transitions, none of which answers anybody.
LEMMA FirstThenPlainBegins ==
  ASSUME RecoveryInv, NEW rec \in Records, NEW one, one = <<rec>>, NEW q, Plain(q),
         Asker(rec) = NoRequest, NEW p, p = one \o q, rec.type # "EpochStarted",
         Fits(rec, disk, mem), NEW asked
  PROVE  Beginning(p, asked)
<1>1. WellFormed(p) /\ p # <<>> /\ p[1] = rec /\ Unasked(p)
  BY FirstThenPlain
<1> QED BY <1>1, NobodyIsRemembered DEF Beginning, Unasked, Digested

\* Transitions and then the record with the answer.
LEMMA PlainThenLastBegins ==
  ASSUME RecoveryInv, NEW rec \in Records, NEW one, one = <<rec>>, NEW q, Plain(q),
         rec.type \in LaterTypes, NEW p, p = q \o one,
         Asker(rec) \notin DOMAIN mem.idem, NEW asked, Digested(rec, asked)
  PROVE  Beginning(p, asked)
<1>1. /\ WellFormed(p)
      /\ \A n \in 1..Len(p) : /\ p[n].type \in LaterTypes
                              /\ p[n] = rec \/ Asker(p[n]) = NoRequest
  <2>1. p = q \o <<rec>>
    OBVIOUS
  <2> QED BY <2>1, PlainThenLast
<1>2. p # <<>> => 1 \in 1..Len(p)
  BY <1>1, LenProperties DEF WellFormed
<1>3. p # <<>> => p[1].type # "EpochStarted" /\ Fits(p[1], disk, mem)
  BY <1>1, <1>2 DEF Fits, LaterTypes
<1>4. \A n \in 1..Len(p) : Asker(p[n]) \notin DOMAIN mem.idem /\ Digested(p[n], asked)
  BY <1>1, NobodyIsRemembered DEF Digested
<1> QED BY <1>1, <1>3, <1>4 DEF Beginning

\* A single record.
LEMMA OneBegins ==
  ASSUME RecoveryInv, NEW rec \in Records, NEW p, p = <<rec>>,
         Asker(rec) \notin DOMAIN mem.idem, rec.type # "EpochStarted",
         Fits(rec, disk, mem), NEW asked, Digested(rec, asked)
  PROVE  Beginning(p, asked)
<1>1. p \in Seq(Records) /\ Len(p) = 1 /\ p[1] = rec
  OBVIOUS
<1>2. WellFormed(p)
  BY <1>1 DEF WellFormed
<1> QED BY <1>1, <1>2 DEF Beginning

\* The transitions of a revalidation.
LEMMA VerdictsPlain ==
  ASSUME RecoveryInv, NEW to \in Verdicts(mem)
  PROVE  Plain(Transitions(mem, to))
<1>1. PICK S \in SUBSET LiveIds(mem) : to \in [S -> {"Suspended", "Degraded"}]
  BY DEF Verdicts
<1>2. DOMAIN to \subseteq DOMAIN mem.asg
  BY <1>1 DEF LiveIds
<1>3. \A i \in DOMAIN to : to[i] \in {"Suspended", "Degraded", "Superseded"}
  BY <1>1
<1> QED BY <1>2, <1>3, TransitionsPlain DEF RecoveryInv

\* register_function.
LEMMA RegisterKeeps ==
  ASSUME RecoveryInv, NEW f \in Functions, NEW d \in Descriptors, RegisterFunction(f, d)
  PROVE  RecoveryInv'
<1> DEFINE rec == FunctionRegistered(f, d)
           p == <<rec>>
<1>1. rec \in Records /\ rec.type = "FunctionRegistered" /\ Asker(rec) = NoRequest
  BY DEF FunctionRegistered, Records, Asker
<1>2. Fits(rec, disk, mem)
  BY <1>1 DEF Fits
<1>3. Begin(p) /\ SameButOrdinal(mem', mem) /\ sent' = sent
  BY DEF RegisterFunction, SameButOrdinal
<1> HIDE DEF rec
<1>4. Beginning(p, sent')
  <2>1. Digested(rec, sent')
    BY <1>1 DEF Digested
  <2> QED BY <1>1, <1>2, <2>1, OneBegins, NobodyIsRemembered
<1> HIDE DEF p
<1> QED BY <1>3, <1>4, BeginKeeps, AskedNothing

\* The ingest functions and grant_authority.
LEMMA IngestKeeps ==
  ASSUME RecoveryInv, NEW r \in Reports, NEW to \in Verdicts(mem), Ingest(r, to)
  PROVE  RecoveryInv'
<1> DEFINE rec == EvidenceIngested(r, mem.epoch)
           one == <<rec>>
           q == Transitions(mem, to)
           p == one \o q
<1>0. mem.epoch \in Nat
  BY DEF RecoveryInv, StateOK, StateTypes
<1>1. /\ rec \in Records /\ rec.type = "EvidenceIngested" /\ Asker(rec) = NoRequest
      /\ rec.report = r /\ rec.ep = mem.epoch
  BY <1>0 DEF EvidenceIngested, Records, Asker
<1>2. Begin(p) /\ SameButOrdinal(mem', mem) /\ Newer(mem, r) /\ sent' = sent
  BY DEF Ingest, SameButOrdinal
<1>3. disk.epoch = mem.epoch
  BY <1>2 DEF Begin, Idle, RecoveryInv, Running, Starting
<1> HIDE DEF rec
<1>4. Fits(rec, disk, mem)
  BY <1>1, <1>2, <1>3 DEF Fits, Newer
<1>5. Plain(q)
  BY VerdictsPlain
<1> HIDE DEF one, q
<1>6. one = <<rec>>
  BY DEF one
<1> HIDE DEF p
<1>7. p = one \o q
  BY DEF p
<1>8. Beginning(p, sent')
  BY <1>1, <1>4, <1>5, <1>6, <1>7, FirstThenPlainBegins
<1> QED BY <1>2, <1>8, BeginKeeps, AskedNothing

\* withdraw_authority.
LEMMA WithdrawKeeps ==
  ASSUME RecoveryInv, NEW k \in Slots, NEW to \in Verdicts(mem), WithdrawAuthority(k, to)
  PROVE  RecoveryInv'
<1> DEFINE rec == AuthorityWithdrawn(k)
           one == <<rec>>
           q == Transitions(mem, to)
           p == one \o q
<1>1. /\ rec \in Records /\ rec.type = "AuthorityWithdrawn" /\ Asker(rec) = NoRequest
      /\ rec.grant = k
  BY DEF AuthorityWithdrawn, Records, Asker
<1>2. Begin(p) /\ SameButOrdinal(mem', mem) /\ mem.ev[<<"Authority", k>>].gen # 0
      /\ sent' = sent
  BY DEF WithdrawAuthority, SameButOrdinal
<1> HIDE DEF rec
<1>4. Fits(rec, disk, mem)
  BY <1>1, <1>2 DEF Fits
<1>5. Plain(q)
  BY VerdictsPlain
<1> HIDE DEF one, q
<1>6. one = <<rec>>
  BY DEF one
<1> HIDE DEF p
<1>7. p = one \o q
  BY DEF p
<1>8. Beginning(p, sent')
  BY <1>1, <1>4, <1>5, <1>6, <1>7, FirstThenPlainBegins
<1> QED BY <1>2, <1>8, BeginKeeps, AskedNothing

\* revalidate.
LEMMA RevalidateKeeps ==
  ASSUME RecoveryInv, NEW to \in Verdicts(mem), Revalidate(to)
  PROVE  RecoveryInv'
<1> DEFINE p == Transitions(mem, to)
<1>1. Begin(p) /\ SameButOrdinal(mem', mem) /\ sent' = sent
  BY DEF Revalidate, SameButOrdinal
<1>2. Plain(p)
  BY VerdictsPlain
<1> HIDE DEF p
<1>3. WellFormed(p) /\ Unasked(p)
  <2>1. Len(p) \in Nat
    BY <1>2, LenProperties DEF Plain
  <2>2. (\A n \in 2..Len(p) : n \in 1..Len(p)) /\ (\A n \in 1..Len(p) - 1 : n \in 1..Len(p))
    BY <2>1
  <2> QED BY <1>2, <2>2 DEF Plain, WellFormed, Unasked
<1>4. p # <<>> => p[1].type # "EpochStarted" /\ Fits(p[1], disk, mem)
  <2>1. p # <<>> => 1 \in 1..Len(p)
    BY <1>2, LenProperties DEF Plain
  <2> QED BY <1>2, <2>1 DEF Plain, LaterTypes, Fits
<1>5. Beginning(p, sent')
  BY <1>3, <1>4, NobodyIsRemembered DEF Beginning, Unasked, Digested
<1> QED BY <1>1, <1>5, BeginKeeps, AskedNothing

\* The record of an assignment with the answer of a request.
LEMMA StoringRecord ==
  ASSUME NEW i \in Nat, NEW r \in Assignment, NEW id \in RequestIds, NEW fp \in Operation,
         NEW rec, rec \in {AssignmentStored(i, r, id, fp), EffectRecorded(i, r, id, fp)}
  PROVE  /\ rec \in Records /\ rec.type \in LaterTypes /\ Asker(rec) = id /\ rec.fp = fp
         /\ rec.type # "RequestRecorded"
<1>1. rec \in [type : {"AssignmentStored", "EffectRecorded"}, id : Nat, record : Assignment,
               request : Askers, fp : Prints]
  BY DEF AssignmentStored, EffectRecorded, Askers, Prints
<1>2. rec \in Records
  BY <1>1 DEF Records
<1> QED BY <1>2 DEF AssignmentStored, EffectRecorded, LaterTypes, Asker

\* The operations that write one record and answer a request with it.
LEMMA AnswerKeeps ==
  ASSUME RecoveryInv, NEW rec \in Records, rec.type \in LaterTypes, NEW id \in RequestIds,
         id \notin DOMAIN mem.idem, NEW op \in Operations, Asker(rec) = id, rec.fp = op,
         NEW p, p = <<rec>>, ActsOn(id, op, p), mem' = mem
  PROVE  RecoveryInv'
<1>0. Begin(p) /\ Asked(sent') /\ sent'[id] = op
  BY AskedAnew DEF ActsOn
<1>1. rec.type # "EpochStarted" /\ Fits(rec, disk, mem)
  BY DEF Fits, LaterTypes
<1>2. Beginning(p, sent')
  <2>1. Digested(rec, sent')
    BY <1>0 DEF Digested
  <2> QED BY <1>1, <2>1, OneBegins
<1>3. SameButOrdinal(mem', mem)
  BY DEF SameButOrdinal
<1> QED BY <1>0, <1>2, <1>3, BeginKeeps

\* record_refusal.
LEMMA RefuseKeeps ==
  ASSUME RecoveryInv, NEW id \in RequestIds, NEW op \in Operations, RefusePlacement(id, op)
  PROVE  RecoveryInv'
<1> DEFINE rec == RequestRecorded(id, op)
           p == <<rec>>
<1>1. op \in Operation
  BY RecoveryAssumption
<1>2. rec \in Records /\ rec.type \in LaterTypes /\ Asker(rec) = id /\ rec.fp = op
  BY <1>1 DEF RequestRecorded, Records, LaterTypes, Asker, Askers, Prints
<1>3. ActsOn(id, op, p) /\ mem' = mem /\ id \notin DOMAIN mem.idem
  BY DEF RefusePlacement, Unanswered
<1> HIDE DEF rec
<1>4. p = <<rec>>
  OBVIOUS
<1> HIDE DEF p
<1> QED BY <1>2, <1>3, <1>4, AnswerKeeps

\* revoke.
LEMMA RevokeKeeps ==
  ASSUME RecoveryInv, NEW id \in RequestIds, NEW op \in Operations, Revoke(id, op)
  PROVE  RecoveryInv'
<1> DEFINE i == op.target
           r == Moved(mem.asg[i], "Revoked")
           rec == AssignmentStored(i, r, id, op)
           p == <<rec>>
<1>1. op \in Operation
  BY RecoveryAssumption
<1>2. i \in DOMAIN mem.asg /\ ActsOn(id, op, p) /\ mem' = mem /\ id \notin DOMAIN mem.idem
  BY DEF Revoke, Unanswered
<1>3. i \in Nat /\ mem.asg[i] \in Assignment
  BY <1>2 DEF RecoveryInv, StateOK, StateTypes
<1>4. r \in Assignment
  BY <1>3, MovedType
<1> HIDE DEF r, i
<1>5. rec \in Records /\ rec.type \in LaterTypes /\ Asker(rec) = id /\ rec.fp = op
  BY <1>1, <1>3, <1>4, StoringRecord
<1> HIDE DEF rec
<1>6. p = <<rec>>
  OBVIOUS
<1> HIDE DEF p
<1> QED BY <1>2, <1>5, <1>6, AnswerKeeps

\* reauthorize.
LEMMA ReauthorizeKeeps ==
  ASSUME RecoveryInv, NEW id \in RequestIds, NEW op \in Operations, Reauthorize(id, op)
  PROVE  RecoveryInv'
<1> DEFINE i == op.target
           Again(st) == [Moved(mem.asg[i], st) EXCEPT !.ep = mem.epoch, !.told = {}]
<1>1. op \in Operation
  BY RecoveryAssumption
<1>2. i \in DOMAIN mem.asg /\ mem' = mem /\ id \notin DOMAIN mem.idem
  BY DEF Reauthorize, Unanswered
<1>3. PICK st \in {"Dispatched", "Degraded"} :
        ActsOn(id, op, <<AssignmentStored(i, Again(st), id, op)>>)
  BY DEF Reauthorize
<1> DEFINE r == Again(st)
           rec == AssignmentStored(i, r, id, op)
           p == <<rec>>
<1>4. i \in Nat /\ mem.asg[i] \in Assignment /\ mem.epoch \in Nat
  BY <1>2 DEF RecoveryInv, StateOK, StateTypes
<1>5. Moved(mem.asg[i], st) \in Assignment
  BY <1>4, MovedType
<1>6. r \in Assignment
  BY <1>4, <1>5 DEF Assignment
<1>7. ActsOn(id, op, p)
  BY <1>3
<1> HIDE DEF r, i
<1>8. rec \in Records /\ rec.type \in LaterTypes /\ Asker(rec) = id /\ rec.fp = op
  BY <1>1, <1>4, <1>6, StoringRecord
<1> HIDE DEF rec
<1>9. p = <<rec>>
  OBVIOUS
<1> HIDE DEF p
<1> QED BY <1>2, <1>7, <1>8, <1>9, AnswerKeeps

\* report_effect.
LEMMA EffectKeeps ==
  ASSUME RecoveryInv, NEW id \in RequestIds, NEW op \in Operations, ReportEffect(id, op)
  PROVE  RecoveryInv'
<1> DEFINE i == op.target
           r == Effected(mem.asg[i], op.outcome)
           rec == EffectRecorded(i, r, id, op)
           p == <<rec>>
<1>1. op \in Operation /\ op.outcome \in Outcomes
  BY RecoveryAssumption DEF Operation, Outcomes
<1>2. i \in DOMAIN mem.asg /\ ActsOn(id, op, p) /\ mem' = mem /\ id \notin DOMAIN mem.idem
  BY DEF ReportEffect, Unanswered
<1>3. i \in Nat /\ mem.asg[i] \in Assignment
  BY <1>2 DEF RecoveryInv, StateOK, StateTypes
<1>4. r \in Assignment
  <2> DEFINE a == mem.asg[i]
             o == op.outcome
             st == CASE o = "Applied" -> "AppliedVerified"
                     [] o = "Unknown" -> a.st
                     [] OTHER -> o
  <2>1. a \in Assignment /\ o \in Outcomes
    BY <1>1, <1>3
  <2>2. r = [a EXCEPT !.st = st, !.hist = TrimHistory(a.hist) + 1, !.told = a.told \cup {o}]
    BY <2>1 DEF Effected, Assignment
  <2> HIDE DEF a, o
  <2>3. st \in Outcomes \cup {"Dispatched", "AppliedVerified", "Suspended", "Degraded",
                              "Revoked", "Superseded"}
    BY <2>1 DEF Assignment, Outcomes
  <2>4. TrimHistory(a.hist) + 1 \in Nat
    BY <2>1, RecoveryAssumption DEF TrimHistory, Lesser, Assignment
  <2> HIDE DEF st, r
  <2>5. a.told \cup {o} \in SUBSET Outcomes
    BY <2>1 DEF Assignment
  <2> QED BY <2>1, <2>2, <2>3, <2>4, <2>5 DEF Assignment
<1> HIDE DEF r, i
<1>5. rec \in Records /\ rec.type \in LaterTypes /\ Asker(rec) = id /\ rec.fp = op
  BY <1>1, <1>3, <1>4, StoringRecord
<1> HIDE DEF rec
<1>6. p = <<rec>>
  OBVIOUS
<1> HIDE DEF p
<1> QED BY <1>2, <1>5, <1>6, AnswerKeeps

\* authorize_locked.
LEMMA PlaceKeeps ==
  ASSUME RecoveryInv, NEW id \in RequestIds, NEW op \in Operations, NEW old,
         Place(id, op, old)
  PROVE  RecoveryInv'
<1> DEFINE displaced == [j \in old |-> "Superseded"]
           moves == Transitions(mem, displaced)
           w == ReassignmentRecorded(op.key)
           stamp == IF old = {} THEN <<>> ELSE <<w>>
           i == mem.ordinal + 1
           fp == Synthetic(op)
           rec == AssignmentStored(i, NewAssignment(op), id, fp)
           one == <<rec>>
           q == moves \o stamp
           p == q \o one
<1>1. fp \in Operation
  BY RecoveryAssumption DEF Synthetic, Operation
<1>2. mem.ordinal \in Nat /\ mem.epoch \in Nat
  BY DEF RecoveryInv, StateOK, StateTypes
<1>2a. op.key \in Keys /\ Placement(op)
  BY DEF Place, Keys
<1>3. NewAssignment(op) \in Assignment
  BY <1>2, <1>2a, RecoveryAssumption
     DEF NewAssignment, Assignment, TrimHistory, Lesser, Outcomes
<1>4. /\ ActsOn(id, op, p) /\ mem' = [mem EXCEPT !.ordinal = i] /\ id \notin DOMAIN mem.idem
  BY DEF Place, Unanswered
<1>4a. Begin(p) /\ Asked(sent') /\ sent'[id] = op
  BY <1>4, AskedAnew DEF ActsOn
<1>5. SameButOrdinal(mem', mem)
  <2>1. i \in Nat
    BY <1>2
  <2>2. mem' = [mem EXCEPT !.ordinal = i]
    BY <1>4
  <2> HIDE DEF i
  <2> QED BY <2>1, <2>2, Zenon DEF SameButOrdinal
<1>6. Plain(moves)
  <2>1. DOMAIN displaced \subseteq DOMAIN mem.asg
    BY DEF Place, GivingWay
  <2>2. \A j \in DOMAIN displaced : displaced[j] \in {"Suspended", "Degraded", "Superseded"}
    OBVIOUS
  <2> HIDE DEF displaced
  <2> QED BY <2>1, <2>2, TransitionsPlain DEF RecoveryInv
<1>7. Plain(stamp)
  <2>1. w \in Records /\ w.type \in LaterTypes /\ Asker(w) = NoRequest
    BY <1>2a DEF ReassignmentRecorded, Records, LaterTypes, Asker
  <2> HIDE DEF w
  <2>2. Plain(<<w>>)
    BY <2>1 DEF Plain
  <2> QED BY <2>2, PlainEmpty
<1> HIDE DEF moves, stamp
<1>8. Plain(q)
  BY <1>6, <1>7, PlainConcat
<1>9. /\ rec \in Records /\ rec.type \in LaterTypes /\ Asker(rec) = id /\ rec.fp = fp
      /\ rec.type # "RequestRecorded"
  <2>1. i \in Nat /\ NewAssignment(op) \in Assignment
    BY <1>2, <1>3
  <2>2. rec \in {AssignmentStored(i, NewAssignment(op), id, fp),
                 EffectRecorded(i, NewAssignment(op), id, fp)}
    OBVIOUS
  <2> HIDE DEF i, fp, rec
  <2> QED BY <1>1, <2>1, <2>2, StoringRecord
<1>9a. Digested(rec, sent')
  <2>1. Reproduced(op) => fp = op
    BY <1>2a DEF Reproduced
  <2> HIDE DEF rec, fp
  <2> QED BY <1>4a, <1>9, <2>1 DEF Digested
<1> HIDE DEF rec, q
<1>10. one = <<rec>>
  OBVIOUS
<1> HIDE DEF one
<1>11. p = q \o one
  OBVIOUS
<1> HIDE DEF p
<1>12. Beginning(p, sent')
  BY <1>4, <1>8, <1>9, <1>9a, <1>10, <1>11, PlainThenLastBegins
<1> QED BY <1>4a, <1>5, <1>12, BeginKeeps

-----------------------------------------------------------------------------
(* The theorems *)

\* Every step.
LEMMA NextKeeps == RecoveryInv /\ [Next]_rvars => RecoveryInv'
<1> SUFFICES ASSUME RecoveryInv, [Next]_rvars
             PROVE  RecoveryInv'
  OBVIOUS
<1>1. CASE Start
  BY <1>1, StartKeeps
<1>2. CASE Crash
  BY <1>2, CrashKeeps
<1>3. CASE Commit
  BY <1>3, CommitKeeps
<1>4. CASE Compact
  BY <1>4, CompactKeeps
<1>5. CASE \E f \in Functions, d \in Descriptors : RegisterFunction(f, d)
  BY <1>5, RegisterKeeps
<1>6. ASSUME NEW to \in Verdicts(mem),
             \/ \E r \in Reports : Ingest(r, to)
             \/ \E k \in Slots : WithdrawAuthority(k, to)
             \/ Revalidate(to)
      PROVE  RecoveryInv'
  BY <1>6, IngestKeeps, WithdrawKeeps, RevalidateKeeps
<1>7. ASSUME NEW id \in RequestIds, NEW op \in Operations,
             \/ \E old \in GivingWay(mem, op) : Place(id, op, old)
             \/ RefusePlacement(id, op)
             \/ Revoke(id, op) \/ Reauthorize(id, op) \/ ReportEffect(id, op)
      PROVE  RecoveryInv'
  BY <1>7, PlaceKeeps, RefuseKeeps, RevokeKeeps, ReauthorizeKeeps, EffectKeeps
<1>8. CASE UNCHANGED rvars
  <2>1. /\ phase' = phase /\ mem' = mem /\ disk' = disk /\ pending' = pending
        /\ answered' = answered /\ forgotten' = forgotten /\ sent' = sent /\ scopes' = scopes
    BY <1>8 DEF rvars
  <2> QED BY <2>1 DEF RecoveryInv, PendingOK, Running, Starting, Remembers
<1> QED BY <1>1, <1>2, <1>3, <1>4, <1>5, <1>6, <1>7, <1>8 DEF Next

\* Memory and disk are sound and alike at every commit boundary, and what an operation
\* still has to write fits them, whatever is delivered, repeated or cut off by a crash.
THEOREM RecoveryInvariant == Spec => []RecoveryInv
<1>1. Init => RecoveryInv
  BY InitInv
<1>2. RecoveryInv /\ [Next]_rvars => RecoveryInv'
  BY NextKeeps
<1> QED BY <1>1, <1>2, PTL DEF Spec

\* A restart at any commit boundary finds the functions, evidence, sources and
\* assignments that memory has, and the answers that both remember.
THEOREM RecoveryReplayReproduces == Spec => []ReplayReproduces
<1>1. RecoveryInv => ReplayReproduces
  <2> SUFFICES ASSUME RecoveryInv, phase = "up"
               PROVE  /\ disk.functions = mem.functions
                      /\ \A k \in Domains \X Slots :
                           k[1] # "Observation" => disk.ev[k] = mem.ev[k]
                      /\ \A k \in DOMAIN mem.sources :
                           /\ disk.sources[k].last = mem.sources[k].last
                           /\ disk.sources[k].digest = mem.sources[k].digest
                      /\ disk.asg = mem.asg
                      /\ \A id \in DOMAIN mem.idem \cap DOMAIN disk.idem :
                           disk.idem[id] = mem.idem[id]
    BY DEF ReplayReproduces
  <2>1. Alike(disk, mem)
    BY DEF RecoveryInv, Running
  <2>2. DOMAIN mem.sources = Sources \X Domains
    BY DEF RecoveryInv, StateOK, StateTypes
  <2> QED BY <2>1, <2>2 DEF Alike
<1> QED BY <1>1, RecoveryInvariant, PTL

\* Once the epoch is durable, evidence is current exactly when it was accepted since
\* the last start: is_current needs no epoch.
THEOREM RecoveryCurrentIffThisLifetime == Spec => []CurrentIffThisLifetime
<1>1. RecoveryInv => CurrentIffThisLifetime
  <2> SUFFICES ASSUME RecoveryInv, Idle, NEW k \in Domains \X Slots, mem.ev[k].gen # 0
               PROVE  IsCurrent(mem, k) <=> mem.ev[k].ep = mem.epoch
    BY DEF CurrentIffThisLifetime
  <2> DEFINE item == mem.ev[k]
             source == mem.sources[<<item.src, k[1]>>]
  <2>1. Lifetime(mem)
    BY DEF Idle, RecoveryInv, Running, Starting
  <2>2. item \in Items /\ item.src \in Sources /\ item.seq <= source.last
    BY DEF RecoveryInv, StateOK, StateTypes, EvidenceSound
  <2>3. <<item.src, k[1]>> \in Sources \X Domains
    BY <2>2
  <2>4. source \in [last : Nat, digest : Digests, floor : Nat]
    BY <2>3 DEF RecoveryInv, StateOK, StateTypes
  <2>5. item.seq \in Nat /\ source.last \in Nat /\ source.floor \in Nat
    BY <2>2, <2>4 DEF Items
  <2>6. IF item.ep = mem.epoch THEN item.seq > source.floor ELSE item.seq <= source.floor
    BY <2>1 DEF Lifetime
  <2>7. IsCurrent(mem, k) <=> source.last # 0 /\ item.seq > source.floor
    BY DEF IsCurrent
  <2> HIDE DEF item, source
  <2>8. item.seq > source.floor => source.last # 0
    BY <2>2, <2>5
  <2>9. item.seq <= source.floor => ~(item.seq > source.floor)
    BY <2>5
  <2> QED BY <2>6, <2>7, <2>8, <2>9 DEF item
<1> QED BY <1>1, RecoveryInvariant, PTL

\* A request is executed, or refused, at most once, before and after restarts, unless
\* its answer was evicted.
THEOREM RecoveryAnsweredOnce == Spec => []AnsweredOnce
<1>1. RecoveryInv => AnsweredOnce
  BY DEF RecoveryInv, Remembers, AnsweredOnce
<1> QED BY <1>1, RecoveryInvariant, PTL

\* The order of eviction lists the remembered requests, each once, in memory and in
\* what a start would decode, although no snapshot saves it.
THEOREM RecoveryEvictionOrderSound == Spec => []EvictionOrderSound
<1>1. ASSUME NEW s, StateOK(s)
      PROVE  OrderMatches(s)
  <2>1. Lists(s.order, DOMAIN s.idem)
    BY <1>1 DEF StateOK, Queued
  <2>2. Len(s.order) = Cardinality(DOMAIN s.idem)
    BY <2>1, ListLength
  <2>3. DOMAIN s.order = 1..Len(s.order) /\ \A n \in 1..Len(s.order) : s.order[n] \in DOMAIN s.idem
    BY <2>1, LenProperties DEF Lists
  <2>4. {s.order[n] : n \in DOMAIN s.order} = DOMAIN s.idem
    <3> DEFINE q == s.order
               D == DOMAIN s.idem
    <3>1. DOMAIN q = 1..Len(q) /\ \A n \in 1..Len(q) : q[n] \in D
      BY <2>3
    <3>2. \A x \in D : \E n \in 1..Len(q) : q[n] = x
      BY <2>1 DEF Lists
    <3> HIDE DEF q, D
    <3>3. {q[n] : n \in DOMAIN q} = D
      BY <3>1, <3>2
    <3> QED BY <3>3 DEF q, D
  <2> QED BY <2>2, <2>4 DEF OrderMatches
<1>2. RecoveryInv => EvictionOrderSound
  BY <1>1 DEF RecoveryInv, EvictionOrderSound
<1> QED BY <1>2, RecoveryInvariant, PTL

\* A restart gives no scope back a reassignment it has used.
THEOREM RecoveryNoStampLost == Spec => []NoStampLost
<1>1. RecoveryInv => NoStampLost
  <2> SUFFICES ASSUME RecoveryInv, phase = "up"
               PROVE  \A k \in Keys : disk.stamps[k] >= mem.stamps[k]
    BY DEF NoStampLost
  <2>1. /\ disk.stamps \in [Keys -> Nat] /\ mem.stamps \in [Keys -> Nat]
        /\ \A k \in Keys : mem.stamps[k] <= disk.stamps[k]
    BY DEF RecoveryInv, StateOK, StateTypes, Running, AtMost
  <2> QED BY <2>1
<1> QED BY <1>1, RecoveryInvariant, PTL

\* Whoever was answered is found in memory and on disk, with the digest of what was
\* asked unless the request is a placement that its plan does not reproduce.
THEOREM RecoveryRetryFindsAnswer == Spec => []RetryFindsAnswer
<1>1. RecoveryInv => RetryFindsAnswer
  <2> SUFFICES ASSUME RecoveryInv, NEW id \in RequestIds \ forgotten, answered[id] > 0,
                      NEW s \in {disk} \cup (IF phase = "up" THEN {mem} ELSE {})
               PROVE  /\ id \in DOMAIN s.idem
                      /\ Reproduced(sent[id]) \/ s.idem[id].outcome = "Refused" =>
                           Recognised(s, id)
    BY DEF RetryFindsAnswer
  <2>1. answered[id] # 0
    BY DEF RecoveryInv, Remembers
  <2>2. Finds(disk, id, sent) /\ (phase = "up" => Finds(mem, id, sent))
    BY <2>1 DEF RecoveryInv, Remembers
  <2> QED BY <2>2 DEF Finds, Recognised
<1> QED BY <1>1, RecoveryInvariant, PTL

\* What the disk knows of a source never goes back, and an accepted sequence number
\* never gets another payload.
THEOREM RecoveryNoSourceRegresses == Spec => NoSourceRegresses
<1> DEFINE Later(k) == /\ disk'.sources[k].last >= disk.sources[k].last
                       /\ disk'.sources[k].last = disk.sources[k].last =>
                            disk'.sources[k].digest = disk.sources[k].digest
           A == \A k \in DOMAIN disk.sources : Later(k)
<1>1. RecoveryInv /\ [Next]_rvars => [A]_rvars
  <2> SUFFICES ASSUME RecoveryInv, Next, NEW k \in DOMAIN disk.sources
               PROVE  Later(k)
    OBVIOUS
  <2>1. k \in Sources \X Domains /\ disk.sources[k].last \in Nat
        /\ disk.sources[k].last >= disk.sources[k].last
    BY DEF RecoveryInv, StateOK, StateTypes
  <2>2. phase = "up" => /\ disk.sources[k].last = mem.sources[k].last
                        /\ disk.sources[k].digest = mem.sources[k].digest
    BY <2>1 DEF RecoveryInv, Running, Alike
  <2>3. CASE disk' = disk
    BY <2>1, <2>3
  <2>4. CASE Compact
    <3>1. phase = "up" /\ disk' = Compacted(mem)
      BY <2>4 DEF Compact, Idle
    <3>2. disk'.sources = mem.sources
      BY <3>1, CompactedOK DEF RecoveryInv
    <3> QED BY <2>1, <2>2, <3>1, <3>2
  <2>5. CASE Commit
    <3> DEFINE rec == pending[1]
    <3>1. phase = "up" /\ rec \in Records
      BY <2>5, CommitFacts
    <3>2. PICK d, m :
            /\ Commits(d, m, rec, disk', mem') /\ Fits(rec, d, m)
            /\ StateOK(d) /\ disk' = Replayed(d, rec) /\ m.sources = mem.sources
            /\ \A j \in Sources \X Domains : /\ d.sources[j].last = mem.sources[j].last
                                             /\ d.sources[j].digest = mem.sources[j].digest
      BY <2>5, CommitFacts
    <3>3. CASE rec.type # "EvidenceIngested"
      <4>1. disk'.sources = d.sources
        BY <3>2, <3>3 DEF Commits
      <4> QED BY <2>1, <2>2, <3>1, <3>2, <4>1
    <3>4. CASE rec.type = "EvidenceIngested"
      <4> DEFINE r == rec.report
                 old == mem.sources[<<r.src, r.dom>>].last
      <4>1. r \in Reports /\ rec.ep \in Nat
        BY <3>1, <3>4, RecordFields
      <4>2. disk' = Taken(Marked(d, r), r, rec.ep)
        BY <3>2, <3>4 DEF Replayed, ReplayedEvidence
      <4>3. disk'.sources = SourcesWith(d, r)
        BY <3>2, <4>1, <4>2, EvidenceFields DEF StateOK
      <4>4. r.seq > old /\ r.seq \in Nat /\ <<r.src, r.dom>> \in Sources \X Domains
        BY <3>2, <3>4, <4>1, ReportFields DEF Fits
      <4>5. CASE k = <<r.src, r.dom>>
        <5>1. disk'.sources[k].last = r.seq
          BY <2>1, <4>3, <4>5 DEF SourcesWith
        <5>2. disk.sources[k].last = old
          BY <2>2, <3>1, <4>5
        <5> HIDE DEF old
        <5> QED BY <2>1, <4>4, <5>1, <5>2
      <4>6. CASE k # <<r.src, r.dom>>
        <5>1. disk'.sources[k] = d.sources[k]
          BY <2>1, <4>3, <4>6 DEF SourcesWith
        <5> QED BY <2>1, <2>2, <3>1, <3>2, <5>1
      <4> QED BY <4>5, <4>6
    <3> QED BY <3>3, <3>4
  <2>6. Compact \/ Commit \/ disk' = disk
    <3>1. ASSUME NEW p, Begin(p) PROVE disk' = disk
      BY <3>1 DEF Begin
    <3>2. ASSUME Start \/ Crash PROVE disk' = disk
      BY <3>2 DEF Start, Crash
    <3>3. ASSUME NEW f \in Functions, NEW d \in Descriptors, RegisterFunction(f, d)
          PROVE  disk' = disk
      BY <3>1, <3>3 DEF RegisterFunction
    <3>4. ASSUME NEW to \in Verdicts(mem), NEW r \in Reports, Ingest(r, to)
          PROVE  disk' = disk
      BY <3>1, <3>4 DEF Ingest
    <3>5. ASSUME NEW to \in Verdicts(mem), NEW s \in Slots, WithdrawAuthority(s, to)
          PROVE  disk' = disk
      BY <3>1, <3>5 DEF WithdrawAuthority
    <3>6. ASSUME NEW to \in Verdicts(mem), Revalidate(to) PROVE disk' = disk
      BY <3>1, <3>6 DEF Revalidate
    <3>7. ASSUME NEW id \in RequestIds, NEW op \in Operations,
                 \/ \E old \in GivingWay(mem, op) : Place(id, op, old)
                 \/ RefusePlacement(id, op)
                 \/ Revoke(id, op) \/ Reauthorize(id, op) \/ ReportEffect(id, op)
          PROVE  disk' = disk
      <4>1. PICK p : Begin(p)
        BY <3>7 DEF Place, RefusePlacement, Revoke, Reauthorize, ReportEffect, ActsOn
      <4> QED BY <3>1, <4>1
    <3> QED BY <3>2, <3>3, <3>4, <3>5, <3>6, <3>7 DEF Next
  <2> QED BY <2>3, <2>4, <2>5, <2>6
<1> QED BY <1>1, RecoveryInvariant, PTL DEF Spec, NoSourceRegresses

-----------------------------------------------------------------------------
(* The store opens again *)

Granted(s) == {k \in Slots : s.ev[<<"Authority", k>>].gen # 0}

\* The sources that report, each in its domain.
Reporting == {<<r.src, r.dom>> : r \in Reports}

Effects == \E op \in Operations : op.kind = "effect"

\* There is room for all that is decoded and that the operations do not count:
\* capabilities, observations, assignments, scopes and reassignment keys, sources, the
\* stamps of a key, and, where effects are reported, the history of an assignment.
Roomy ==
  /\ \A dom \in {"Capability", "Observation"} : IsFiniteSet(Covered(dom))
  /\ Cardinality(Covered("Capability")) <= MaxCapabilities
  /\ Cardinality(Covered("Observation")) <= MaxObservations
  /\ IsFiniteSet(Keys) /\ Cardinality(Keys) <= MaxScopes
  /\ MaxOrdinal <= MaxAssignments
  /\ IsFiniteSet(Reporting) /\ Cardinality(Reporting) <= MaxSources
  /\ 2 * MaxCalls <= 8 * StampLimit
  /\ Effects => 2 + MaxCalls + MaxEpoch <= MaxHistory

\* What the operations keep of a state: the counts they look at, and where the others
\* come from.
Within(s) ==
  /\ IsFiniteSet(DOMAIN s.functions) /\ Cardinality(DOMAIN s.functions) <= MaxFunctions
  /\ IsFiniteSet(Granted(s)) /\ Cardinality(Granted(s)) <= MaxGrants
  /\ DOMAIN s.asg \subseteq 1..MaxOrdinal
  /\ \A k \in Sources \X Domains : s.sources[k].last # 0 => k \in Reporting

\* A history after n operations and starts.
Short(h, n) == h <= MaxHistory /\ (Effects => h <= 2 + n)

\* There is room for a function or a grant that is about to be committed.
Admitted(rec, s) ==
  /\ rec.type = "FunctionRegistered" =>
       \/ rec.function \in DOMAIN s.functions
       \/ Cardinality(DOMAIN s.functions) < MaxFunctions
  /\ rec.type = "EvidenceIngested" /\ rec.report.dom = "Authority" =>
       Cardinality(Granted(s)) < MaxGrants

Stamped(p, n) == n \in 1..Len(p) /\ p[n].type = "ReassignmentRecorded"

\* The records of an operation: assignments within bounds and one stamp at most.
Bounded(p, n) ==
  /\ \A k \in 1..Len(p) :
       Stores(p[k]) => p[k].id \in 1..MaxOrdinal /\ Short(p[k].record.hist, n)
  /\ \A i, j \in 1..Len(p) : Stamped(p, i) /\ Stamped(p, j) => i = j

\* The store can be read, now and after each of the commits to come.  A stamp counts
\* twice when its commit compacts.
StoreInv ==
  /\ disk.readable /\ Within(disk)
  /\ calls \in Nat /\ calls <= MaxCalls /\ disk.epoch <= MaxEpoch
  /\ phase = "up" => mem.epoch <= MaxEpoch
  /\ \A i \in DOMAIN disk.asg : Short(disk.asg[i].hist, calls + disk.epoch)
  /\ \A k \in Keys : disk.stamps[k] <= 2 * calls
  /\ \A n \in 1..Len(pending) : Stamped(pending, n) =>
       \A k \in Keys : disk.stamps[k] + 2 <= 2 * calls
  /\ pending # <<>> => Admitted(pending[1], mem)
  /\ Bounded(pending, calls + mem.epoch)

\* Part of a set that is not too large.
LEMMA PartFits ==
  ASSUME NEW S, IsFiniteSet(S), NEW T, T \subseteq S, NEW n \in Nat, Cardinality(S) <= n
  PROVE  IsFiniteSet(T) /\ Cardinality(T) <= n
<1>1. /\ Cardinality(T) <= Cardinality(S) /\ Cardinality(T) \in Nat /\ Cardinality(S) \in Nat
      /\ IsFiniteSet(T)
  BY FS_Subset, FS_CardinalityType
<1> QED BY <1>1

\* There are no more scopes than keys.
LEMMA ScopesFit ==
  ASSUME Roomy
  PROVE  IsFiniteSet(KeyScopes) /\ Cardinality(KeyScopes) <= MaxScopes
<1> DEFINE f == [k \in Keys |-> k[1]]
<1>1. f \in Surjection(Keys, KeyScopes)
  BY DEF KeyScopes, Surjection
<1>2. IsFiniteSet(Keys) /\ Cardinality(Keys) <= MaxScopes /\ MaxScopes \in Nat
  BY RecoveryAssumption DEF Roomy
<1> HIDE DEF f
<1>3. /\ IsFiniteSet(KeyScopes) /\ Cardinality(KeyScopes) <= Cardinality(Keys)
      /\ Cardinality(KeyScopes) \in Nat /\ Cardinality(Keys) \in Nat
  BY <1>1, <1>2, FS_Surjection, FS_CardinalityType
<1> QED BY <1>2, <1>3

\* The items of a domain fill covered slots only.
LEMMA ItemsCovered ==
  ASSUME NEW s, StateOK(s), NEW dom \in Domains
  PROVE  {k \in Slots : s.ev[<<dom, k>>].gen # 0} \subseteq Covered(dom)
<1> SUFFICES ASSUME NEW k \in Slots, s.ev[<<dom, k>>].gen # 0
             PROVE  k \in Covered(dom)
  OBVIOUS
<1> DEFINE j == <<dom, k>>
<1>1. j \in Domains \X Slots /\ j[1] = dom /\ j[2] = k
  OBVIOUS
<1>2. s.ev[j].gen # 0
  OBVIOUS
<1> HIDE DEF j
<1> QED BY <1>1, <1>2 DEF StateOK, EvidenceSound

\* decode_state accepts a state within bounds.
LEMMA DecodesWithin ==
  ASSUME Roomy, NEW s, StateOK(s), Within(s), \A k \in Keys : s.stamps[k] <= 8 * StampLimit,
         \A i \in DOMAIN s.asg : s.asg[i].hist <= MaxHistory,
         NEW specs, specs \subseteq KeyScopes
  PROVE  FitsEvidence(s) /\ FitsRecords(s, specs)
<1>1. FitsEvidence(s)
  <2>1. /\ "Capability" \in Domains /\ "Observation" \in Domains
        /\ MaxCapabilities \in Nat /\ MaxObservations \in Nat
    BY RecoveryAssumption DEF Domains
  <2>2. ItemCount(s, "Capability") <= MaxCapabilities
    BY <2>1, ItemsCovered, PartFits DEF Roomy, ItemCount
  <2>3. ItemCount(s, "Observation") <= MaxObservations
    BY <2>1, ItemsCovered, PartFits DEF Roomy, ItemCount
  <2> QED BY <2>2, <2>3 DEF Within, FitsEvidence, ItemCount, Granted
<1>1a. MaxScopes \in Nat
  BY RecoveryAssumption
<1>1b. Cardinality(specs) <= MaxScopes
  BY <1>1a, ScopesFit, PartFits
<1>1c. Cardinality(StampedKeys(s)) <= MaxScopes
  <2>1. StampedKeys(s) \subseteq Keys
    BY DEF StampedKeys
  <2> QED BY <1>1a, <2>1, PartFits DEF Roomy
<1>2. Cardinality(DOMAIN s.asg) <= MaxAssignments
  <2>0. MaxOrdinal \in Nat
    BY RecoveryAssumption
  <2>1. IsFiniteSet(1..MaxOrdinal) /\ Cardinality(1..MaxOrdinal) = MaxOrdinal
    BY <2>0, FS_Interval
  <2>2. Cardinality(DOMAIN s.asg) <= MaxOrdinal /\ Cardinality(DOMAIN s.asg) \in Nat
    BY <2>1, FS_Subset, FS_CardinalityType DEF Within
  <2> QED BY <2>2, RecoveryAssumption DEF Roomy
<1>3. SourceCount(s) <= MaxSources
  <2> DEFINE D == {k \in DOMAIN s.sources : s.sources[k].last # 0}
  <2>1. D \subseteq Reporting
    BY DEF Within, StateOK, StateTypes
  <2> HIDE DEF D
  <2>2. Cardinality(D) <= Cardinality(Reporting) /\ Cardinality(D) \in Nat
        /\ Cardinality(Reporting) \in Nat
    BY <2>1, FS_Subset, FS_CardinalityType DEF Roomy
  <2>3. Cardinality(D) <= MaxSources
    BY <2>2, RecoveryAssumption DEF Roomy
  <2> QED BY <2>3 DEF SourceCount, D
<1>4. Cardinality(DOMAIN s.idem) <= MaxIdempotency
  BY ListLength DEF StateOK, Queued
<1> QED BY <1>1, <1>1b, <1>1c, <1>2, <1>3, <1>4 DEF FitsRecords, DecodesAssignment

\* States that are alike have the same counts.
LEMMA AlikeWithin ==
  ASSUME NEW d, NEW m, Alike(d, m)
  PROVE  /\ Within(d) <=> Within(m)
         /\ Granted(d) = Granted(m) /\ d.functions = m.functions /\ d.asg = m.asg
<1>1. \A k \in Slots : <<"Authority", k>> \in Domains \X Slots
  BY DEF Domains
<1>2. \A k \in Slots : d.ev[<<"Authority", k>>] = m.ev[<<"Authority", k>>]
  BY <1>1 DEF Alike
<1>3. Granted(d) = Granted(m)
  BY <1>2 DEF Granted
<1> QED BY <1>3 DEF Alike, Within

\* A snapshot of a state within bounds can be read.
LEMMA SnapshotReadable ==
  ASSUME Roomy, NEW m, StateOK(m), Within(m), \A k \in Keys : m.stamps[k] <= 8 * StampLimit,
         \A i \in DOMAIN m.asg : m.asg[i].hist <= MaxHistory, scopes \subseteq KeyScopes
  PROVE  Compacted(m).readable
<1> DEFINE a == [m EXCEPT !.order = <<>>]
<1>1. /\ DOMAIN a = Fields /\ a.stamps = m.stamps /\ a.ev = m.ev /\ a.sources = m.sources
      /\ a.asg = m.asg /\ a.functions = m.functions /\ a.idem = m.idem
  BY DEF StateOK, StateTypes, Fields
<1>2. Compacted(m).readable = (FitsEvidence(a) /\ FitsRecords(a, scopes))
  BY <1>1 DEF Compacted, Decoded, Encoded, Fields
<1> HIDE DEF a
<1>3. FitsEvidence(m) /\ FitsRecords(m, scopes)
  BY DecodesWithin
<1>4. FitsEvidence(a) /\ FitsRecords(a, scopes)
  BY <1>1, <1>3 DEF FitsEvidence, FitsRecords, ItemCount, SourceCount, StampedKeys
<1> QED BY <1>2, <1>4

\* A state that differs from one within bounds in what the bounds are not about.
LEMMA SameWithin ==
  ASSUME NEW s, NEW t, Within(s), t.functions = s.functions, t.asg = s.asg,
         t.sources = s.sources,
         \A k \in Slots : t.ev[<<"Authority", k>>].gen = s.ev[<<"Authority", k>>].gen
  PROVE  Within(t)
<1>1. Granted(t) = Granted(s)
  BY DEF Granted
<1> QED BY <1>1 DEF Within

\* One more in a set that has room.
LEMMA OneMore ==
  ASSUME NEW S, IsFiniteSet(S), NEW x, NEW n \in Nat, Cardinality(S) < n
  PROVE  IsFiniteSet(S \cup {x}) /\ Cardinality(S \cup {x}) <= n
<1>1. Cardinality(S) \in Nat /\ IsFiniteSet(S \cup {x})
  BY FS_CardinalityType, FS_AddElement
<1>2. Cardinality(S \cup {x}) \in {Cardinality(S), Cardinality(S) + 1}
  BY FS_AddElement
<1> QED BY <1>1, <1>2

\* Replay of a record for which there is room: the state stays readable and within
\* bounds, and the assignments are those it had and the one stored.
Holds(d, rec, e) ==
  /\ e.readable /\ Within(e)
  /\ e.stamps = Stamping(d.stamps, rec)
  /\ \A i \in DOMAIN e.asg : \/ i \in DOMAIN d.asg /\ e.asg[i] = d.asg[i]
                             \/ Stores(rec) /\ e.asg[i] = rec.record
\* A function.
LEMMA HoldsFunction ==
  ASSUME NEW d, StateOK(d), d.readable, Within(d), NEW rec \in Records, Admitted(rec, d),
         rec.type = "FunctionRegistered"
  PROVE  Holds(d, rec, Replayed(d, rec))
<1> DEFINE e == Replayed(d, rec)
<1>1. e = [d EXCEPT !.functions = Put(@, rec.function, rec.descriptor)]
  BY DEF Replayed
<1>2. /\ e.readable = d.readable
      /\ e.functions = Put(d.functions, rec.function, rec.descriptor)
      /\ e.asg = d.asg /\ e.ev = d.ev /\ e.sources = d.sources /\ e.stamps = d.stamps
  BY <1>1 DEF StateOK, StateTypes, Fields
<1> HIDE DEF e
<1>3. IsFiniteSet(DOMAIN e.functions) /\ Cardinality(DOMAIN e.functions) <= MaxFunctions
  <2> DEFINE S == DOMAIN d.functions
             x == rec.function
  <2>1. /\ IsFiniteSet(S) /\ Cardinality(S) <= MaxFunctions /\ MaxFunctions \in Nat
        /\ x \in S \/ Cardinality(S) < MaxFunctions
    BY RecoveryAssumption DEF Admitted, Within
  <2>2. DOMAIN e.functions = S \cup {x}
    BY <1>2 DEF Put
  <2> HIDE DEF S, x
  <2>3. CASE x \in S
    <3>1. S \cup {x} = S
      BY <2>3
    <3> QED BY <2>1, <2>2, <3>1
  <2>4. CASE Cardinality(S) < MaxFunctions
    <3>1. IsFiniteSet(S \cup {x}) /\ Cardinality(S \cup {x}) <= MaxFunctions
      BY <2>1, <2>4, OneMore
    <3> QED BY <2>2, <3>1
  <2> QED BY <2>1, <2>3, <2>4
<1>4. Granted(e) = Granted(d)
  BY <1>2 DEF Granted
<1>5. Holds(d, rec, e)
  BY <1>2, <1>3, <1>4 DEF Holds, Within, Stamping
<1> QED BY <1>5 DEF e

\* Evidence: at most one grant and one source more.
LEMMA HoldsEvidence ==
  ASSUME NEW d, StateOK(d), d.readable, Within(d), NEW rec \in Records, Admitted(rec, d),
         rec.type = "EvidenceIngested"
  PROVE  Holds(d, rec, Replayed(d, rec))
<1> DEFINE e == Replayed(d, rec)
           r == rec.report
           ep == rec.ep
<1>1. r \in Reports /\ ep \in Nat
  BY RecordFields
<1>2. e = Taken(Marked(d, r), r, ep)
  BY DEF Replayed, ReplayedEvidence
<1> HIDE DEF e, ep
<1>3. /\ e.ev = EvidenceWith(d, r, ep) /\ e.sources = SourcesWith(d, r)
      /\ e.functions = d.functions /\ e.asg = d.asg /\ e.stamps = d.stamps
  <2> HIDE DEF r
  <2> QED BY <1>1, <1>2, EvidenceFields DEF StateOK
<1>3a. e.readable = d.readable
  BY <1>2 DEF Taken, Marked, StateOK, StateTypes, Fields
<1>4. /\ r.dom \in Domains /\ r.src \in Sources /\ r.gen \in Nat \ {0} /\ r.slots \subseteq Slots
  BY <1>1, ReportFields
<1>5. ASSUME NEW k \in Sources \X Domains, e.sources[k].last # 0
      PROVE  k \in Reporting
  <2>1. CASE k = <<r.src, r.dom>>
    BY <1>1, <2>1 DEF Reporting
  <2>2. CASE k # <<r.src, r.dom>>
    <3>1. e.sources[k] = d.sources[k]
      BY <1>3, <2>2 DEF SourcesWith
    <3> QED BY <1>5, <3>1 DEF Within
  <2> QED BY <2>1, <2>2
<1>6. ASSUME NEW k \in Slots
      PROVE  e.ev[<<"Authority", k>>].gen =
               IF r.dom = "Authority" /\ k \in r.slots THEN r.gen ELSE d.ev[<<"Authority", k>>].gen
  <2>1. <<"Authority", k>> \in Domains \X Slots
    BY DEF Domains
  <2> QED BY <1>3, <2>1 DEF EvidenceWith
<1>7. IsFiniteSet(Granted(e)) /\ Cardinality(Granted(e)) <= MaxGrants
  <2>1. CASE r.dom # "Authority"
    <3>1. Granted(e) = Granted(d)
      BY <1>6, <2>1 DEF Granted
    <3> QED BY <3>1 DEF Within
  <2>2. CASE r.dom = "Authority"
    <3>1. PICK k \in Slots : r.slots = {k}
      BY <1>1, <2>2, RecoveryAssumption
    <3>2. Granted(e) = Granted(d) \cup {k}
      BY <1>4, <1>6, <2>2, <3>1 DEF Granted
    <3>3. IsFiniteSet(Granted(d)) /\ Cardinality(Granted(d)) < MaxGrants /\ MaxGrants \in Nat
      BY <2>2, RecoveryAssumption DEF Admitted, Within
    <3> QED BY <3>2, <3>3, OneMore
  <2> QED BY <2>1, <2>2
<1>8. Holds(d, rec, e)
  BY <1>3, <1>3a, <1>5, <1>7 DEF Holds, Within, Stamping
<1> QED BY <1>8 DEF e

\* A withdrawn grant still counts.
LEMMA HoldsWithdrawal ==
  ASSUME NEW d, StateOK(d), d.readable, Within(d), NEW rec \in Records,
         rec.type = "AuthorityWithdrawn"
  PROVE  Holds(d, rec, Replayed(d, rec))
<1> DEFINE e == Replayed(d, rec)
           g == rec.grant
           w == [d EXCEPT !.ev[<<"Authority", g>>].revoked = TRUE]
<1>1. g \in Slots
  BY RecordFields
<1>2. e = d \/ e = w
  BY DEF Replayed, ReplayedWithdrawal
<1>3. w.readable = d.readable
  BY DEF StateOK, StateTypes, Fields
<1>4. WithoutGrant(w, d, g)
  <2> DEFINE t == w
  <2>1. t = [d EXCEPT !.ev[<<"Authority", g>>].revoked = TRUE]
    OBVIOUS
  <2> HIDE DEF t
  <2>2. WithoutGrant(t, d, g)
    BY <1>1, <2>1, WithdrawnOK
  <2> QED BY <2>2 DEF t
<1> HIDE DEF e, w
<1>5. \A k \in Slots : <<"Authority", k>> \in Domains \X Slots
  BY DEF Domains
<1>6. Within(w)
  BY <1>4, <1>5, SameWithin DEF WithoutGrant
<1>7. Holds(d, rec, e)
  BY <1>2, <1>3, <1>4, <1>6 DEF Holds, WithoutGrant, Stamping
<1> QED BY <1>7 DEF e

\* An assignment whose number and history are within bounds.
LEMMA HoldsAssignment ==
  ASSUME NEW d, StateOK(d), d.readable, Within(d), NEW rec \in Records, Stores(rec),
         rec.id \in 1..MaxOrdinal, rec.record.hist <= MaxHistory
  PROVE  Holds(d, rec, Replayed(d, rec))
<1> DEFINE a == [d EXCEPT !.readable = @ /\ DecodesAssignment(rec.record),
                          !.asg = Put(@, rec.id, rec.record)]
           entry == Served(rec.fp, rec.id, rec.record)
           e == Replayed(d, rec)
<1>1. e = Remembered(a, rec.request, entry)
  BY DEF Replayed, ReplayedAssignment, Stores
<1>2. rec.id \in Nat /\ rec.record \in Assignment /\ rec.request \in Askers
  BY RecordFields
<1>3. /\ DOMAIN a = Fields /\ a.asg = Put(d.asg, rec.id, rec.record)
      /\ a.epoch = d.epoch /\ a.ordinal = d.ordinal /\ a.stamps = d.stamps
      /\ a.ev = d.ev /\ a.sources = d.sources /\ a.idem = d.idem /\ a.order = d.order
      /\ a.functions = d.functions
  BY DEF StateOK, StateTypes, Fields
<1>4. a.readable
  BY DEF StateOK, StateTypes, Fields, DecodesAssignment
<1> HIDE DEF a, entry, e
<1>5. StateOK(a)
  BY <1>2, <1>3, StoredOK
<1>6. SameRest(e, a)
  BY <1>1, <1>2, <1>5, RememberOK
<1>7. /\ DOMAIN e.asg = DOMAIN d.asg \cup {rec.id}
      /\ \A i \in DOMAIN e.asg : e.asg[i] = IF i = rec.id THEN rec.record ELSE d.asg[i]
  BY <1>3, <1>6 DEF SameRest, Put
<1>8. Granted(e) = Granted(d)
  BY <1>3, <1>6 DEF SameRest, Granted
<1>9. Within(e)
  BY <1>3, <1>6, <1>7, <1>8 DEF SameRest, Within
<1>10. Holds(d, rec, e)
  BY <1>3, <1>4, <1>6, <1>7, <1>9 DEF SameRest, Holds, Stores, Stamping
<1> QED BY <1>10 DEF e

\* A record of any type.
LEMMA HoldsRecord ==
  ASSUME NEW d, StateOK(d), d.readable, Within(d), NEW rec \in Records, Admitted(rec, d),
         Stores(rec) => rec.id \in 1..MaxOrdinal /\ rec.record.hist <= MaxHistory
  PROVE  Holds(d, rec, Replayed(d, rec))
<1> DEFINE e == Replayed(d, rec)
<1>1. CASE rec.type = "EpochStarted"
  <2>1. e = [d EXCEPT !.epoch = Greater(@, rec.epoch)]
    BY <1>1 DEF Replayed
  <2>2. /\ e.readable = d.readable /\ e.functions = d.functions
        /\ e.asg = d.asg /\ e.ev = d.ev /\ e.sources = d.sources /\ e.stamps = d.stamps
    BY <2>1 DEF StateOK, StateTypes, Fields
  <2> HIDE DEF e
  <2>3. Holds(d, rec, e)
    BY <1>1, <2>2, SameWithin DEF Holds, Stamping
  <2> QED BY <2>3 DEF e
<1>2. CASE rec.type = "ReassignmentRecorded"
  <2> DEFINE g == [d.stamps EXCEPT ![rec.key] = @ + 1]
  <2>1. e = [d EXCEPT !.stamps = g]
    BY <1>2 DEF Replayed, ReplayedStamp, StateOK, StateTypes, Fields
  <2>1a. g = Stamping(d.stamps, rec)
    BY <1>2 DEF Stamping
  <2> HIDE DEF g
  <2>2. /\ e.readable = d.readable /\ e.functions = d.functions
        /\ e.asg = d.asg /\ e.ev = d.ev /\ e.sources = d.sources /\ e.stamps = g
    BY <2>1 DEF StateOK, StateTypes, Fields
  <2> HIDE DEF e
  <2>3. Holds(d, rec, e)
    BY <1>2, <2>1a, <2>2, SameWithin DEF Holds
  <2> QED BY <2>3 DEF e
<1>3. CASE rec.type = "RequestRecorded"
  <2> DEFINE entry == Refused(rec.fp)
  <2>1. e = Remembered(d, rec.request, entry)
    BY <1>3 DEF Replayed
  <2>2. rec.request \in Askers
    BY <1>3, RecordFields
  <2> HIDE DEF e, entry
  <2>3. SameRest(e, d)
    BY <2>1, <2>2, RememberOK
  <2>4. Holds(d, rec, e)
    BY <1>3, <2>3, SameWithin DEF Holds, SameRest, Stamping
  <2> QED BY <2>4 DEF e
<1>4. rec.type \in {"FunctionRegistered", "EvidenceIngested", "AuthorityWithdrawn",
                    "ReassignmentRecorded", "RequestRecorded", "EpochStarted"} \/ Stores(rec)
  BY RecordFields DEF Stores
<1> QED BY <1>1, <1>2, <1>3, <1>4, HoldsFunction, HoldsEvidence, HoldsWithdrawal,
           HoldsAssignment

\* A history that stays within bounds.
LEMMA MovedShort ==
  ASSUME NEW r \in Assignment, NEW n \in Nat, Short(r.hist, n),
         NEW st, NEW q, q = Moved(r, st)
  PROVE  Short(q.hist, n + 1)
<1>1. r.hist \in Nat /\ q.hist = TrimHistory(r.hist + 1) /\ MaxHistory \in Nat
  BY RecoveryAssumption DEF Assignment, Moved
<1> QED BY <1>1 DEF Short, TrimHistory, Lesser

\* A later bound is a larger one.
LEMMA LongerShort ==
  ASSUME NEW h \in Nat, NEW n \in Nat, NEW m \in Nat, n <= m, Short(h, n)
  PROVE  Short(h, m)
BY DEF Short

Unstamped(p) == \A k \in 1..Len(p) : p[k].type # "ReassignmentRecorded"

\* Two sequences of records one of which has no stamp.
LEMMA ConcatBounded ==
  ASSUME NEW p \in Seq(Records), NEW q \in Seq(Records), NEW n,
         Bounded(p, n), Bounded(q, n), Unstamped(p) \/ Unstamped(q)
  PROVE  /\ Bounded(p \o q, n)
         /\ Unstamped(p) /\ Unstamped(q) => Unstamped(p \o q)
<1> DEFINE s == p \o q
<1>1. Len(p) \in Nat /\ Len(q) \in Nat
  BY LenProperties
<1>2. /\ Len(s) = Len(p) + Len(q)
      /\ \A k \in 1..Len(p) + Len(q) : s[k] = IF k <= Len(p) THEN p[k] ELSE q[k - Len(p)]
  BY <1>1, ConcatProperties
<1> HIDE DEF s
<1>3. ASSUME NEW k \in 1..Len(s)
      PROVE  \/ k \in 1..Len(p) /\ s[k] = p[k]
             \/ k > Len(p) /\ k - Len(p) \in 1..Len(q) /\ s[k] = q[k - Len(p)]
  BY <1>1, <1>2
<1>4. \A k \in 1..Len(s) :
        Stores(s[k]) => s[k].id \in 1..MaxOrdinal /\ Short(s[k].record.hist, n)
  BY <1>3 DEF Bounded
<1>5. ASSUME NEW i \in 1..Len(s), NEW j \in 1..Len(s), Stamped(s, i), Stamped(s, j)
      PROVE  i = j
  <2>1. CASE i \in 1..Len(p) /\ s[i] = p[i] /\ j \in 1..Len(p) /\ s[j] = p[j]
    BY <1>5, <2>1 DEF Bounded, Stamped
  <2>2. CASE /\ i - Len(p) \in 1..Len(q) /\ s[i] = q[i - Len(p)]
             /\ j - Len(p) \in 1..Len(q) /\ s[j] = q[j - Len(p)]
    <3>1. i - Len(p) = j - Len(p)
      BY <1>5, <2>2 DEF Bounded, Stamped
    <3> QED BY <1>1, <3>1
  <2>3. CASE ~Unstamped(p)
    BY <1>3, <1>5, <2>1, <2>3 DEF Unstamped, Stamped
  <2>4. CASE ~Unstamped(q)
    BY <1>3, <1>5, <2>2, <2>4 DEF Unstamped, Stamped
  <2>5. CASE Unstamped(p) /\ Unstamped(q)
    BY <1>3, <1>5, <2>5 DEF Unstamped, Stamped
  <2> QED BY <2>3, <2>4, <2>5
<1>6. Bounded(s, n)
  BY <1>4, <1>5 DEF Bounded
<1>7. Unstamped(p) /\ Unstamped(q) => Unstamped(s)
  BY <1>3 DEF Unstamped
<1> QED BY <1>6, <1>7 DEF s

\* One record.
LEMMA OneBounded ==
  ASSUME NEW rec, NEW n, NEW p, p = <<rec>>,
         Stores(rec) => rec.id \in 1..MaxOrdinal /\ Short(rec.record.hist, n)
  PROVE  /\ Bounded(p, n)
         /\ rec.type # "ReassignmentRecorded" => Unstamped(p)
<1>1. Len(p) = 1 /\ p[1] = rec
  OBVIOUS
<1> QED BY <1>1 DEF Bounded, Stamped, Unstamped

\* The records of a revalidation, a supersession or a suspension.
LEMMA TransitionsBounded ==
  ASSUME NEW s, StateOK(s), Within(s), NEW n \in Nat,
         \A i \in DOMAIN s.asg : Short(s.asg[i].hist, n),
         NEW to, DOMAIN to \subseteq DOMAIN s.asg
  PROVE  Bounded(Transitions(s, to), n + 1) /\ Unstamped(Transitions(s, to))
<1> DEFINE ids == InOrder(DOMAIN to)
           p == Transitions(s, to)
           Rec(k) == AssignmentStored(ids[k], Moved(s.asg[ids[k]], to[ids[k]]), NoRequest,
                                      NoReport)
<1>1. IsFiniteSet(DOMAIN to) /\ DOMAIN to \subseteq Nat
  BY FS_Subset DEF StateOK, StateTypes
<1>2. ids \in Seq(DOMAIN to) /\ Len(ids) \in Nat
  BY <1>1, InOrderLists, LenProperties DEF Lists
<1>3. p = [k \in 1..Len(ids) |-> Rec(k)]
  BY DEF Transitions
<1> HIDE DEF ids, p
<1>4. Len(p) = Len(ids) /\ \A k \in 1..Len(p) : p[k] = Rec(k)
  BY <1>2, <1>3
<1>5. ASSUME NEW k \in 1..Len(p)
      PROVE  /\ p[k].type = "AssignmentStored" /\ p[k].id \in 1..MaxOrdinal
             /\ Short(p[k].record.hist, n + 1)
  <2> DEFINE i == ids[k]
             r == Moved(s.asg[i], to[i])
  <2>1. i \in DOMAIN s.asg /\ s.asg[i] \in Assignment /\ Short(s.asg[i].hist, n)
        /\ i \in 1..MaxOrdinal
    BY <1>2, <1>4 DEF StateOK, StateTypes, Within
  <2>2. p[k].type = "AssignmentStored" /\ p[k].id = i /\ p[k].record = r
    <3>1. p[k] = AssignmentStored(i, r, NoRequest, NoReport)
      BY <1>4
    <3> HIDE DEF i, r
    <3> QED BY <3>1 DEF AssignmentStored
  <2>3. Short(r.hist, n + 1)
    <3> DEFINE a == s.asg[i]
               st == to[i]
    <3>1. a \in Assignment /\ Short(a.hist, n) /\ r = Moved(a, st)
      BY <2>1
    <3> HIDE DEF a, st, r
    <3> QED BY <3>1, MovedShort
  <2> QED BY <2>1, <2>2, <2>3
<1>6. Bounded(p, n + 1) /\ Unstamped(p)
  BY <1>5 DEF Bounded, Unstamped, Stamped
<1> QED BY <1>6 DEF p

\* A running coordinator between two operations.
LEMMA IdleFacts ==
  ASSUME RecoveryInv, StoreInv, Idle
  PROVE  /\ StateOK(mem) /\ Within(mem) /\ mem.epoch = disk.epoch /\ mem.epoch \in Nat
         /\ disk.asg = mem.asg /\ mem.epoch <= MaxEpoch /\ Alike(disk, mem)
         /\ calls \in Nat /\ calls + mem.epoch \in Nat
         /\ \A i \in DOMAIN mem.asg : /\ i \in 1..MaxOrdinal /\ mem.asg[i] \in Assignment
                                      /\ Short(mem.asg[i].hist, calls + mem.epoch)
<1>1. phase = "up" /\ pending = <<>> /\ Alike(disk, mem) /\ mem.epoch = disk.epoch
  BY DEF Idle, RecoveryInv, Running, Starting
<1>2. Within(mem) /\ disk.asg = mem.asg
  BY <1>1, AlikeWithin DEF StoreInv
<1>3. StateOK(mem) /\ mem.epoch \in Nat /\ calls \in Nat
  BY DEF RecoveryInv, StateOK, StateTypes, StoreInv
<1>4. \A i \in DOMAIN mem.asg : /\ i \in 1..MaxOrdinal /\ mem.asg[i] \in Assignment
                                /\ Short(mem.asg[i].hist, calls + mem.epoch)
  BY <1>1, <1>2, <1>3 DEF StoreInv, Within, StateOK, StateTypes
<1>5. calls + mem.epoch \in Nat /\ mem.epoch <= MaxEpoch
  BY <1>1, <1>3 DEF StoreInv
<1> QED BY <1>1, <1>2, <1>3, <1>4, <1>5

\* An operation begins.
LEMMA StoreBegins ==
  ASSUME RecoveryInv, StoreInv, NEW p, Begin(p), SameButOrdinal(mem', mem),
         Bounded(p, calls + mem.epoch + 1), p # <<>> => Admitted(p[1], mem)
  PROVE  StoreInv'
<1>1. /\ Idle /\ pending' = p /\ phase' = phase /\ disk' = disk /\ calls' = calls + 1
      /\ calls < MaxCalls
  BY DEF Begin
<1>2. /\ mem'.epoch = mem.epoch /\ mem'.ev = mem.ev /\ mem'.functions = mem.functions
  BY OrdinalOK DEF RecoveryInv
<1>3. /\ mem.epoch = disk.epoch /\ mem.epoch \in Nat /\ calls \in Nat
      /\ \A i \in DOMAIN disk.asg : /\ disk.asg[i] \in Assignment
                                    /\ Short(disk.asg[i].hist, calls + disk.epoch)
  BY <1>1, IdleFacts
<1>4. ASSUME NEW i \in DOMAIN disk.asg
      PROVE  Short(disk.asg[i].hist, calls' + disk.epoch)
  <2>1. calls + disk.epoch \in Nat /\ calls' + disk.epoch \in Nat
        /\ calls + disk.epoch <= calls' + disk.epoch
    BY <1>1, <1>3
  <2>2. disk.asg[i].hist \in Nat
    BY <1>3 DEF Assignment
  <2> QED BY <1>3, <2>1, <2>2, LongerShort
<1>5. calls' \in Nat /\ calls' <= MaxCalls
  <2>1. MaxCalls \in Nat
    BY RecoveryAssumption
  <2> QED BY <1>1, <1>3, <2>1
<1>6. \A k \in Keys : disk.stamps[k] + 2 <= 2 * calls' /\ disk.stamps[k] <= 2 * calls'
  <2> SUFFICES ASSUME NEW k \in Keys
               PROVE  disk.stamps[k] + 2 <= 2 * calls' /\ disk.stamps[k] <= 2 * calls'
    OBVIOUS
  <2>1. disk.stamps[k] \in Nat /\ disk.stamps[k] <= 2 * calls
    BY DEF RecoveryInv, StateOK, StateTypes, StoreInv
  <2> QED BY <1>1, <1>3, <2>1
<1>7. calls' + mem'.epoch = calls + mem.epoch + 1
  BY <1>1, <1>2, <1>3
<1>8. p # <<>> => Admitted(p[1], mem')
  BY <1>2 DEF Admitted, Granted
<1>9. Bounded(pending', calls' + mem'.epoch)
  BY <1>1, <1>7
<1>10. disk.readable /\ Within(disk) /\ disk.epoch <= MaxEpoch
       /\ (phase = "up" => mem'.epoch <= MaxEpoch)
  BY <1>2 DEF StoreInv
<1> QED BY <1>1, <1>4, <1>5, <1>6, <1>8, <1>9, <1>10 DEF StoreInv

\* The operations that write one record of an assignment, or refuse a request.
LEMMA StoreAnswers ==
  ASSUME RecoveryInv, StoreInv, NEW rec, rec.type \in LaterTypes, NEW p, p = <<rec>>, Begin(p),
         mem' = mem,
         Stores(rec) => /\ rec.id \in DOMAIN mem.asg
                        /\ Short(rec.record.hist, calls + mem.epoch + 1)
  PROVE  StoreInv'
<1>1. Idle
  BY DEF Begin
<1>2. Stores(rec) => rec.id \in 1..MaxOrdinal
  BY <1>1, IdleFacts
<1>3. Bounded(p, calls + mem.epoch + 1)
  BY <1>2, OneBounded
<1>4. p[1] = rec /\ Admitted(rec, mem)
  BY DEF Admitted, LaterTypes
<1>5. SameButOrdinal(mem', mem)
  BY DEF SameButOrdinal
<1> QED BY <1>3, <1>4, <1>5, StoreBegins

\* A first record without assignment or stamp, then the transitions of a revalidation.
LEMMA StoreRevalidates ==
  ASSUME RecoveryInv, StoreInv, NEW rec \in Records, Admitted(rec, mem), ~Stores(rec),
         rec.type # "ReassignmentRecorded", NEW to \in Verdicts(mem), mem' = mem,
         NEW one, one = <<rec>>, NEW p, p = one \o Transitions(mem, to), Begin(p)
  PROVE  StoreInv'
<1> DEFINE q == Transitions(mem, to)
           n == calls + mem.epoch
<1>1. Idle
  BY DEF Begin
<1>2. /\ StateOK(mem) /\ Within(mem) /\ n \in Nat
      /\ \A i \in DOMAIN mem.asg : Short(mem.asg[i].hist, n)
  BY <1>1, IdleFacts
<1>3. DOMAIN to \subseteq DOMAIN mem.asg
  BY DEF Verdicts, LiveIds
<1> HIDE DEF n
<1>4. Bounded(q, n + 1) /\ Unstamped(q) /\ q \in Seq(Records)
  BY <1>2, <1>3, TransitionsBounded, VerdictsPlain DEF Plain
<1>5. Bounded(one, n + 1) /\ Unstamped(one) /\ one \in Seq(Records) /\ one[1] = rec
      /\ Len(one) = 1
  BY OneBounded
<1>6. p = one \o q
  OBVIOUS
<1> HIDE DEF q
<1>7. Bounded(p, n + 1)
  BY <1>4, <1>5, <1>6, ConcatBounded
<1>8. p[1] = rec
  <2>1. Len(q) \in Nat
    BY <1>4, LenProperties
  <2>2. 1 \in 1..Len(one) + Len(q)
    BY <1>5, <2>1
  <2> QED BY <1>4, <1>5, <1>6, <2>2, ConcatProperties
<1>9. SameButOrdinal(mem', mem)
  BY DEF SameButOrdinal
<1> QED BY <1>7, <1>8, <1>9, StoreBegins DEF n

\* register_function counts the functions, as decode_state does.
LEMMA StoreRegisters ==
  ASSUME RecoveryInv, StoreInv, NEW f \in Functions, NEW d \in Descriptors,
         RegisterFunction(f, d)
  PROVE  StoreInv'
<1> DEFINE rec == FunctionRegistered(f, d)
           p == <<rec>>
<1>1. rec.type = "FunctionRegistered" /\ ~Stores(rec) /\ rec.function = f
  BY DEF FunctionRegistered, Stores
<1>2. /\ Begin(p) /\ SameButOrdinal(mem', mem)
      /\ f \in DOMAIN mem.functions \/ Cardinality(DOMAIN mem.functions) < MaxFunctions
  BY DEF RegisterFunction, SameButOrdinal, RegistryOpen
<1> HIDE DEF rec
<1>3. Admitted(rec, mem) /\ p[1] = rec
  BY <1>1, <1>2 DEF Admitted
<1>4. Bounded(p, calls + mem.epoch + 1)
  BY <1>1, OneBounded
<1> HIDE DEF p
<1> QED BY <1>2, <1>3, <1>4, StoreBegins

\* The ingest functions and grant_authority.
LEMMA StoreIngests ==
  ASSUME RecoveryInv, StoreInv, NEW r \in Reports, NEW to \in Verdicts(mem), Ingest(r, to)
  PROVE  StoreInv'
<1> DEFINE rec == EvidenceIngested(r, mem.epoch)
           one == <<rec>>
           p == one \o Transitions(mem, to)
<1>1. mem.epoch \in Nat
  BY DEF RecoveryInv, StateOK, StateTypes
<1>2. rec \in Records /\ rec.type = "EvidenceIngested" /\ ~Stores(rec) /\ rec.report = r
  BY <1>1 DEF EvidenceIngested, Records, Stores
<1>3. Begin(p) /\ mem' = mem /\ Admissible(mem, r)
  BY DEF Ingest
<1> HIDE DEF rec
<1>4. Admitted(rec, mem)
  BY <1>2, <1>3 DEF Admitted, Admissible, ItemCount, Granted
<1>5. one = <<rec>> /\ p = one \o Transitions(mem, to)
  OBVIOUS
<1> HIDE DEF one, p
<1> QED BY <1>2, <1>3, <1>4, <1>5, StoreRevalidates

\* withdraw_authority.
LEMMA StoreWithdraws ==
  ASSUME RecoveryInv, StoreInv, NEW k \in Slots, NEW to \in Verdicts(mem),
         WithdrawAuthority(k, to)
  PROVE  StoreInv'
<1> DEFINE rec == AuthorityWithdrawn(k)
           one == <<rec>>
           p == one \o Transitions(mem, to)
<1>1. rec \in Records /\ rec.type = "AuthorityWithdrawn" /\ ~Stores(rec)
  BY DEF AuthorityWithdrawn, Records, Stores
<1>2. Begin(p) /\ mem' = mem
  BY DEF WithdrawAuthority
<1> HIDE DEF rec
<1>3. Admitted(rec, mem)
  BY <1>1 DEF Admitted
<1>4. one = <<rec>> /\ p = one \o Transitions(mem, to)
  OBVIOUS
<1> HIDE DEF one, p
<1> QED BY <1>1, <1>2, <1>3, <1>4, StoreRevalidates

\* revalidate.
LEMMA StoreMoves ==
  ASSUME RecoveryInv, StoreInv, NEW to \in Verdicts(mem), Revalidate(to)
  PROVE  StoreInv'
<1> DEFINE p == Transitions(mem, to)
           n == calls + mem.epoch
<1>1. Begin(p) /\ mem' = mem /\ Idle
  BY DEF Revalidate, Begin
<1>2. /\ StateOK(mem) /\ Within(mem) /\ n \in Nat
      /\ \A i \in DOMAIN mem.asg : Short(mem.asg[i].hist, n)
  BY <1>1, IdleFacts
<1>3. DOMAIN to \subseteq DOMAIN mem.asg
  BY DEF Verdicts, LiveIds
<1> HIDE DEF n
<1>4. Bounded(p, n + 1)
  BY <1>2, <1>3, TransitionsBounded
<1>5. Plain(p)
  BY VerdictsPlain
<1> HIDE DEF p
<1>6. p # <<>> => Admitted(p[1], mem)
  <2>1. p # <<>> => 1 \in 1..Len(p)
    BY <1>5, LenProperties DEF Plain
  <2> QED BY <1>5, <2>1 DEF Plain, LaterTypes, Admitted
<1>7. SameButOrdinal(mem', mem)
  BY <1>1 DEF SameButOrdinal
<1> QED BY <1>1, <1>4, <1>6, <1>7, StoreBegins DEF n

\* record_refusal.
LEMMA StoreRefuses ==
  ASSUME RecoveryInv, StoreInv, NEW id \in RequestIds, NEW op \in Operations,
         RefusePlacement(id, op)
  PROVE  StoreInv'
<1> DEFINE rec == RequestRecorded(id, op)
           p == <<rec>>
<1>1. rec.type \in LaterTypes /\ ~Stores(rec)
  BY DEF RequestRecorded, LaterTypes, Stores
<1>2. Begin(p) /\ mem' = mem
  BY DEF RefusePlacement, ActsOn
<1> HIDE DEF rec
<1>3. p = <<rec>>
  OBVIOUS
<1> HIDE DEF p
<1> QED BY <1>1, <1>2, <1>3, StoreAnswers

\* revoke.
LEMMA StoreRevokes ==
  ASSUME RecoveryInv, StoreInv, NEW id \in RequestIds, NEW op \in Operations, Revoke(id, op)
  PROVE  StoreInv'
<1> DEFINE i == op.target
           a == mem.asg[i]
           r == Moved(a, "Revoked")
           rec == AssignmentStored(i, r, id, op)
           p == <<rec>>
           n == calls + mem.epoch
<1>1. i \in DOMAIN mem.asg /\ Begin(p) /\ mem' = mem /\ Idle
  BY DEF Revoke, ActsOn, Begin
<1>2. n \in Nat /\ a \in Assignment /\ Short(a.hist, n)
  BY <1>1, IdleFacts
<1> HIDE DEF i, a, n
<1>3. Short(r.hist, n + 1)
  BY <1>2, MovedShort
<1> HIDE DEF r
<1>4. rec.type \in LaterTypes /\ rec.id = i /\ rec.record = r
  BY DEF AssignmentStored, LaterTypes
<1> HIDE DEF rec
<1>5. p = <<rec>>
  OBVIOUS
<1> HIDE DEF p
<1>6. Short(rec.record.hist, calls + mem.epoch + 1)
  BY <1>3, <1>4 DEF n
<1> QED BY <1>1, <1>4, <1>5, <1>6, StoreAnswers

\* reauthorize.
LEMMA StoreReauthorizes ==
  ASSUME RecoveryInv, StoreInv, NEW id \in RequestIds, NEW op \in Operations,
         Reauthorize(id, op)
  PROVE  StoreInv'
<1> DEFINE i == op.target
           a == mem.asg[i]
           Again(st) == [Moved(a, st) EXCEPT !.ep = mem.epoch, !.told = {}]
           n == calls + mem.epoch
<1>1. PICK st \in {"Dispatched", "Degraded"} :
        Begin(<<AssignmentStored(i, Again(st), id, op)>>)
  BY DEF Reauthorize, ActsOn
<1> DEFINE m == Moved(a, st)
           r == Again(st)
           rec == AssignmentStored(i, r, id, op)
           p == <<rec>>
<1>2. i \in DOMAIN mem.asg /\ Begin(p) /\ mem' = mem /\ Idle
  BY <1>1 DEF Reauthorize, Begin
<1>3. n \in Nat /\ a \in Assignment /\ Short(a.hist, n)
  BY <1>2, IdleFacts
<1> HIDE DEF i, a, n
<1>4. Short(m.hist, n + 1) /\ m \in Assignment
  BY <1>3, MovedShort, MovedType
<1> HIDE DEF m
<1>5. r.hist = m.hist
  <2>1. r = [m EXCEPT !.ep = mem.epoch, !.told = {}]
    BY DEF m
  <2> QED BY <1>4, <2>1 DEF Assignment
<1> HIDE DEF r
<1>6. rec.type \in LaterTypes /\ rec.id = i /\ rec.record = r
  BY DEF AssignmentStored, LaterTypes
<1> HIDE DEF rec
<1>7. p = <<rec>>
  OBVIOUS
<1> HIDE DEF p
<1>8. Short(rec.record.hist, calls + mem.epoch + 1)
  BY <1>4, <1>5, <1>6 DEF n
<1> QED BY <1>2, <1>6, <1>7, <1>8, StoreAnswers

\* report_effect trims before it adds: it needs room for one entry more.
LEMMA StoreReports ==
  ASSUME Roomy, RecoveryInv, StoreInv, NEW id \in RequestIds, NEW op \in Operations,
         ReportEffect(id, op)
  PROVE  StoreInv'
<1> DEFINE i == op.target
           a == mem.asg[i]
           r == Effected(a, op.outcome)
           rec == EffectRecorded(i, r, id, op)
           p == <<rec>>
           n == calls + mem.epoch
<1>1. /\ i \in DOMAIN mem.asg /\ Begin(p) /\ mem' = mem /\ Idle /\ op.kind = "effect"
      /\ calls < MaxCalls
  BY DEF ReportEffect, ActsOn, Begin
<1>2. n \in Nat /\ a \in Assignment /\ Short(a.hist, n) /\ calls \in Nat /\ mem.epoch \in Nat
      /\ mem.epoch <= MaxEpoch
  BY <1>1, IdleFacts
<1>3. 2 + n + 1 <= MaxHistory
  <2>1. 2 + MaxCalls + MaxEpoch <= MaxHistory /\ MaxCalls \in Nat /\ MaxEpoch \in Nat
    BY <1>1, RecoveryAssumption DEF Roomy, Effects
  <2>2. MaxHistory \in Nat
    BY RecoveryAssumption
  <2> QED BY <1>1, <1>2, <2>1, <2>2
<1> HIDE DEF i, a, n
<1>4. r.hist = TrimHistory(a.hist) + 1
  BY <1>2 DEF Effected, Assignment
<1>5. Short(r.hist, n + 1)
  <2>1. a.hist \in Nat /\ a.hist <= 2 + n /\ MaxHistory \in Nat
    BY <1>1, <1>2, RecoveryAssumption DEF Short, Effects, Assignment
  <2>2. r.hist <= 2 + n + 1
    BY <1>2, <1>4, <2>1 DEF TrimHistory, Lesser
  <2>3. r.hist \in Nat
    BY <1>4, <2>1 DEF TrimHistory, Lesser
  <2> QED BY <1>2, <1>3, <2>1, <2>2, <2>3 DEF Short
<1> HIDE DEF r
<1>6. rec.type \in LaterTypes /\ rec.id = i /\ rec.record = r
  BY DEF EffectRecorded, LaterTypes
<1> HIDE DEF rec
<1>7. p = <<rec>>
  OBVIOUS
<1> HIDE DEF p
<1>8. Short(rec.record.hist, calls + mem.epoch + 1)
  BY <1>5, <1>6 DEF n
<1> QED BY <1>1, <1>6, <1>7, <1>8, StoreAnswers

\* authorize_locked: a supersession, one stamp, and the new assignment.
LEMMA StorePlaces ==
  ASSUME RecoveryInv, StoreInv, NEW id \in RequestIds, NEW op \in Operations, NEW old,
         Place(id, op, old)
  PROVE  StoreInv'
<1> DEFINE displaced == [j \in old |-> "Superseded"]
           moves == Transitions(mem, displaced)
           w == ReassignmentRecorded(op.key)
           stamp == IF old = {} THEN <<>> ELSE <<w>>
           i == mem.ordinal + 1
           fp == Synthetic(op)
           r == NewAssignment(op)
           rec == AssignmentStored(i, r, id, fp)
           one == <<rec>>
           q == moves \o stamp
           p == q \o one
           n == calls + mem.epoch
<1>1. Begin(p) /\ mem' = [mem EXCEPT !.ordinal = i] /\ i <= MaxOrdinal /\ Idle
  BY DEF Place, ActsOn, Begin
<1>1a. op.key \in Keys
  BY DEF Place, Keys
<1>2. /\ StateOK(mem) /\ Within(mem) /\ n \in Nat
      /\ \A j \in DOMAIN mem.asg : Short(mem.asg[j].hist, n)
  BY <1>1, IdleFacts
<1>3. mem.ordinal \in Nat /\ mem.epoch \in Nat /\ MaxOrdinal \in Nat
  BY RecoveryAssumption DEF RecoveryInv, StateOK, StateTypes
<1>4. i \in 1..MaxOrdinal /\ i \in Nat
  BY <1>1, <1>3
<1>5. SameButOrdinal(mem', mem)
  <2>1. mem' = [mem EXCEPT !.ordinal = i] /\ i \in Nat
    BY <1>1, <1>4
  <2> HIDE DEF i
  <2> QED BY <2>1, Zenon DEF SameButOrdinal
<1>6. r \in Assignment /\ Short(r.hist, n + 1)
  <2>1. r \in Assignment /\ r.hist = TrimHistory(2)
    BY <1>1a, <1>3, RecoveryAssumption
       DEF NewAssignment, Assignment, TrimHistory, Lesser, Outcomes
  <2>2. TrimHistory(2) <= 2 /\ TrimHistory(2) <= MaxHistory /\ TrimHistory(2) \in Nat
    BY RecoveryAssumption DEF TrimHistory, Lesser
  <2> HIDE DEF r, n
  <2> QED BY <1>2, <2>1, <2>2 DEF Short
<1>7. fp \in Operation
  BY RecoveryAssumption DEF Synthetic, Operation
<1> HIDE DEF n
<1>8. Plain(moves) /\ Bounded(moves, n + 1) /\ Unstamped(moves)
  <2>1. DOMAIN displaced \subseteq DOMAIN mem.asg
    BY DEF Place, GivingWay
  <2>2. \A j \in DOMAIN displaced : displaced[j] \in {"Suspended", "Degraded", "Superseded"}
    OBVIOUS
  <2> HIDE DEF displaced
  <2> QED BY <1>2, <2>1, <2>2, TransitionsPlain, TransitionsBounded
<1>9. stamp \in Seq(Records) /\ Bounded(stamp, n + 1)
      /\ \A k \in 1..Len(stamp) : stamp[k].type \in LaterTypes
  <2>1. w \in Records /\ ~Stores(w) /\ w.type \in LaterTypes
    BY <1>1a DEF ReassignmentRecorded, Records, Stores, LaterTypes
  <2> HIDE DEF w
  <2>2. <<w>> \in Seq(Records) /\ Bounded(<<w>>, n + 1)
        /\ \A k \in 1..Len(<<w>>) : <<w>>[k].type \in LaterTypes
    BY <2>1, OneBounded
  <2>3. <<>> \in Seq(Records) /\ Bounded(<<>>, n + 1)
        /\ \A k \in 1..Len(<<>>) : <<>>[k].type \in LaterTypes
    BY DEF Bounded
  <2> QED BY <2>2, <2>3
<1>10. /\ rec \in Records /\ rec.type = "AssignmentStored" /\ rec.id = i /\ rec.record = r
  <2> HIDE DEF i, fp, r
  <2>1. rec \in Records
    BY <1>4, <1>6, <1>7, StoringRecord
  <2> QED BY <2>1 DEF AssignmentStored
<1> HIDE DEF moves, stamp, rec, i, r
<1>11. q \in Seq(Records) /\ Bounded(q, n + 1)
  BY <1>8, <1>9, ConcatBounded, ConcatProperties DEF Plain
<1>12. one \in Seq(Records) /\ Bounded(one, n + 1) /\ Unstamped(one)
  BY <1>4, <1>6, <1>10, OneBounded
<1>13. \A k \in 1..Len(q) : q[k].type \in LaterTypes
  <2>1. moves \in Seq(Records) /\ Len(moves) \in Nat /\ Len(stamp) \in Nat
    BY <1>8, <1>9, LenProperties DEF Plain
  <2>2. /\ Len(q) = Len(moves) + Len(stamp)
        /\ \A k \in 1..Len(moves) + Len(stamp) :
             q[k] = IF k <= Len(moves) THEN moves[k] ELSE stamp[k - Len(moves)]
    BY <1>9, <2>1, ConcatProperties
  <2> HIDE DEF q
  <2> QED BY <1>8, <1>9, <2>1, <2>2 DEF Plain
<1> HIDE DEF q, one
<1>14. Bounded(p, n + 1)
  BY <1>11, <1>12, ConcatBounded
<1>15. p # <<>> => Admitted(p[1], mem)
  <2>1. Len(q) \in Nat /\ Len(one) = 1 /\ one[1] = rec
    BY <1>11, LenProperties DEF one
  <2>2. p[1] = IF 1 <= Len(q) THEN q[1] ELSE one[1 - Len(q)]
    <3>1. 1 \in 1..Len(q) + Len(one)
      BY <2>1
    <3> QED BY <1>11, <1>12, <3>1, ConcatProperties
  <2>3. p[1].type \in LaterTypes
    <3>1. CASE 1 <= Len(q)
      BY <1>13, <2>1, <2>2, <3>1
    <3>2. CASE ~(1 <= Len(q))
      <4>1. 1 - Len(q) = 1
        BY <2>1, <3>2
      <4> QED BY <1>10, <2>1, <2>2, <3>2, <4>1 DEF LaterTypes
    <3> QED BY <3>1, <3>2
  <2> QED BY <2>3 DEF LaterTypes, Admitted
<1> HIDE DEF p
<1> QED BY <1>1, <1>5, <1>14, <1>15, StoreBegins DEF n

\* Fabric::start: one transition for whatever is live, in the next epoch.
LEMMA StoreStarts ==
  ASSUME RecoveryInv, StoreInv, Start
  PROVE  StoreInv'
<1> DEFINE live == {j \in LiveIds(disk) : disk.asg[j].st # "Suspended"}
           to == [i \in live |-> "Suspended"]
           rec == EpochStarted(disk.epoch + 1)
           one == <<rec>>
           q == Transitions(disk, to)
           n == calls + disk.epoch
<1>1. /\ phase' = "up" /\ mem' = [Rebuilt(disk) EXCEPT !.epoch = disk.epoch + 1]
      /\ pending' = one \o q /\ disk' = disk /\ calls' = calls /\ disk.epoch < MaxEpoch
  BY DEF Start
<1>2. StateOK(disk) /\ disk.epoch \in Nat /\ calls \in Nat /\ MaxEpoch \in Nat
  BY RecoveryAssumption DEF RecoveryInv, StateOK, StateTypes, StoreInv
<1>3. mem'.epoch = disk.epoch + 1
  BY <1>1, <1>2, RebuiltOK
<1>4. rec \in Records /\ rec.type = "EpochStarted" /\ ~Stores(rec)
  BY <1>2 DEF EpochStarted, Records, Stores
<1>5. q \in Seq(Records) /\ Bounded(q, n + 1) /\ Unstamped(q)
  <2>1. DOMAIN to \subseteq DOMAIN disk.asg
    BY DEF LiveIds
  <2>2. \A i \in DOMAIN to : to[i] \in {"Suspended", "Degraded", "Superseded"}
    OBVIOUS
  <2>3. n \in Nat /\ Within(disk) /\ \A i \in DOMAIN disk.asg : Short(disk.asg[i].hist, n)
    BY <1>2 DEF StoreInv
  <2> HIDE DEF to, n
  <2> QED BY <1>2, <2>1, <2>2, <2>3, TransitionsPlain, TransitionsBounded DEF Plain
<1> HIDE DEF rec, q
<1>6. /\ one \in Seq(Records) /\ Bounded(one, n + 1) /\ Unstamped(one) /\ Len(one) = 1
      /\ one[1] = rec
  BY <1>4, OneBounded
<1> HIDE DEF one
<1>7. Bounded(pending', n + 1) /\ Unstamped(pending')
  BY <1>1, <1>5, <1>6, ConcatBounded
<1>8. pending'[1] = rec
  <2>1. Len(q) \in Nat
    BY <1>5, LenProperties
  <2>2. 1 \in 1..Len(one) + Len(q)
    BY <1>6, <2>1
  <2>3. \A k \in 1..Len(one) + Len(q) : (one \o q)[k] = IF k <= Len(one) THEN one[k]
                                                       ELSE q[k - Len(one)]
    BY <1>5, <1>6, ConcatProperties
  <2> DEFINE c == one \o q
  <2>4. pending' = c /\ \A k \in 1..Len(one) + Len(q) : c[k] = IF k <= Len(one) THEN one[k]
                                                               ELSE q[k - Len(one)]
    BY <1>1, <2>3
  <2> HIDE DEF c
  <2> QED BY <1>6, <2>2, <2>4
<1>9. Admitted(pending'[1], mem')
  BY <1>4, <1>8 DEF Admitted
<1>10. calls' + mem'.epoch = n + 1 /\ mem'.epoch <= MaxEpoch
  BY <1>1, <1>2, <1>3
<1>11. Bounded(pending', calls' + mem'.epoch)
  BY <1>7, <1>10
<1>12. \A k \in 1..Len(pending') : ~Stamped(pending', k)
  BY <1>7 DEF Unstamped, Stamped
<1> QED BY <1>1, <1>9, <1>10, <1>11, <1>12 DEF StoreInv

\* Fabric::compact.
LEMMA StoreCompacts ==
  ASSUME Roomy, RecoveryInv, StoreInv, Compact
  PROVE  StoreInv'
<1>1. /\ Idle /\ disk' = Compacted(mem) /\ mem' = mem /\ pending' = pending
      /\ phase' = phase /\ calls' = calls /\ pending = <<>>
  BY DEF Compact, Idle
<1>2. /\ StateOK(mem) /\ Within(mem) /\ mem.epoch = disk.epoch /\ disk.asg = mem.asg
      /\ mem.epoch <= MaxEpoch /\ calls \in Nat
      /\ \A i \in DOMAIN mem.asg : Short(mem.asg[i].hist, calls + mem.epoch)
  BY <1>1, IdleFacts
<1>3. /\ StateOK(disk') /\ Alike(disk', mem) /\ disk'.epoch = mem.epoch
      /\ disk'.stamps = mem.stamps
  BY <1>1, <1>2, CompactedOK
<1>4. \A k \in Keys : mem.stamps[k] <= 2 * calls /\ mem.stamps[k] <= 8 * StampLimit
  <2> SUFFICES ASSUME NEW k \in Keys
               PROVE  mem.stamps[k] <= 2 * calls /\ mem.stamps[k] <= 8 * StampLimit
    OBVIOUS
  <2>1. mem.stamps[k] \in Nat /\ disk.stamps[k] \in Nat /\ mem.stamps[k] <= disk.stamps[k]
    BY <1>1 DEF RecoveryInv, Idle, Running, AtMost, StateOK, StateTypes
  <2>2. MaxCalls \in Nat /\ StampLimit \in Nat
    BY RecoveryAssumption
  <2>3. disk.stamps[k] <= 2 * calls /\ calls <= MaxCalls /\ 2 * MaxCalls <= 8 * StampLimit
    BY DEF StoreInv, Roomy
  <2> QED BY <1>2, <2>1, <2>2, <2>3
<1>5. disk'.readable
  <2>1. \A i \in DOMAIN mem.asg : mem.asg[i].hist <= MaxHistory
    BY <1>2 DEF Short
  <2>2. scopes \subseteq KeyScopes
    BY DEF RecoveryInv
  <2> QED BY <1>1, <1>2, <1>4, <2>1, <2>2, SnapshotReadable
<1>6. Within(disk') /\ disk'.asg = mem.asg
  BY <1>2, <1>3, AlikeWithin
<1>7. \A k \in 1..Len(pending) : FALSE
  BY <1>1
<1>8. Bounded(pending', calls' + mem'.epoch)
  BY <1>1 DEF StoreInv
<1> QED BY <1>1, <1>2, <1>3, <1>4, <1>5, <1>6, <1>7, <1>8 DEF StoreInv

\* What the next record is replayed on, the journal or a new snapshot: readable, within
\* bounds, with the assignments of memory and at most the stamp of this record more
\* than the disk.
LEMMA CommitRoom ==
  ASSUME Roomy, RecoveryInv, StoreInv, Commit
  PROVE  \E d : /\ disk' = Replayed(d, pending[1]) /\ StateOK(d) /\ d.readable /\ Within(d)
                /\ Alike(d, mem) /\ d.stamps \in [Keys -> Nat]
                /\ AtMost(d.stamps, Stamping(disk.stamps, pending[1]))
<1> DEFINE rec == pending[1]
           m == Before(mem, rec)
<1>1. /\ phase = "up" /\ pending # <<>> /\ Alike(disk, mem) /\ AtMost(mem.stamps, disk.stamps)
      /\ WellFormed(pending)
  BY DEF Commit, RecoveryInv, PendingOK, Running
<1>2. Head(pending) = rec /\ rec \in Records
  BY <1>1, WellFormedTail
<1>3. PICK d \in {disk, Compacted(m)} : disk' = Replayed(d, rec)
  BY <1>2 DEF Commit
<1>4. /\ StateOK(disk) /\ StateOK(mem)
      /\ disk.stamps \in [Keys -> Nat] /\ mem.stamps \in [Keys -> Nat]
  BY DEF RecoveryInv, StateOK, StateTypes
<1>5. /\ \A k \in Keys : Stamping(disk.stamps, rec)[k] =
           IF rec.type = "ReassignmentRecorded" /\ k = rec.key THEN disk.stamps[k] + 1
                                                               ELSE disk.stamps[k]
      /\ \A k \in Keys : Stamping(mem.stamps, rec)[k] =
           IF rec.type = "ReassignmentRecorded" /\ k = rec.key THEN mem.stamps[k] + 1
                                                               ELSE mem.stamps[k]
  <2> HIDE DEF rec
  <2> QED BY <1>2, <1>4, StampingFacts
<1>6. CASE d = disk
  <2>1. AtMost(d.stamps, Stamping(disk.stamps, rec))
    <3>1. \A k \in Keys : disk.stamps[k] \in Nat
      BY <1>4
    <3> HIDE DEF rec
    <3> QED BY <1>5, <1>6, <3>1 DEF AtMost
  <2> QED BY <1>1, <1>3, <1>4, <1>6, <2>1 DEF StoreInv
<1>7. CASE d = Compacted(m)
  <2>1. /\ StateOK(m) /\ m.ev = mem.ev /\ m.sources = mem.sources
        /\ m.asg = mem.asg /\ m.functions = mem.functions /\ m.idem = mem.idem
        /\ m.stamps \in [Keys -> Nat] /\ AtMost(m.stamps, Stamping(mem.stamps, rec))
    <3>1. m = Before(mem, rec)
      OBVIOUS
    <3> HIDE DEF m, rec
    <3> QED BY ONLY <1>2, <1>4, <3>1, BeforeOK
  <2> HIDE DEF m
  <2>2. AtMost(m.stamps, Stamping(disk.stamps, rec))
    <3> SUFFICES ASSUME NEW k \in Keys
                 PROVE  m.stamps[k] <= Stamping(disk.stamps, rec)[k]
      BY DEF AtMost
    <3>1. m.stamps[k] \in Nat /\ mem.stamps[k] \in Nat /\ disk.stamps[k] \in Nat
      BY <1>4, <2>1
    <3>2. mem.stamps[k] <= disk.stamps[k] /\ m.stamps[k] <= Stamping(mem.stamps, rec)[k]
      BY <1>1, <2>1 DEF AtMost
    <3> HIDE DEF rec
    <3> QED BY <1>5, <3>1, <3>2
  <2>3. \A k \in Keys : m.stamps[k] <= 8 * StampLimit
    <3> SUFFICES ASSUME NEW k \in Keys
                 PROVE  m.stamps[k] <= 8 * StampLimit
      OBVIOUS
    <3>1. 1 \in 1..Len(pending)
      BY <1>1, LenProperties DEF WellFormed
    <3>2. /\ disk.stamps[k] <= 2 * calls /\ calls \in Nat /\ calls <= MaxCalls
          /\ rec.type = "ReassignmentRecorded" => disk.stamps[k] + 2 <= 2 * calls
      BY <3>1 DEF StoreInv, Stamped
    <3>3. m.stamps[k] <= 2 * calls /\ m.stamps[k] \in Nat
      <4>1. m.stamps[k] \in Nat /\ disk.stamps[k] \in Nat
            /\ m.stamps[k] <= Stamping(disk.stamps, rec)[k]
        BY <1>4, <2>1, <2>2 DEF AtMost
      <4> HIDE DEF rec
      <4> QED BY <1>5, <3>2, <4>1
    <3>4. MaxCalls \in Nat /\ StampLimit \in Nat /\ 2 * MaxCalls <= 8 * StampLimit
      BY RecoveryAssumption DEF Roomy
    <3> QED BY <3>2, <3>3, <3>4
  <2>4. Alike(m, mem)
    BY <2>1 DEF Alike
  <2>5. Within(mem) /\ disk.asg = mem.asg
    BY <1>1, AlikeWithin DEF StoreInv
  <2>6. Within(m)
    BY <2>4, <2>5, AlikeWithin
  <2>7. \A i \in DOMAIN m.asg : m.asg[i].hist <= MaxHistory
    BY <2>1, <2>5 DEF StoreInv, Short
  <2>7a. scopes \subseteq KeyScopes
    BY DEF RecoveryInv
  <2>8. d.readable
    BY <1>7, <2>1, <2>3, <2>6, <2>7, <2>7a, SnapshotReadable
  <2>9. StateOK(d) /\ Alike(d, m) /\ d.stamps = m.stamps
    BY <1>7, <2>1, CompactedOK
  <2>10. Within(d)
    BY <2>6, <2>9, AlikeWithin
  <2>11. Alike(d, mem)
    BY <2>1, <2>9 DEF Alike
  <2> QED BY <1>3, <2>1, <2>2, <2>8, <2>9, <2>10, <2>11
<1> QED BY <1>3, <1>6, <1>7

\* Impl::commit.
LEMMA StoreCommits ==
  ASSUME Roomy, RecoveryInv, StoreInv, Commit
  PROVE  StoreInv'
<1> DEFINE rec == pending[1]
           n == calls + mem.epoch
<1>1. /\ phase = "up" /\ phase' = "up" /\ pending # <<>> /\ rec \in Records
      /\ pending' = Tail(pending) /\ calls' = calls
  BY CommitFacts DEF Commit
<1>2. WellFormed(pending) /\ Running /\ Fits(rec, disk, mem)
  BY <1>1 DEF RecoveryInv, PendingOK
<1>3. /\ Len(pending) \in Nat /\ Len(pending') = Len(pending) - 1
      /\ \A k \in 1..Len(pending') : /\ k + 1 \in 1..Len(pending)
                                     /\ pending'[k] = pending[k + 1]
                                     /\ pending'[k].type \in LaterTypes
      /\ pending' # <<>> => 1 \in 1..Len(pending')
  BY <1>1, <1>2, WellFormedTail
<1>4. 1 \in 1..Len(pending)
  BY <1>1, <1>2, <1>3, LenProperties DEF WellFormed
<1>5. PICK d : /\ disk' = Replayed(d, rec) /\ StateOK(d) /\ d.readable /\ Within(d)
               /\ Alike(d, mem) /\ d.stamps \in [Keys -> Nat]
               /\ AtMost(d.stamps, Stamping(disk.stamps, rec))
  BY CommitRoom
<1>6. /\ calls \in Nat /\ mem.epoch \in Nat /\ disk.epoch \in Nat /\ n \in Nat
      /\ disk.stamps \in [Keys -> Nat] /\ disk.epoch <= mem.epoch
  <2>1. mem.epoch \in Nat /\ disk.epoch \in Nat /\ calls \in Nat
        /\ disk.stamps \in [Keys -> Nat]
    BY DEF RecoveryInv, StateOK, StateTypes, StoreInv
  <2>2. disk.epoch <= mem.epoch
    BY <1>2, <2>1 DEF Running, Starting, Fits
  <2> QED BY <2>1, <2>2
<1>7. Stores(rec) => rec.id \in 1..MaxOrdinal /\ Short(rec.record.hist, n)
  BY <1>4 DEF StoreInv, Bounded
<1>8. Admitted(rec, d)
  <2>1. Granted(d) = Granted(mem) /\ d.functions = mem.functions
    BY <1>5, AlikeWithin
  <2> QED BY <1>1, <2>1 DEF StoreInv, Admitted
<1> HIDE DEF n
<1>9. Holds(d, rec, disk')
  <2>1. Stores(rec) => rec.id \in 1..MaxOrdinal /\ rec.record.hist <= MaxHistory
    BY <1>7 DEF Short
  <2> HIDE DEF rec
  <2> QED BY <1>1, <1>5, <1>8, <2>1, HoldsRecord
<1>10. RecoveryInv'
  BY CommitKeeps
<1>11. mem'.epoch = mem.epoch
  BY CommitFacts DEF Commits
<1>12. disk'.epoch = mem.epoch
  <2>1. ~Starting'
    BY <1>3 DEF Starting, LaterTypes
  <2> QED BY <1>1, <1>10, <1>11, <2>1 DEF RecoveryInv, Running
<1>13. ASSUME NEW k \in Keys
       PROVE  /\ disk'.stamps[k] \in Nat
              /\ disk'.stamps[k] <=
                   disk.stamps[k] + (IF rec.type = "ReassignmentRecorded" THEN 2 ELSE 0)
  <2>1. disk'.stamps = Stamping(d.stamps, rec)
    BY <1>9 DEF Holds
  <2>2. d.stamps[k] \in Nat /\ disk.stamps[k] \in Nat
        /\ d.stamps[k] <= Stamping(disk.stamps, rec)[k]
    BY <1>5, <1>6 DEF AtMost
  <2> HIDE DEF rec
  <2>3. disk'.stamps[k] = IF rec.type = "ReassignmentRecorded" /\ k = rec.key
                          THEN d.stamps[k] + 1 ELSE d.stamps[k]
    BY <1>1, <1>5, <2>1, StampingFacts
  <2>4. Stamping(disk.stamps, rec)[k] = IF rec.type = "ReassignmentRecorded" /\ k = rec.key
                                        THEN disk.stamps[k] + 1 ELSE disk.stamps[k]
    BY <1>1, <1>6, StampingFacts
  <2> QED BY <2>2, <2>3, <2>4
<1>14. ASSUME NEW i \in DOMAIN disk'.asg
       PROVE  Short(disk'.asg[i].hist, n)
  <2>1. CASE i \in DOMAIN d.asg /\ disk'.asg[i] = d.asg[i]
    <3>1. d.asg = mem.asg /\ disk.asg = mem.asg
      BY <1>2, <1>5 DEF Alike, Running
    <3>2. Short(disk.asg[i].hist, calls + disk.epoch) /\ disk.asg[i].hist \in Nat
      BY <2>1, <3>1 DEF StoreInv, RecoveryInv, StateOK, StateTypes, Assignment
    <3>3. calls + disk.epoch \in Nat /\ calls + disk.epoch <= n /\ n \in Nat
      BY <1>6 DEF n
    <3>4. Short(disk.asg[i].hist, n)
      BY <3>2, <3>3, LongerShort
    <3> QED BY <2>1, <3>1, <3>4
  <2>2. CASE Stores(rec) /\ disk'.asg[i] = rec.record
    BY <1>7, <2>2
  <2> QED BY <1>9, <2>1, <2>2 DEF Holds
<1>15. /\ \A j \in Keys : disk'.stamps[j] <= 2 * calls
       /\ \A k \in 1..Len(pending') : Stamped(pending', k) =>
            \A j \in Keys : disk'.stamps[j] + 2 <= 2 * calls
  <2>1. CASE rec.type = "ReassignmentRecorded"
    <3>1. \A j \in Keys : disk.stamps[j] + 2 <= 2 * calls
      BY <1>4, <2>1 DEF StoreInv, Stamped
    <3>2. ASSUME NEW j \in Keys
          PROVE  disk'.stamps[j] <= 2 * calls
      <4>1. /\ disk'.stamps[j] \in Nat /\ disk'.stamps[j] <= disk.stamps[j] + 2
            /\ disk.stamps[j] \in Nat /\ disk.stamps[j] + 2 <= 2 * calls
        BY <1>6, <1>13, <2>1, <3>1
      <4> QED BY <1>6, <4>1
    <3>3. ASSUME NEW k \in 1..Len(pending'), Stamped(pending', k)
          PROVE  FALSE
      <4>1. Stamped(pending, 1) /\ Stamped(pending, k + 1) /\ k + 1 \in 1..Len(pending)
        BY <1>3, <1>4, <2>1, <3>3 DEF Stamped
      <4>2. k + 1 = 1
        BY <1>4, <4>1 DEF StoreInv, Bounded
      <4> QED BY <1>3, <4>2
    <3> QED BY <3>2, <3>3
  <2>2. CASE rec.type # "ReassignmentRecorded"
    <3>1. ASSUME NEW j \in Keys
          PROVE  /\ disk'.stamps[j] <= disk.stamps[j] /\ disk'.stamps[j] \in Nat
                 /\ disk.stamps[j] \in Nat
      <4>1. /\ disk'.stamps[j] \in Nat /\ disk'.stamps[j] <= disk.stamps[j] + 0
            /\ disk.stamps[j] \in Nat
        BY <1>6, <1>13, <2>2
      <4> QED BY <4>1
    <3>2. \A j \in Keys : disk.stamps[j] <= 2 * calls
      BY DEF StoreInv
    <3>3. ASSUME NEW k \in 1..Len(pending'), Stamped(pending', k)
          PROVE  \A j \in Keys : disk.stamps[j] + 2 <= 2 * calls
      <4>1. Stamped(pending, k + 1) /\ k + 1 \in 1..Len(pending)
        BY <1>3, <3>3 DEF Stamped
      <4> QED BY <4>1 DEF StoreInv
    <3>4. ASSUME NEW j \in Keys
          PROVE  /\ disk'.stamps[j] <= 2 * calls
                 /\ disk.stamps[j] + 2 <= 2 * calls => disk'.stamps[j] + 2 <= 2 * calls
      <4>1. disk.stamps[j] <= 2 * calls
        BY <3>2
      <4> QED BY <1>6, <3>1, <4>1
    <3> QED BY <3>3, <3>4
  <2> QED BY <2>1, <2>2
<1>16. pending' # <<>> => Admitted(pending'[1], mem')
  BY <1>3 DEF Admitted, LaterTypes
<1>17. Bounded(pending', n)
  <2>1. Bounded(pending, n)
    BY DEF StoreInv, n
  <2>2. ASSUME NEW k \in 1..Len(pending'), Stores(pending'[k])
        PROVE  pending'[k].id \in 1..MaxOrdinal /\ Short(pending'[k].record.hist, n)
    BY <1>3, <2>1, <2>2 DEF Bounded
  <2>3. ASSUME NEW i \in 1..Len(pending'), NEW j \in 1..Len(pending'),
               Stamped(pending', i), Stamped(pending', j)
        PROVE  i = j
    <3>1. /\ Stamped(pending, i + 1) /\ i + 1 \in 1..Len(pending)
          /\ Stamped(pending, j + 1) /\ j + 1 \in 1..Len(pending)
      BY <1>3, <2>3 DEF Stamped
    <3>2. i + 1 = j + 1
      BY <2>1, <3>1 DEF Bounded
    <3> QED BY <3>2
  <2> QED BY <2>2, <2>3 DEF Bounded
<1>18. disk'.readable /\ Within(disk')
  BY <1>9 DEF Holds
<1>19. calls <= MaxCalls /\ mem.epoch <= MaxEpoch
  BY <1>1 DEF StoreInv
<1> QED BY <1>1, <1>6, <1>11, <1>12, <1>14, <1>15, <1>16, <1>17, <1>18, <1>19 DEF StoreInv, n

\* Every step.
LEMMA StoreNext ==
  ASSUME Roomy, RecoveryInv, StoreInv, [Next]_rvars
  PROVE  StoreInv'
<1>1. CASE Start
  BY <1>1, StoreStarts
<1>2. CASE Crash
  <2>1. /\ phase' = "down" /\ pending' = <<>> /\ disk' = disk /\ calls' = calls
    BY <1>2 DEF Crash
  <2>2. Bounded(pending', calls' + mem'.epoch) /\ \A k \in 1..Len(pending') : FALSE
    BY <2>1 DEF Bounded
  <2> QED BY <2>1, <2>2 DEF StoreInv
<1>3. CASE Commit
  BY <1>3, StoreCommits
<1>4. CASE Compact
  BY <1>4, StoreCompacts
<1>5. CASE \E f \in Functions, d \in Descriptors : RegisterFunction(f, d)
  BY <1>5, StoreRegisters
<1>6. ASSUME NEW to \in Verdicts(mem),
             \/ \E r \in Reports : Ingest(r, to)
             \/ \E k \in Slots : WithdrawAuthority(k, to)
             \/ Revalidate(to)
      PROVE  StoreInv'
  BY <1>6, StoreIngests, StoreWithdraws, StoreMoves
<1>7. ASSUME NEW id \in RequestIds, NEW op \in Operations,
             \/ \E old \in GivingWay(mem, op) : Place(id, op, old)
             \/ RefusePlacement(id, op)
             \/ Revoke(id, op) \/ Reauthorize(id, op) \/ ReportEffect(id, op)
      PROVE  StoreInv'
  BY <1>7, StorePlaces, StoreRefuses, StoreRevokes, StoreReauthorizes, StoreReports
<1>8. CASE UNCHANGED rvars
  <2>1. /\ phase' = phase /\ mem' = mem /\ disk' = disk /\ pending' = pending
        /\ calls' = calls
    BY <1>8 DEF rvars
  <2> QED BY <2>1 DEF StoreInv
<1> QED BY <1>1, <1>2, <1>3, <1>4, <1>5, <1>6, <1>7, <1>8 DEF Next

\* As long as there is room for what the operations do not count, the coordinator can
\* open the store it wrote: no snapshot and no record is refused, wherever it died.
THEOREM RecoveryStoreReopens ==
  ASSUME Roomy
  PROVE  Spec => []StoreReopens
<1>1. Init => StoreInv
  <2> SUFFICES ASSUME Init PROVE StoreInv
    OBVIOUS
  <2>1. /\ phase = "down" /\ pending = <<>> /\ calls = 0 /\ disk = Empty
    BY DEF Init
  <2>2. /\ disk.readable /\ DOMAIN disk.functions = {} /\ DOMAIN disk.asg = {}
        /\ disk.epoch = 0 /\ \A k \in Keys : disk.stamps[k] = 0
        /\ disk.sources = [k \in Sources \X Domains |->
                             [last |-> 0, digest |-> NoReport, floor |-> 0]]
        /\ disk.ev = [k \in Domains \X Slots |-> NoItem]
    BY <2>1 DEF Empty
  <2>3. Granted(disk) = {}
    <3>1. \A k \in Slots : <<"Authority", k>> \in Domains \X Slots
      BY DEF Domains
    <3> QED BY <2>2, <3>1 DEF Granted, NoItem
  <2>4. IsFiniteSet({}) /\ Cardinality({}) = 0
    BY FS_EmptySet
  <2>5. {MaxFunctions, MaxGrants, MaxCalls, MaxEpoch} \subseteq Nat
    BY RecoveryAssumption
  <2>6. Within(disk)
    BY <2>2, <2>3, <2>4, <2>5 DEF Within
  <2>7. Bounded(pending, calls + mem.epoch) /\ \A k \in 1..Len(pending) : FALSE
    BY <2>1 DEF Bounded
  <2> QED BY <2>1, <2>2, <2>5, <2>6, <2>7 DEF StoreInv
<1>2. RecoveryInv /\ StoreInv /\ [Next]_rvars => StoreInv'
  BY StoreNext
<1>3. StoreInv => StoreReopens
  BY DEF StoreInv, StoreReopens
<1> QED BY <1>1, <1>2, <1>3, RecoveryInvariant, PTL DEF Spec
=============================================================================
