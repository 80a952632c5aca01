--------------------------- MODULE RequestsProofs ---------------------------
(***************************************************************************)
(* A request takes effect once under its id, the answers are true and the  *)
(* cache of responses finds what to evict, for every number of workers,    *)
(* every set of requests and every bound.                                  *)
(* The invariant relates the three places that know of a mutation: the     *)
(* count of its effects, the worker between its lookup and its entry, and  *)
(* the cache.  As long as an id is not excused, at most one worker is on   *)
(* it, a worker that has not executed yet is the first, and an effect is   *)
(* either cached or about to be.                                           *)
(***************************************************************************)
EXTENDS Requests, TLAPS, FiniteSetTheorems, WellFoundedInduction, SequenceTheorems

Pc == {"recv", "frames", "execute", "remember", "reply"}
Pieces == [request : Requests, part : {1, 2}] \cup {Garbage}
Answers == {"none", "ok", "duplicate", "error"}

Connection == [pc : Pc, incoming : Seq(Pieces), buffer : Seq(Pieces),
               unanswered : Seq(Requests), request : Requests \cup {None}, answer : Answers]

Types ==
  /\ conn \in [Workers -> Connection]
  /\ DOMAIN cache \subseteq Nat /\ IsFiniteSet(DOMAIN cache)
  /\ cacheOrder \in Seq(Nat)
  /\ carried \in [Requests -> Nat]
  /\ sends \in Nat

\* The requests whose effect must not be repeated.
Mutations == {s \in Requests : s.id # 0 /\ s.opcode \in {"ack", "record"}}

\* A worker that has taken a frame works on a request.
Working == \A w \in Workers : conn[w].pc \in {"execute", "remember", "reply"}
                              => conn[w].request \in Requests

\* An entry of the cache is a request with this id that was carried out.
CacheTrue == \A i \in DOMAIN cache :
  cache[i] \in Requests /\ cache[i].id = i /\ carried[cache[i]] > 0

\* What a worker is about to remember or to answer has happened.
EffectHappened == \A w \in Workers : conn[w].pc = "remember" =>
  /\ conn[w].answer = "ok" /\ carried[conn[w].request] > 0
  /\ conn[w].request \in Mutations

\* Worker w is between the lookup of mutation r and its entry in the cache.
On(w, r) == /\ conn[w].pc \in {"execute", "remember"} /\ conn[w].request = r

\* Nobody else is on an id that is not excused, and who has not executed yet is
\* the first.
OneWorker ==
  \A v, w \in Workers, r, q \in Mutations :
    On(v, r) /\ On(w, q) /\ r.id = q.id /\ r.id \notin excused => v = w

FirstEffect ==
  \A w \in Workers, r, q \in Mutations :
    On(w, r) /\ conn[w].pc = "execute" /\ r.id = q.id /\ r.id \notin excused
    => carried[q] = 0

\* An effect is cached, or a worker is about to cache it.
EffectKept ==
  \A r \in Mutations : r.id \notin excused /\ carried[r] > 0 =>
    \/ r.id \in DOMAIN cache
    \/ \E w \in Workers : conn[w].pc = "remember" /\ conn[w].request.id = r.id

StreamOf(c) == c.buffer \o c.incoming

WorkingOn(c) == IF c.pc \in {"execute", "remember", "reply"} THEN <<c.request>> ELSE <<>>

\* The first piece of a frame is followed by its second.
Framed(s) == \A k \in 1..Len(s) : s[k].part = 1 => k + 1 \in 1..Len(s) /\ s[k + 1].part = 2

\* The conjunct of AnsweredInOrder for one connection, and what it takes to keep it:
\* the decoder never sees the beginning of a frame without its end following.
Ordered(c) == /\ Framed(StreamOf(c))
              /\ c.unanswered = WorkingOn(c) \o RequestsIn(StreamOf(c))

AllOrdered == \A w \in Workers : Ordered(conn[w])

\* What the effects, the answers and the cache have to do with each other.
Effects == /\ Working /\ CacheTrue /\ EffectHappened
           /\ OneWorker /\ FirstEffect /\ EffectKept
           /\ EffectOnce /\ AnswerIsTrue

RequestsInv == Types /\ AllOrdered /\ Effects /\ EvictionFindsEntry

-----------------------------------------------------------------------------
(* The eviction loop *)

\* A nonempty set of naturals has a least element.
LEMMA LeastNat ==
  ASSUME NEW S, S \subseteq Nat, S # {}
  PROVE  \E n \in S : \A m \in S : n <= m
<1>1. PICK n \in S : \A m \in S : <<m, n>> \notin OpToRel(<, Nat)
  BY NatLessThanWellFounded, WFMin, Zenon
<1>2. ASSUME NEW m \in S
      PROVE  n <= m
  <2>1. <<m, n>> \notin {p \in Nat \X Nat : p[1] < p[2]}
    BY <1>1 DEF OpToRel
  <2> QED BY <2>1
<1> QED BY <1>2

\* g is n rounds of the loop of remember, started with c.
IsRun(c, g, n) == g = [k \in 0..n |-> IF k = 0 THEN c ELSE Round(g[k - 1])]

\* The rounds are well defined: a least number of rounds that is not would have a
\* predecessor that is.
LEMMA RunExists ==
  ASSUME NEW c, NEW n \in Nat
  PROVE  \E g : IsRun(c, g, n)
<1> DEFINE Bad == {m \in Nat : ~ \E g : IsRun(c, g, m)}
<1> SUFFICES ASSUME Bad # {} PROVE FALSE
  OBVIOUS
<1>1. PICK m \in Bad : \A k \in Bad : m <= k
  <2>1. Bad \subseteq Nat
    OBVIOUS
  <2> HIDE DEF Bad
  <2> QED BY <2>1, LeastNat
<1>2. m # 0
  <2>1. IsRun(c, [k \in 0..0 |-> c], 0)
    BY DEF IsRun
  <2> QED BY <2>1
<1>3. m - 1 \in Nat /\ m - 1 \notin Bad
  BY <1>1, <1>2
<1>4. PICK g : IsRun(c, g, m - 1)
  BY <1>3
<1> DEFINE h == [k \in 0..m |-> IF k = m THEN Round(g[m - 1]) ELSE g[k]]
<1>5. ASSUME NEW k \in 0..m
      PROVE  h[k] = IF k = 0 THEN c ELSE Round(h[k - 1])
  <2>1. CASE k = m
    BY <1>2, <1>3, <2>1
  <2>2. CASE k # m
    <3>1. k \in 0..(m - 1) /\ h[k] = g[k]
      BY <1>3, <2>2
    <3>2. g[k] = IF k = 0 THEN c ELSE Round(g[k - 1])
      BY <1>4, <3>1 DEF IsRun
    <3>3. k # 0 => h[k - 1] = g[k - 1]
      BY <1>3, <2>2
    <3> QED BY <3>1, <3>2, <3>3
  <2> QED BY <2>1, <2>2
<1>6. IsRun(c, h, m)
  <2>1. h = [k \in 0..m |-> h[k]]
    OBVIOUS
  <2> HIDE DEF h
  <2>2. [k \in 0..m |-> h[k]] = [k \in 0..m |-> IF k = 0 THEN c ELSE Round(h[k - 1])]
    BY <1>5
  <2> QED BY <2>1, <2>2 DEF IsRun
<1> QED BY <1>6, <1>1

\* Evict is the last round.
LEMMA EvictIsRun ==
  ASSUME NEW c, Len(c.order) \in Nat
  PROVE  \E g : IsRun(c, g, Len(c.order)) /\ Evict(c) = g[Len(c.order)]
<1> DEFINE g == CHOOSE h : IsRun(c, h, Len(c.order))
<1>1. IsRun(c, g, Len(c.order))
  BY RunExists
<1>2. Evict(c) = g[Len(c.order)]
  BY DEF Evict, IsRun
<1> QED BY <1>1, <1>2

\* Every entry is in the order of eviction.
Covered(d) == \A i \in DOMAIN d.entries : \E k \in 1..Len(d.order) : d.order[k] = i

\* What n rounds have made of c: some of its entries, all of them still in the
\* order, and few enough unless every round has taken an id from the order.
AfterRounds(c, d, n) ==
  /\ d.order \in Seq(Nat)
  /\ DOMAIN d.entries \subseteq DOMAIN c.entries
  /\ \A i \in DOMAIN d.entries : d.entries[i] = c.entries[i]
  /\ Covered(d)
  /\ Cardinality(DOMAIN d.entries) <= MaxCache \/ Len(d.order) = Len(c.order) - n

\* The eviction of one entry.
LEMMA EvictOneKeeps ==
  ASSUME NEW c, NEW d, NEW n \in Nat, Len(c.order) \in Nat, AfterRounds(c, d, n),
         Cardinality(DOMAIN d.entries) > MaxCache, d.order # <<>>,
         Cardinality(DOMAIN d.entries) \in Nat
  PROVE  AfterRounds(c, EvictOne(d), n + 1)
<1> DEFINE e == EvictOne(d)
<1>1. /\ e.order = Tail(d.order)
      /\ DOMAIN e.entries = DOMAIN d.entries \ {Head(d.order)}
      /\ \A i \in DOMAIN e.entries : e.entries[i] = d.entries[i]
  BY DEF EvictOne
<1>2. /\ d.order \in Seq(Nat) /\ Len(d.order) = Len(c.order) - n
      /\ Len(d.order) \in Nat \ {0}
  BY RequestsAssumption DEF AfterRounds
<1>3. /\ e.order \in Seq(Nat) /\ Len(e.order) = Len(d.order) - 1
      /\ \A k \in 1..Len(e.order) : e.order[k] = d.order[k + 1]
  BY <1>1, <1>2
<1> HIDE DEF e
<1>4. Covered(e)
  <2> SUFFICES ASSUME NEW i \in DOMAIN e.entries
               PROVE  \E k \in 1..Len(e.order) : e.order[k] = i
    BY DEF Covered
  <2>1. PICK k \in 1..Len(d.order) : d.order[k] = i
    BY <1>1 DEF AfterRounds, Covered
  <2>2. k # 1
    BY <1>1, <1>2, <2>1
  <2>3. k - 1 \in 1..Len(e.order) /\ (k - 1) + 1 = k
    BY <1>2, <1>3, <2>1, <2>2
  <2>4. e.order[k - 1] = i
    BY <1>3, <2>1, <2>3
  <2> QED BY <2>3, <2>4
<1>5. /\ DOMAIN e.entries \subseteq DOMAIN c.entries
      /\ \A i \in DOMAIN e.entries : e.entries[i] = c.entries[i]
  BY <1>1 DEF AfterRounds
<1>6. Len(e.order) = Len(c.order) - (n + 1)
  BY <1>2, <1>3
<1>7. AfterRounds(c, e, n + 1)
  BY <1>3, <1>4, <1>5, <1>6 DEF AfterRounds
<1> QED BY <1>7 DEF e

\* One round of the loop.
LEMMA RoundKeeps ==
  ASSUME NEW c, NEW d, NEW n \in Nat, Len(c.order) \in Nat, IsFiniteSet(DOMAIN c.entries),
         AfterRounds(c, d, n)
  PROVE  AfterRounds(c, Round(d), n + 1)
<1>1. IsFiniteSet(DOMAIN d.entries) /\ Cardinality(DOMAIN d.entries) \in Nat
  BY FS_Subset, FS_CardinalityType DEF AfterRounds
<1>2. CASE Cardinality(DOMAIN d.entries) > MaxCache
  <2>1. DOMAIN d.entries # {}
    <3> SUFFICES ASSUME DOMAIN d.entries = {}
                 PROVE  FALSE
      OBVIOUS
    <3>1. Cardinality(DOMAIN d.entries) = 0
      BY FS_EmptySet
    <3> QED BY <1>2, <3>1, RequestsAssumption
  <2>2. d.order # <<>>
    BY <2>1 DEF AfterRounds, Covered
  <2> QED BY <1>1, <1>2, <2>2, EvictOneKeeps DEF Round
<1>3. CASE ~(Cardinality(DOMAIN d.entries) > MaxCache)
  BY <1>1, <1>3, RequestsAssumption DEF Round, AfterRounds
<1> QED BY <1>2, <1>3

\* What the loop leaves: entries that were there, all in the order, within the bound.
LEMMA EvictKeeps ==
  ASSUME NEW c, c.order \in Seq(Nat), IsFiniteSet(DOMAIN c.entries), Covered(c)
  PROVE  /\ Evict(c).order \in Seq(Nat)
         /\ DOMAIN Evict(c).entries \subseteq DOMAIN c.entries
         /\ \A i \in DOMAIN Evict(c).entries : Evict(c).entries[i] = c.entries[i]
         /\ Covered(Evict(c))
         /\ Cardinality(DOMAIN Evict(c).entries) <= MaxCache
<1> DEFINE N == Len(c.order)
<1>1. N \in Nat
  OBVIOUS
<1>2. PICK g : IsRun(c, g, N) /\ Evict(c) = g[N]
  BY <1>1, EvictIsRun
<1>3. g[0] = c /\ \A k \in 1..N : g[k] = Round(g[k - 1])
  <2> HIDE DEF N
  <2>1. \A k \in 0..N : g[k] = IF k = 0 THEN c ELSE Round(g[k - 1])
    BY <1>2 DEF IsRun
  <2> QED BY <1>1, <2>1
<1> HIDE DEF N
<1>4. AfterRounds(c, g[N], N)
  <2> DEFINE Bad == {k \in 0..N : ~AfterRounds(c, g[k], k)}
  <2>1. CASE Bad = {}
    BY <1>1, <2>1
  <2>2. CASE Bad # {}
    <3>1. Bad \subseteq Nat
      BY <1>1
    <3>2. PICK m \in Bad : \A k \in Bad : m <= k
      <4> HIDE DEF Bad
      <4> QED BY <2>2, <3>1, LeastNat
    <3>3. m # 0
      BY <1>3 DEF AfterRounds, N
    <3>4. m \in 1..N /\ m - 1 \in 0..N /\ m - 1 \in Nat
      BY <1>1, <3>2, <3>3
    <3>5. AfterRounds(c, g[m - 1], m - 1)
      BY <3>2, <3>4
    <3>6. AfterRounds(c, Round(g[m - 1]), (m - 1) + 1)
      BY <1>1, <3>4, <3>5, RoundKeeps DEF N
    <3> QED BY <1>3, <3>2, <3>4, <3>6
  <2> QED BY <2>1, <2>2
<1>5. Cardinality(DOMAIN g[N].entries) <= MaxCache
  <2>1. CASE Len(g[N].order) = N - N
    <3>1. DOMAIN g[N].entries = {}
      BY <1>1, <1>4, <2>1 DEF AfterRounds, Covered
    <3> QED BY <3>1, FS_EmptySet, RequestsAssumption
  <2> QED BY <1>4, <2>1 DEF AfterRounds, N
<1> QED BY <1>2, <1>4, <1>5 DEF AfterRounds

-----------------------------------------------------------------------------
(* The requests in a stream of pieces *)

\* One piece further.
Scanned(s, k, before) ==
  IF s[k].part = 1 THEN Append(before, s[k].request) ELSE before

\* g[k] holds the requests that begin in the first k pieces of s.
IsScan(s, g, n) == g = [k \in 0..n |-> IF k = 0 THEN <<>> ELSE Scanned(s, k, g[k - 1])]

\* As RunExists.
LEMMA ScanExists ==
  ASSUME NEW s, NEW n \in Nat
  PROVE  \E g : IsScan(s, g, n)
<1> DEFINE Bad == {m \in Nat : ~ \E g : IsScan(s, g, m)}
<1> SUFFICES ASSUME Bad # {} PROVE FALSE
  OBVIOUS
<1>1. PICK m \in Bad : \A k \in Bad : m <= k
  <2>1. Bad \subseteq Nat
    OBVIOUS
  <2> HIDE DEF Bad
  <2> QED BY <2>1, LeastNat
<1>2. m # 0
  <2>1. IsScan(s, [k \in 0..0 |-> <<>>], 0)
    BY DEF IsScan
  <2> QED BY <2>1
<1>3. m - 1 \in Nat /\ m - 1 \notin Bad
  BY <1>1, <1>2
<1>4. PICK g : IsScan(s, g, m - 1)
  BY <1>3
<1> DEFINE h == [k \in 0..m |-> IF k = m THEN Scanned(s, m, g[m - 1]) ELSE g[k]]
<1>5. ASSUME NEW k \in 0..m
      PROVE  h[k] = IF k = 0 THEN <<>> ELSE Scanned(s, k, h[k - 1])
  <2>1. CASE k = m
    BY <1>2, <1>3, <2>1
  <2>2. CASE k # m
    <3>1. k \in 0..(m - 1) /\ h[k] = g[k]
      BY <1>3, <2>2
    <3>2. g[k] = IF k = 0 THEN <<>> ELSE Scanned(s, k, g[k - 1])
      BY <1>4, <3>1 DEF IsScan
    <3>3. k # 0 => h[k - 1] = g[k - 1]
      BY <1>3, <2>2
    <3> QED BY <3>1, <3>2, <3>3
  <2> QED BY <2>1, <2>2
<1>6. IsScan(s, h, m)
  <2>1. h = [k \in 0..m |-> h[k]]
    OBVIOUS
  <2> HIDE DEF h
  <2>2. [k \in 0..m |-> h[k]] = [k \in 0..m |-> IF k = 0 THEN <<>> ELSE Scanned(s, k, h[k - 1])]
    BY <1>5
  <2> QED BY <2>1, <2>2 DEF IsScan
<1> QED BY <1>6, <1>1

Scan(s) == CHOOSE g : IsScan(s, g, Len(s))

\* The equations of a scan.
LEMMA ScanEquations ==
  ASSUME NEW s \in Seq(Pieces)
  PROVE  /\ RequestsIn(s) = Scan(s)[Len(s)]
         /\ Scan(s)[0] = <<>>
         /\ \A k \in 1..Len(s) : Scan(s)[k] = Scanned(s, k, Scan(s)[k - 1])
<1>1. Len(s) \in Nat
  OBVIOUS
<1>2. IsScan(s, Scan(s), Len(s))
  BY <1>1, ScanExists DEF Scan
<1>3. RequestsIn(s) = Scan(s)[Len(s)]
  BY DEF RequestsIn, Scan, IsScan, Scanned
<1>4. \A k \in 0..Len(s) : Scan(s)[k] = IF k = 0 THEN <<>> ELSE Scanned(s, k, Scan(s)[k - 1])
  <2> HIDE DEF Scan
  <2> QED BY <1>2 DEF IsScan
<1> QED BY <1>1, <1>3, <1>4

\* A piece is the beginning of a request, the rest of one, or garbage.
LEMMA PieceFields ==
  ASSUME NEW p \in Pieces
  PROVE  p.part = 1 => p.request \in Requests
BY DEF Pieces, Garbage

\* A scan yields requests.
LEMMA ScanType ==
  ASSUME NEW s \in Seq(Pieces), NEW n \in 0..Len(s)
  PROVE  Scan(s)[n] \in Seq(Requests)
<1> DEFINE g == Scan(s)
           Bad == {k \in 0..Len(s) : g[k] \notin Seq(Requests)}
<1> SUFFICES ASSUME Bad # {} PROVE FALSE
  OBVIOUS
<1>1. g[0] = <<>> /\ \A k \in 1..Len(s) : g[k] = Scanned(s, k, g[k - 1])
  BY ScanEquations
<1>2. PICK m \in Bad : \A k \in Bad : m <= k
  <2>1. Bad \subseteq Nat
    OBVIOUS
  <2> HIDE DEF Bad
  <2> QED BY <2>1, LeastNat
<1> HIDE DEF g
<1>3. m \in 1..Len(s) /\ m - 1 \in 0..Len(s) /\ m - 1 \notin Bad
  <2>1. m # 0
    <3>1. <<>> \in Seq(Requests)
      OBVIOUS
    <3>2. g[m] \notin Seq(Requests)
      BY <1>2
    <3> QED BY <1>1, <3>1, <3>2
  <2>2. Len(s) \in Nat /\ m \in 0..Len(s)
    BY <1>2
  <2>3. m \in 1..Len(s) /\ m - 1 \in 0..Len(s) /\ ~(m <= m - 1)
    BY <2>1, <2>2
  <2> QED BY <1>2, <2>3
<1>4. g[m - 1] \in Seq(Requests) /\ s[m] \in Pieces
  BY <1>3
<1>5. Scanned(s, m, g[m - 1]) \in Seq(Requests)
  BY <1>4, PieceFields DEF Scanned
<1> QED BY <1>1, <1>2, <1>3, <1>5

\* The scan of a longer stream begins like that of the shorter one.
LEMMA ScanOfLonger ==
  ASSUME NEW s \in Seq(Pieces), NEW p \in Pieces
  PROVE  RequestsIn(Append(s, p)) =
           IF p.part = 1 THEN Append(RequestsIn(s), p.request) ELSE RequestsIn(s)
<1> DEFINE t == Append(s, p)
           g == Scan(s)
           h == Scan(t)
           Bad == {k \in 0..Len(s) : h[k] # g[k]}
<1>1. /\ t \in Seq(Pieces) /\ Len(t) = Len(s) + 1 /\ t[Len(s) + 1] = p
      /\ \A k \in 1..Len(s) : t[k] = s[k]
      /\ Len(s) \in Nat
  OBVIOUS
<1>2. /\ RequestsIn(s) = g[Len(s)] /\ g[0] = <<>>
      /\ \A k \in 1..Len(s) : g[k] = Scanned(s, k, g[k - 1])
  BY ScanEquations
<1>3. /\ RequestsIn(t) = h[Len(t)] /\ h[0] = <<>>
      /\ \A k \in 1..Len(t) : h[k] = Scanned(t, k, h[k - 1])
  BY <1>1, ScanEquations
<1> HIDE DEF t, g, h
<1>4. Bad = {}
  <2> SUFFICES ASSUME Bad # {} PROVE FALSE
    OBVIOUS
  <2>1. PICK m \in Bad : \A k \in Bad : m <= k
    <3>1. Bad \subseteq Nat
      BY <1>1
    <3> HIDE DEF Bad
    <3> QED BY <3>1, LeastNat
  <2>2. m \in 1..Len(s) /\ m - 1 \in 0..Len(s) /\ h[m - 1] = g[m - 1] /\ m \in 1..Len(t)
    BY <1>1, <1>2, <1>3, <2>1
  <2>3. t[m] = s[m]
    BY <1>1, <2>2
  <2> QED BY <1>2, <1>3, <2>1, <2>2, <2>3 DEF Scanned
<1>5. h[Len(s)] = g[Len(s)]
  BY <1>1, <1>4
<1>6. h[Len(s) + 1] = Scanned(t, Len(s) + 1, h[Len(s)])
  BY <1>1, <1>3
<1>7. RequestsIn(t) = IF p.part = 1 THEN Append(RequestsIn(s), p.request) ELSE RequestsIn(s)
  BY <1>1, <1>2, <1>3, <1>5, <1>6 DEF Scanned
<1> QED BY <1>7 DEF t

Cons(r, q) == <<r>> \o q

\* Appending behind a first element.
LEMMA ConsAppend ==
  ASSUME NEW r \in Requests, NEW q \in Seq(Requests), NEW x \in Requests
  PROVE  Append(Cons(r, q), x) = Cons(r, Append(q, x)) /\ Cons(r, <<>>) = <<r>>
<1>1. <<r>> \in Seq(Requests) /\ <<x>> \in Seq(Requests)
  OBVIOUS
<1>2. <<r>> \o q \in Seq(Requests)
  BY <1>1, ConcatProperties
<1>3. (<<r>> \o q) \o <<x>> = <<r>> \o (q \o <<x>>)
  BY <1>1, ConcatAssociative
<1> QED BY <1>1, <1>2, <1>3, AppendIsConcat, ConcatEmptySeq DEF Cons

\* How many elements there are from the third on.
LEMMA FromThird ==
  \A n \in Nat : n >= 2 => n - 3 + 1 = n - 2 /\ (~(3 <= n) => n - 2 = 0)
OBVIOUS

\* Taking a frame, which is two pieces, takes the first request.
LEMMA ScanOfRest ==
  ASSUME NEW s \in Seq(Pieces), Len(s) >= 2, s[1].part = 1, s[2].part # 1
  PROVE  RequestsIn(s) = <<s[1].request>> \o RequestsIn(SubSeq(s, 3, Len(s)))
<1> DEFINE t == SubSeq(s, 3, Len(s))
           g == Scan(s)
           h == Scan(t)
           r == s[1].request
           Bad == {k \in 0..Len(t) : g[k + 2] # Cons(r, h[k])}
<1>1. /\ t \in Seq(Pieces) /\ Len(t) = Len(s) - 2 /\ Len(s) \in Nat /\ Len(t) \in Nat
      /\ \A k \in 1..Len(t) : t[k] = s[k + 2]
  <2>1. Len(s) \in Nat /\ 3 \in 1..(Len(s) + 1)
    OBVIOUS
  <2>2. /\ t \in Seq(Pieces) /\ Len(t) = Len(s) - 2
        /\ \A k \in 1..(Len(s) - 2) : t[k] = s[3 + k - 1]
    <3>1. \A i \in 3..Len(s) : s[i] \in Pieces
      BY <2>1
    <3>2. /\ t \in Seq(Pieces)
          /\ Len(t) = IF 3 <= Len(s) THEN Len(s) - 3 + 1 ELSE 0
          /\ \A i \in 1..(Len(s) - 3 + 1) : t[i] = s[3 + i - 1]
      BY <2>1, <3>1, SubSeqProperties
    <3> HIDE DEF t
    <3>3. Len(s) - 3 + 1 = Len(s) - 2 /\ (~(3 <= Len(s)) => Len(s) - 2 = 0)
      BY <2>1, FromThird
    <3>4. Len(t) = Len(s) - 2
      BY <2>1, <3>2, <3>3
    <3>5. 1..(Len(s) - 3 + 1) = 1..(Len(s) - 2)
      BY <3>3
    <3> QED BY <3>2, <3>4, <3>5
  <2> HIDE DEF t
  <2> QED BY <2>1, <2>2
<1>2. /\ RequestsIn(s) = g[Len(s)] /\ g[0] = <<>>
      /\ \A k \in 1..Len(s) : g[k] = Scanned(s, k, g[k - 1])
  BY ScanEquations
<1>3. /\ RequestsIn(t) = h[Len(t)] /\ h[0] = <<>>
      /\ \A k \in 1..Len(t) : h[k] = Scanned(t, k, h[k - 1])
  BY <1>1, ScanEquations
<1>4. \A k \in 0..Len(t) : h[k] \in Seq(Requests)
  BY <1>1, ScanType
<1>5. r \in Requests
  BY <1>1, PieceFields
<1> HIDE DEF t, g, h, r
<1>6. g[2] = <<r>>
  <2>1. g[1] = Scanned(s, 1, g[0]) /\ g[2] = Scanned(s, 2, g[1])
    BY <1>1, <1>2
  <2> QED BY <1>2, <2>1 DEF Scanned, r
<1>7. Bad = {}
  <2> SUFFICES ASSUME Bad # {} PROVE FALSE
    OBVIOUS
  <2>1. PICK m \in Bad : \A k \in Bad : m <= k
    <3>1. Bad \subseteq Nat
      BY <1>1
    <3> HIDE DEF Bad
    <3> QED BY <3>1, LeastNat
  <2>0. m \in 0..Len(t) /\ g[m + 2] # Cons(r, h[m])
    BY <2>1
  <2>2. m # 0
    <3>1. Cons(r, <<>>) = <<r>>
      <4>1. <<>> \in Seq(Requests)
        OBVIOUS
      <4> QED BY <1>5, <4>1, ConsAppend
    <3> QED BY <1>3, <1>6, <2>0, <3>1
  <2>3. /\ m \in 1..Len(t) /\ m - 1 \in 0..Len(t) /\ m + 2 \in 1..Len(s)
        /\ (m - 1) + 2 = m + 1 /\ (m + 2) - 1 = m + 1
    BY <1>1, <2>1, <2>2
  <2>4. g[m + 1] = Cons(r, h[m - 1])
    <3>1. m - 1 \notin Bad
      BY <2>1, <2>3
    <3>2. g[(m - 1) + 2] = Cons(r, h[m - 1])
      BY <2>3, <3>1
    <3> QED BY <2>3, <3>2
  <2>5. g[m + 2] = Scanned(s, m + 2, g[m + 1]) /\ h[m] = Scanned(t, m, h[m - 1])
    BY <1>2, <1>3, <2>3
  <2>6. t[m] = s[m + 2] /\ t[m] \in Pieces
    BY <1>1, <2>3
  <2>7. h[m - 1] \in Seq(Requests)
    BY <1>4, <2>3
  <2>8. CASE t[m].part = 1
    <3>1. t[m].request \in Requests
      BY <2>6, <2>8, PieceFields
    <3>2. Append(Cons(r, h[m - 1]), t[m].request) = Cons(r, Append(h[m - 1], t[m].request))
      BY <1>5, <2>7, <3>1, ConsAppend
    <3> QED BY <2>0, <2>4, <2>5, <2>6, <2>8, <3>2 DEF Scanned
  <2>9. CASE t[m].part # 1
    BY <2>0, <2>4, <2>5, <2>6, <2>9 DEF Scanned
  <2> QED BY <2>8, <2>9
<1>8. g[Len(t) + 2] = Cons(r, h[Len(t)])
  BY <1>1, <1>7
<1>9. RequestsIn(s) = <<r>> \o RequestsIn(t)
  BY <1>1, <1>2, <1>3, <1>8 DEF Cons
<1> QED BY <1>9 DEF r, t

-----------------------------------------------------------------------------
(* Types *)

\* The records of the requests, as the proofs use them.
LEMMA RequestFields ==
  ASSUME NEW r \in Requests
  PROVE  r.id \in Nat /\ r.payload \in Nat /\ r.opcode \in Opcodes
BY RequestsAssumption

\* A request is known by its id, its opcode and its payload.
LEMMA SameIsEqual ==
  ASSUME NEW r \in Requests, NEW q \in Requests, r.id = q.id, SameRequest(r, q)
  PROVE  r = q
<1>1. r \in [id : Nat, payload : Nat, opcode : Opcodes]
  BY RequestsAssumption
<1>2. q \in [id : Nat, payload : Nat, opcode : Opcodes]
  BY RequestsAssumption
<1> QED BY <1>1, <1>2 DEF SameRequest

\* Whoever has a whole frame in its buffer has the request of that frame.
LEMMA WholeIsRequest ==
  ASSUME NEW b \in Seq(Pieces), Whole(b)
  PROVE  b[1].request \in Requests /\ Rest(b) \in Seq(Pieces)
<1>1. b[1] \in Pieces /\ b[1].part = 1
  BY DEF Whole
<1>2. Garbage.part # 1
  BY DEF Garbage
<1>3. Rest(b) \in Seq(Pieces)
  <2>1. Len(b) \in Nat /\ Len(b) >= 2
    BY DEF Whole
  <2> QED BY <2>1 DEF Rest
<1> QED BY <1>1, <1>2, <1>3 DEF Pieces

-----------------------------------------------------------------------------
(* The order of the answers *)

\* The types of the parts of a connection.
LEMMA StreamType ==
  ASSUME NEW c \in Connection
  PROVE  /\ c.buffer \in Seq(Pieces) /\ c.incoming \in Seq(Pieces)
         /\ c.unanswered \in Seq(Requests)
         /\ StreamOf(c) \in Seq(Pieces)
         /\ RequestsIn(StreamOf(c)) \in Seq(Requests)
<1>1. /\ c.buffer \in Seq(Pieces) /\ c.incoming \in Seq(Pieces)
      /\ c.unanswered \in Seq(Requests)
  BY DEF Connection
<1>2. StreamOf(c) \in Seq(Pieces)
  BY <1>1, ConcatProperties DEF StreamOf
<1>3. Len(StreamOf(c)) \in 0..Len(StreamOf(c))
  BY <1>2
<1>4. RequestsIn(StreamOf(c)) \in Seq(Requests)
  BY <1>2, <1>3, ScanEquations, ScanType
<1> QED BY <1>1, <1>2, <1>4

\* Concatenation of three streams.
LEMMA ConcatPieces ==
  \A x, y, z \in Seq(Pieces) : (x \o y) \o z = x \o (y \o z)
BY ConcatAssociative

\* And of three lists of requests.
LEMMA ConcatRequests ==
  \A x, y, z \in Seq(Requests) : (x \o y) \o z = x \o (y \o z)
BY ConcatAssociative

\* A new connection.
LEMMA OrderedFresh == Ordered(Fresh)
<1>1. <<>> \in Seq(Pieces) /\ <<>> \in Seq(Requests) /\ Len(<<>>) = 0
  OBVIOUS
<1>2. StreamOf(Fresh) = <<>>
  BY <1>1, ConcatEmptySeq DEF StreamOf, Fresh
<1>3. RequestsIn(<<>>) = <<>>
  BY <1>1, ScanEquations
<1>4. WorkingOn(Fresh) = <<>> /\ Fresh.unanswered = <<>>
  BY DEF WorkingOn, Fresh
<1> QED BY <1>1, <1>2, <1>3, <1>4, ConcatEmptySeq DEF Ordered, Framed

\* A frame or garbage at the end of a stream.
LEMMA FramedLonger ==
  ASSUME NEW s \in Seq(Pieces), Framed(s)
  PROVE  /\ Framed(Append(s, Garbage))
         /\ \A r \in Requests : Framed(Append(Append(s, Piece(r, 1)), Piece(r, 2)))
<1>1. Garbage \in Pieces /\ Garbage.part = 0
  BY DEF Garbage, Pieces
<1>2. ASSUME NEW r \in Requests
      PROVE  /\ Piece(r, 1) \in Pieces /\ Piece(r, 2) \in Pieces
             /\ Piece(r, 1).part = 1 /\ Piece(r, 2).part = 2
  BY DEF Piece, Pieces
<1>3. Len(s) \in Nat
  OBVIOUS
<1>4. Framed(Append(s, Garbage))
  <2> DEFINE t == Append(s, Garbage)
  <2>1. /\ Len(t) = Len(s) + 1 /\ t[Len(s) + 1] = Garbage
        /\ \A k \in 1..Len(s) : t[k] = s[k]
    BY <1>1, AppendProperties
  <2> HIDE DEF t
  <2>2. Framed(t)
    BY <1>1, <1>3, <2>1 DEF Framed
  <2> QED BY <2>2 DEF t
<1>5. ASSUME NEW r \in Requests
      PROVE  Framed(Append(Append(s, Piece(r, 1)), Piece(r, 2)))
  <2> DEFINE t == Append(s, Piece(r, 1))
             u == Append(t, Piece(r, 2))
  <2>1. /\ t \in Seq(Pieces) /\ Len(t) = Len(s) + 1 /\ t[Len(s) + 1] = Piece(r, 1)
        /\ \A k \in 1..Len(s) : t[k] = s[k]
    BY <1>2, AppendProperties
  <2> HIDE DEF t
  <2>2. /\ Len(u) = Len(t) + 1 /\ u[Len(t) + 1] = Piece(r, 2)
        /\ \A k \in 1..Len(t) : u[k] = t[k]
    BY <1>2, <2>1, AppendProperties
  <2> HIDE DEF u
  <2>3. /\ Len(u) = Len(s) + 2 /\ u[Len(s) + 1].part = 1 /\ u[Len(s) + 2].part = 2
        /\ \A k \in 1..Len(s) : u[k] = s[k]
    BY <1>2, <1>3, <2>1, <2>2
  <2>4. Framed(u)
    <3> SUFFICES ASSUME NEW k \in 1..Len(u), u[k].part = 1
                 PROVE  k + 1 \in 1..Len(u) /\ u[k + 1].part = 2
      BY DEF Framed
    <3>1. CASE k \in 1..Len(s)
      BY <1>3, <2>3, <3>1 DEF Framed
    <3>2. CASE k = Len(s) + 1
      <4>1. k + 1 = Len(s) + 2
        BY <1>3, <3>2
      <4> QED BY <1>3, <2>3, <4>1
    <3>3. CASE k = Len(s) + 2
      BY <2>3, <3>3
    <3> QED BY <1>3, <2>3, <3>1, <3>2, <3>3
  <2> QED BY <2>4 DEF t, u
<1> QED BY <1>4, <1>5

\* The client sends a frame.
LEMMA OrderedSend ==
  ASSUME NEW c \in Connection, NEW d \in Connection, NEW r \in Requests, Ordered(c),
         WorkingOn(c) \in Seq(Requests), WorkingOn(d) = WorkingOn(c), d.buffer = c.buffer,
         d.incoming = c.incoming \o <<Piece(r, 1), Piece(r, 2)>>,
         d.unanswered = Append(c.unanswered, r)
  PROVE  Ordered(d)
<1> DEFINE p == Piece(r, 1)
           q == Piece(r, 2)
           s == StreamOf(c)
<1>1. /\ c.buffer \in Seq(Pieces) /\ c.incoming \in Seq(Pieces) /\ s \in Seq(Pieces)
      /\ RequestsIn(s) \in Seq(Requests)
  BY StreamType
<1>2. p \in Pieces /\ q \in Pieces /\ p.part = 1 /\ p.request = r /\ q.part = 2
  BY DEF Piece, Pieces
<1> HIDE DEF p, q
<1>3. StreamOf(d) = Append(Append(s, p), q)
  <2>1. <<p, q>> = Append(<<p>>, q) /\ <<p>> \in Seq(Pieces) /\ <<q>> \in Seq(Pieces)
    BY <1>2
  <2>2. <<p, q>> = <<p>> \o <<q>>
    BY <1>2, <2>1, AppendIsConcat
  <2>3. <<p, q>> \in Seq(Pieces)
    BY <1>2
  <2>0. (c.buffer \o c.incoming) \o <<p, q>> = c.buffer \o (c.incoming \o <<p, q>>)
    BY <1>1, <2>3, ConcatPieces, Zenon
  <2>4. StreamOf(d) = s \o <<p, q>>
    BY <2>0 DEF StreamOf, p, q
  <2>5. s \o <<p, q>> = (s \o <<p>>) \o <<q>>
    <3>1. (s \o <<p>>) \o <<q>> = s \o (<<p>> \o <<q>>)
      BY <1>1, <2>1, ConcatPieces, Zenon
    <3> QED BY <2>2, <3>1, Zenon
  <2>6. s \o <<p>> = Append(s, p) /\ Append(s, p) \in Seq(Pieces)
    BY <1>1, <1>2, AppendIsConcat, AppendProperties
  <2>7. (s \o <<p>>) \o <<q>> = Append(Append(s, p), q)
    BY <1>2, <2>6, AppendIsConcat
  <2> QED BY <2>4, <2>5, <2>7
<1>4. RequestsIn(StreamOf(d)) = Append(RequestsIn(s), r)
  <2>1. Append(s, p) \in Seq(Pieces)
    BY <1>1, <1>2, AppendProperties
  <2>2. RequestsIn(Append(s, p)) = Append(RequestsIn(s), r)
    BY <1>1, <1>2, ScanOfLonger
  <2>3. RequestsIn(Append(Append(s, p), q)) = RequestsIn(Append(s, p))
    <3> DEFINE t == Append(s, p)
    <3> HIDE DEF t
    <3>1. t \in Seq(Pieces)
      BY <2>1 DEF t
    <3>2. RequestsIn(Append(t, q)) = RequestsIn(t)
      BY <1>2, <3>1, ScanOfLonger
    <3> QED BY <3>2 DEF t
  <2> QED BY <1>3, <2>2, <2>3
<1>5. Framed(StreamOf(d))
  BY <1>1, <1>3, FramedLonger DEF Ordered, p, q
<1>6. d.unanswered = WorkingOn(d) \o RequestsIn(StreamOf(d))
  <2> DEFINE x == RequestsIn(s)
             y == WorkingOn(c)
             z == <<r>>
  <2>1. x \in Seq(Requests) /\ y \in Seq(Requests) /\ z \in Seq(Requests)
    BY <1>1
  <2>2. c.unanswered = y \o x /\ y \o x \in Seq(Requests)
    BY <2>1, ConcatProperties DEF Ordered
  <2> HIDE DEF x, y, z, s
  <2>3. Append(y \o x, r) = (y \o x) \o z
    BY <2>2, AppendIsConcat DEF z
  <2>4. (y \o x) \o z = y \o (x \o z)
    BY <2>1, ConcatRequests, Zenon
  <2>5. x \o z = Append(x, r)
    BY <2>1, AppendIsConcat DEF z
  <2> QED BY <1>4, <2>2, <2>3, <2>4, <2>5 DEF x, y
<1> QED BY <1>5, <1>6 DEF Ordered

\* The client sends garbage.
LEMMA OrderedGarbage ==
  ASSUME NEW c \in Connection, NEW d \in Connection, Ordered(c),
         WorkingOn(c) \in Seq(Requests), WorkingOn(d) = WorkingOn(c), d.buffer = c.buffer,
         d.incoming = Append(c.incoming, Garbage), d.unanswered = c.unanswered
  PROVE  Ordered(d)
<1> DEFINE s == StreamOf(c)
<1>1. c.buffer \in Seq(Pieces) /\ c.incoming \in Seq(Pieces) /\ s \in Seq(Pieces)
  BY StreamType
<1>2. Garbage \in Pieces /\ Garbage.part # 1
  BY DEF Garbage, Pieces
<1>3. StreamOf(d) = Append(s, Garbage)
  <2>1. <<Garbage>> \in Seq(Pieces)
    BY <1>2
  <2>2. Append(c.incoming, Garbage) = c.incoming \o <<Garbage>>
    BY <1>1, <1>2, AppendIsConcat
  <2>3. (c.buffer \o c.incoming) \o <<Garbage>> = c.buffer \o (c.incoming \o <<Garbage>>)
    BY <1>1, <2>1, ConcatPieces, Zenon
  <2>4. s \o <<Garbage>> = Append(s, Garbage)
    BY <1>1, <1>2, AppendIsConcat
  <2> QED BY <2>2, <2>3, <2>4 DEF StreamOf
<1>4. RequestsIn(StreamOf(d)) = RequestsIn(s)
  BY <1>1, <1>2, <1>3, ScanOfLonger
<1>5. Framed(StreamOf(d))
  BY <1>1, <1>3, FramedLonger DEF Ordered
<1> QED BY <1>4, <1>5 DEF Ordered

\* Bytes arrive: the stream is the same, only more of it is in the decoder.
LEMMA OrderedReceive ==
  ASSUME NEW c \in Connection, NEW d \in Connection, Ordered(c),
         NEW n \in 1..Len(c.incoming), WorkingOn(c) = <<>>, WorkingOn(d) = <<>>,
         d.buffer = c.buffer \o SubSeq(c.incoming, 1, n),
         d.incoming = SubSeq(c.incoming, n + 1, Len(c.incoming)),
         d.unanswered = c.unanswered
  PROVE  Ordered(d)
<1> DEFINE i == c.incoming
           a == SubSeq(i, 1, n)
           b == SubSeq(i, n + 1, Len(i))
<1>1. c.buffer \in Seq(Pieces) /\ i \in Seq(Pieces) /\ Len(i) \in Nat
  BY StreamType
<1>2. a \in Seq(Pieces) /\ b \in Seq(Pieces)
  BY <1>1
<1>3. a \o b = i
  <2>1. 1 \in 1..Len(i) + 1 /\ n \in 1 - 1..Len(i) /\ Len(i) \in n..Len(i)
    BY <1>1
  <2>2. SubSeq(i, 1, n) \o SubSeq(i, n + 1, Len(i)) = SubSeq(i, 1, Len(i))
    BY <1>1, <2>1, ConcatAdjacentSubSeq
  <2>3. SubSeq(i, 1, Len(i)) = i
    BY <1>1, SubSeqFull
  <2> QED BY <2>2, <2>3
<1>4. (c.buffer \o a) \o b = c.buffer \o (a \o b)
  <2> HIDE DEF a, b
  <2> QED BY <1>1, <1>2, ConcatPieces, Zenon
<1>5. StreamOf(d) = StreamOf(c)
  BY <1>3, <1>4 DEF StreamOf
<1> QED BY <1>5 DEF Ordered

\* Taking a frame off the front of a framed stream.
LEMMA FramedRest ==
  ASSUME NEW s \in Seq(Pieces), Framed(s), Len(s) >= 2
  PROVE  Framed(SubSeq(s, 3, Len(s)))
<1> DEFINE t == SubSeq(s, 3, Len(s))
<1>1. Len(s) \in Nat /\ \A i \in 3..Len(s) : s[i] \in Pieces
  OBVIOUS
<1>2. /\ Len(t) = IF 3 <= Len(s) THEN Len(s) - 3 + 1 ELSE 0
      /\ \A i \in 1..(Len(s) - 3 + 1) : t[i] = s[3 + i - 1]
  BY <1>1, SubSeqProperties
<1> HIDE DEF t
<1>3. Len(t) = Len(s) - 2 /\ Len(s) - 3 + 1 = Len(s) - 2
  BY <1>1, <1>2, FromThird
<1>4. \A i \in 1..Len(t) : t[i] = s[i + 2]
  BY <1>1, <1>2, <1>3
<1>5. Framed(t)
  <2> SUFFICES ASSUME NEW k \in 1..Len(t), t[k].part = 1
               PROVE  k + 1 \in 1..Len(t) /\ t[k + 1].part = 2
    BY DEF Framed
  <2>1. k + 2 \in 1..Len(s) /\ s[k + 2].part = 1
    BY <1>1, <1>3, <1>4
  <2>2. (k + 2) + 1 \in 1..Len(s) /\ s[(k + 2) + 1].part = 2
    BY <2>1 DEF Framed
  <2>3. k + 1 \in 1..Len(t) /\ (k + 1) + 2 = (k + 2) + 1
    BY <1>1, <1>3, <2>2
  <2> QED BY <1>4, <2>2, <2>3
<1> QED BY <1>5 DEF t

\* The decoder's buffer loses its first frame: so does the stream.
LEMMA RestOfStream ==
  ASSUME NEW b \in Seq(Pieces), NEW i \in Seq(Pieces), Len(b) >= 2
  PROVE  SubSeq(b, 3, Len(b)) \o i = SubSeq(b \o i, 3, Len(b \o i))
<1> DEFINE s == b \o i
           t == SubSeq(b, 3, Len(b))
           u == SubSeq(s, 3, Len(s))
<1>1. Len(b) \in Nat /\ Len(i) \in Nat /\ \A k \in 3..Len(b) : b[k] \in Pieces
  OBVIOUS
<1>2. /\ s \in Seq(Pieces) /\ Len(s) = Len(b) + Len(i)
      /\ \A k \in 1..Len(b) + Len(i) : s[k] = IF k <= Len(b) THEN b[k] ELSE i[k - Len(b)]
  BY ConcatProperties
<1> HIDE DEF s
<1>3. /\ t \in Seq(Pieces) /\ Len(t) = Len(b) - 2
      /\ \A k \in 1..Len(b) - 2 : t[k] = b[k + 2]
  <2>1. /\ t \in Seq(Pieces) /\ Len(t) = IF 3 <= Len(b) THEN Len(b) - 3 + 1 ELSE 0
        /\ \A k \in 1..Len(b) - 3 + 1 : t[k] = b[3 + k - 1]
    BY <1>1, SubSeqProperties
  <2> HIDE DEF t
  <2>2. Len(t) = Len(b) - 2 /\ Len(b) - 3 + 1 = Len(b) - 2
    BY <1>1, <2>1, FromThird
  <2> QED BY <1>1, <2>1, <2>2
<1>4. /\ u \in Seq(Pieces) /\ Len(u) = Len(s) - 2
      /\ \A k \in 1..Len(s) - 2 : u[k] = s[k + 2]
  <2>0. Len(s) \in Nat /\ Len(s) >= 2 /\ \A k \in 3..Len(s) : s[k] \in Pieces
    BY <1>1, <1>2
  <2>1. /\ u \in Seq(Pieces) /\ Len(u) = IF 3 <= Len(s) THEN Len(s) - 3 + 1 ELSE 0
        /\ \A k \in 1..Len(s) - 3 + 1 : u[k] = s[3 + k - 1]
    BY <2>0, SubSeqProperties
  <2> HIDE DEF u
  <2>2. Len(u) = Len(s) - 2 /\ Len(s) - 3 + 1 = Len(s) - 2
    BY <2>0, <2>1, FromThird
  <2> QED BY <2>0, <2>1, <2>2
<1> HIDE DEF t, u
<1>5. /\ t \o i \in Seq(Pieces) /\ Len(t \o i) = Len(t) + Len(i)
      /\ \A k \in 1..Len(t) + Len(i) : (t \o i)[k] = IF k <= Len(t) THEN t[k] ELSE i[k - Len(t)]
  BY <1>3, ConcatProperties
<1>6. Len(t \o i) = Len(u)
  BY <1>1, <1>2, <1>3, <1>4, <1>5
<1>7. ASSUME NEW k \in 1..Len(t \o i)
      PROVE  (t \o i)[k] = u[k]
  <2>1. u[k] = s[k + 2] /\ k + 2 \in 1..Len(b) + Len(i) /\ k \in 1..Len(t) + Len(i)
    BY <1>1, <1>2, <1>3, <1>4, <1>5
  <2>2. CASE k <= Len(t)
    BY <1>1, <1>2, <1>3, <1>5, <2>1, <2>2
  <2>3. CASE ~(k <= Len(t))
    <3>1. ~(k + 2 <= Len(b)) /\ (k + 2) - Len(b) = k - Len(t)
      BY <1>1, <1>3, <2>3
    <3> QED BY <1>2, <1>5, <2>1, <2>3, <3>1
  <2> QED BY <2>2, <2>3
<1>8. t \o i = u
  <2> DEFINE x == t \o i
  <2>1. x \in Seq(Pieces) /\ Len(x) = Len(u) /\ \A k \in 1..Len(x) : x[k] = u[k]
    BY <1>5, <1>6, <1>7
  <2> HIDE DEF x
  <2>2. x = u
    BY <1>4, <2>1, SeqEqual
  <2> QED BY <2>2 DEF x
<1> QED BY <1>8 DEF s, t, u

\* A stream whose first part holds a frame is not shorter than that.
LEMMA LongEnough ==
  \A m, n, k \in Nat : m >= 2 /\ k = m + n =>
    1 \in 1..m + n /\ 1 <= m /\ k >= 2 /\ 1 \in 1..k
OBVIOUS

\* The lookup: the first request of the stream is in work.
LEMMA OrderedLookup ==
  ASSUME NEW c \in Connection, NEW d \in Connection, Ordered(c), Whole(c.buffer),
         c.pc = "frames", d.pc \in {"execute", "remember", "reply"},
         d.request = c.buffer[1].request,
         d.buffer = Rest(c.buffer), d.incoming = c.incoming, d.unanswered = c.unanswered
  PROVE  Ordered(d)
<1> DEFINE s == StreamOf(c)
           b == c.buffer
<1>1. WorkingOn(c) = <<>> /\ WorkingOn(d) = <<d.request>>
  BY DEF WorkingOn
<1>2. /\ b \in Seq(Pieces) /\ c.incoming \in Seq(Pieces) /\ s \in Seq(Pieces)
      /\ RequestsIn(s) \in Seq(Requests)
  BY <1>1, StreamType
<1>3. Len(b) \in Nat /\ Len(b) >= 2 /\ b[1].part = 1 /\ Len(c.incoming) \in Nat
  BY <1>2, LenProperties DEF Whole
<1>4. Len(s) = Len(b) + Len(c.incoming) /\ s[1] = b[1]
  <2>1. 1 \in 1..Len(b) + Len(c.incoming) /\ 1 <= Len(b)
    <3>1. \A m, n \in Nat : m >= 2 => 1 \in 1..m + n /\ 1 <= m
      OBVIOUS
    <3> HIDE DEF b
    <3> QED BY <1>3, <3>1
  <2> QED BY <1>2, <2>1, ConcatProperties DEF StreamOf
<1>5. Len(s) \in Nat /\ Len(s) >= 2
  <2>1. Len(s) \in Nat
    BY <1>2, LenProperties
  <2> HIDE DEF s, b
  <2> QED BY <1>3, <1>4, <2>1, LongEnough
<1>6. s[2].part = 2
  <2>1. 1 \in 1..Len(s) /\ 1 + 1 = 2
    BY <1>5
  <2> QED BY <1>3, <1>4, <2>1 DEF Ordered, Framed
<1>7. StreamOf(d) = SubSeq(s, 3, Len(s))
  BY <1>2, <1>3, RestOfStream DEF StreamOf, Rest
<1>8. RequestsIn(s) = <<d.request>> \o RequestsIn(StreamOf(d))
  <2> HIDE DEF s
  <2>1. s[1].part = 1 /\ s[2].part # 1 /\ s[1].request = d.request
    BY <1>3, <1>4, <1>6
  <2>2. RequestsIn(s) = <<s[1].request>> \o RequestsIn(SubSeq(s, 3, Len(s)))
    BY <1>2, <1>5, <2>1, ScanOfRest
  <2> QED BY <1>7, <2>1, <2>2
<1>9. Framed(StreamOf(d))
  BY <1>2, <1>5, <1>7, FramedRest DEF Ordered
<1>10. c.unanswered = RequestsIn(s)
  BY <1>1, <1>2, ConcatEmptySeq DEF Ordered
<1> QED BY <1>1, <1>8, <1>9, <1>10 DEF Ordered

\* The reply: the oldest request is answered.
LEMMA OrderedReply ==
  ASSUME NEW c \in Connection, NEW d \in Connection, Ordered(c),
         c.pc = "reply", c.request \in Requests, d.pc \in {"recv", "frames"},
         d.buffer = c.buffer, d.incoming = c.incoming, d.unanswered = Tail(c.unanswered)
  PROVE  Ordered(d)
<1> DEFINE x == RequestsIn(StreamOf(c))
<1>1. WorkingOn(c) = <<c.request>> /\ WorkingOn(d) = <<>> /\ StreamOf(d) = StreamOf(c)
  BY DEF WorkingOn, StreamOf
<1>2. x \in Seq(Requests)
  BY <1>1, StreamType
<1>3. Tail(<<c.request>> \o x) = x
  <2> HIDE DEF x
  <2> QED BY <1>2
<1>4. c.unanswered = <<c.request>> \o x
  BY <1>1 DEF Ordered
<1>5. d.unanswered = <<>> \o x
  BY <1>2, <1>3, <1>4, ConcatEmptySeq
<1> QED BY <1>1, <1>5 DEF Ordered

\* Steps of handle_request between lookup and reply leave the streams alone.
LEMMA OrderedSame ==
  ASSUME NEW c, NEW d, Ordered(c), WorkingOn(d) = WorkingOn(c), d.buffer = c.buffer,
         d.incoming = c.incoming, d.unanswered = c.unanswered
  PROVE  Ordered(d)
BY DEF Ordered, StreamOf

\* One worker's record changes to c.
ConnStep(w, c) == /\ conn'[w] = c /\ c \in Connection
                  /\ \A v \in Workers : v # w => conn'[v] = conn[v]

\* Types of the steps of a client.
LEMMA ClientTypes ==
  ASSUME Types, Working, NEW w \in Workers, Ordered(conn[w]), ClientStep(w)
  PROVE  /\ Types' /\ Ordered(conn'[w])
         /\ ConnStep(w, conn'[w])
         /\ \/ /\ conn'[w].pc = conn[w].pc /\ conn'[w].request = conn[w].request
               /\ conn'[w].answer = conn[w].answer
            \/ conn[w].pc # "remember" /\ conn'[w].pc = "recv"
         /\ UNCHANGED <<responses, history>>
<1>1. conn[w] \in Connection /\ WorkingOn(conn[w]) \in Seq(Requests)
  BY DEF Types, Working, WorkingOn
<1>2. ASSUME NEW r \in Requests, Send(w, r)
      PROVE  \E i \in Seq(Pieces), u \in Seq(Requests) :
               /\ i = conn[w].incoming \o <<Piece(r, 1), Piece(r, 2)>>
               /\ u = Append(conn[w].unanswered, r)
               /\ conn' = [conn EXCEPT ![w] = [conn[w] EXCEPT !.incoming = i, !.unanswered = u]]
  <2> DEFINE i == conn[w].incoming \o <<Piece(r, 1), Piece(r, 2)>>
             u == Append(conn[w].unanswered, r)
  <2>1. i \in Seq(Pieces) /\ u \in Seq(Requests)
    <3>1. Piece(r, 1) \in Pieces /\ Piece(r, 2) \in Pieces
      BY DEF Piece, Pieces
    <3>2. <<Piece(r, 1), Piece(r, 2)>> \in Seq(Pieces)
      BY <3>1
    <3>3. conn[w].incoming \in Seq(Pieces) /\ conn[w].unanswered \in Seq(Requests)
      BY <1>1 DEF Connection
    <3> QED BY <3>2, <3>3, ConcatProperties, AppendProperties
  <2>2. conn' = [conn EXCEPT ![w].incoming = i, ![w].unanswered = u]
    BY <1>2 DEF Send
  <2> HIDE DEF i, u
  <2>3. conn' = [conn EXCEPT ![w] = [conn[w] EXCEPT !.incoming = i, !.unanswered = u]]
    BY <1>1, <2>2 DEF Types
  <2> QED BY <2>1, <2>3 DEF i, u
<1>3. ASSUME SendGarbage(w)
      PROVE  \E i \in Seq(Pieces) :
               /\ i = Append(conn[w].incoming, Garbage)
               /\ conn' = [conn EXCEPT ![w] = [conn[w] EXCEPT !.incoming = i]]
  <2>1. Append(conn[w].incoming, Garbage) \in Seq(Pieces)
    BY <1>1 DEF Connection, Pieces
  <2> QED BY <1>3, <2>1 DEF SendGarbage
<1>4. Fresh \in Connection
  BY DEF Fresh, Connection, Pc, None, NoAnswer, Answers
<1>5. sends' \in Nat /\ UNCHANGED <<responses, history>>
  <2>1. sends' = sends + 1 \/ sends' = sends
    BY DEF ClientStep, Send, SendGarbage, Cut
  <2>2. UNCHANGED <<responses, history>>
    BY DEF ClientStep, Send, SendGarbage, Cut
  <2> QED BY <2>1, <2>2 DEF Types
<1>6. CASE \E r \in Requests : Send(w, r)
  <2>0. PICK r \in Requests : Send(w, r)
    BY <1>6
  <2>1. PICK i \in Seq(Pieces), u \in Seq(Requests) :
               /\ i = conn[w].incoming \o <<Piece(r, 1), Piece(r, 2)>>
               /\ u = Append(conn[w].unanswered, r)
               /\ conn' = [conn EXCEPT ![w] = [conn[w] EXCEPT !.incoming = i, !.unanswered = u]]
    BY <1>2, <2>0
  <2> DEFINE c == [conn[w] EXCEPT !.incoming = i, !.unanswered = u]
  <2>2. /\ c \in Connection /\ c.pc = conn[w].pc /\ c.request = conn[w].request
        /\ c.buffer = conn[w].buffer /\ c.incoming = i /\ c.unanswered = u
        /\ c.answer = conn[w].answer
    BY <1>1 DEF Connection
  <2>3. conn' = [conn EXCEPT ![w] = c]
    BY <2>1
  <2> HIDE DEF c
  <2>4. WorkingOn(c) = WorkingOn(conn[w])
    BY <2>2 DEF WorkingOn
  <2>5. Ordered(c)
    BY <1>1, <2>1, <2>2, <2>4, OrderedSend
  <2> QED BY <1>1, <1>5, <2>2, <2>3, <2>5 DEF Types, ConnStep, responses, history
<1>7. CASE SendGarbage(w)
  <2>1. PICK i \in Seq(Pieces) :
               /\ i = Append(conn[w].incoming, Garbage)
               /\ conn' = [conn EXCEPT ![w] = [conn[w] EXCEPT !.incoming = i]]
    BY <1>3, <1>7
  <2> DEFINE c == [conn[w] EXCEPT !.incoming = i]
  <2>2. /\ c \in Connection /\ c.pc = conn[w].pc /\ c.request = conn[w].request
        /\ c.buffer = conn[w].buffer /\ c.incoming = i /\ c.unanswered = conn[w].unanswered
        /\ c.answer = conn[w].answer
    BY <1>1 DEF Connection
  <2>3. conn' = [conn EXCEPT ![w] = c]
    BY <2>1
  <2> HIDE DEF c
  <2>4. WorkingOn(c) = WorkingOn(conn[w])
    BY <2>2 DEF WorkingOn
  <2>5. Ordered(c)
    BY <1>1, <2>1, <2>2, <2>4, OrderedGarbage
  <2> QED BY <1>1, <1>5, <2>2, <2>3, <2>5 DEF Types, ConnStep, responses, history
<1>8. CASE Cut(w)
  <2>1. conn' = [conn EXCEPT ![w] = Fresh] /\ conn[w].pc # "remember" /\ Fresh.pc = "recv"
    BY <1>8 DEF Cut, Fresh
  <2>2. conn'[w] = Fresh
    BY <2>1 DEF Types
  <2> QED BY <1>4, <1>5, <2>1, <2>2, OrderedFresh DEF Types, ConnStep, responses, history
<1> QED BY <1>6, <1>7, <1>8 DEF ClientStep

\* The steps between two requests: what they do to the worker's record.
LEMMA BetweenEffect ==
  ASSUME Types, Working, NEW w \in Workers, Ordered(conn[w]),
         Receive(w) \/ AwaitMore(w) \/ RefuseFrame(w) \/ Reply(w)
  PROVE  /\ ConnStep(w, conn'[w]) /\ Ordered(conn'[w])
         /\ conn[w].pc # "remember" /\ conn'[w].pc \in {"recv", "frames"}
         /\ UNCHANGED <<responses, sends, history>>
<1>1. conn[w] \in Connection
  BY DEF Types
<1>2. CASE Receive(w)
  <2>1. PICK n \in 1..Len(conn[w].incoming) :
          conn' = [conn EXCEPT ![w].pc = "frames",
                     ![w].buffer = @ \o SubSeq(conn[w].incoming, 1, n),
                     ![w].incoming = SubSeq(@, n + 1, Len(@))]
    BY <1>2 DEF Receive
  <2> DEFINE b == conn[w].buffer \o SubSeq(conn[w].incoming, 1, n)
             i == SubSeq(conn[w].incoming, n + 1, Len(conn[w].incoming))
  <2>2. b \in Seq(Pieces) /\ i \in Seq(Pieces)
    <3>1. conn[w].incoming \in Seq(Pieces) /\ conn[w].buffer \in Seq(Pieces)
      BY <1>1 DEF Connection
    <3>2. SubSeq(conn[w].incoming, 1, n) \in Seq(Pieces) /\ i \in Seq(Pieces)
      BY <3>1
    <3> QED BY <3>1, <3>2, ConcatProperties
  <2>3. conn' = [conn EXCEPT ![w].pc = "frames", ![w].buffer = b, ![w].incoming = i]
    BY <2>1
  <2> HIDE DEF b, i
  <2>4. conn' = [conn EXCEPT ![w] = [conn[w] EXCEPT !.pc = "frames", !.buffer = b,
                                                    !.incoming = i]]
    BY <1>1, <2>3 DEF Types
  <2> DEFINE c == [conn[w] EXCEPT !.pc = "frames", !.buffer = b, !.incoming = i]
  <2>5. /\ c \in Connection /\ c.pc = "frames" /\ c.buffer = b /\ c.incoming = i
        /\ c.unanswered = conn[w].unanswered
    BY <1>1, <2>2 DEF Connection, Pc
  <2>6. conn[w].pc = "recv" /\ UNCHANGED <<responses, sends, history>>
    BY <1>2 DEF Receive
  <2> HIDE DEF c
  <2>7. WorkingOn(c) = <<>> /\ WorkingOn(conn[w]) = <<>>
    BY <2>5, <2>6 DEF WorkingOn
  <2>8. Ordered(c)
    BY <1>1, <2>5, <2>7, OrderedReceive DEF b, i
  <2>9. conn' = [conn EXCEPT ![w] = c]
    BY <2>4 DEF c
  <2> QED BY <1>1, <2>5, <2>6, <2>8, <2>9 DEF ConnStep, Types
<1>3. CASE AwaitMore(w)
  <2> DEFINE c == [conn[w] EXCEPT !.pc = "recv"]
  <2>1. /\ c \in Connection /\ c.pc = "recv" /\ c.buffer = conn[w].buffer
        /\ c.incoming = conn[w].incoming /\ c.unanswered = conn[w].unanswered
    BY <1>1 DEF Connection, Pc
  <2>2. conn' = [conn EXCEPT ![w] = c]
    BY <1>3 DEF AwaitMore
  <2>3. conn[w].pc = "frames" /\ UNCHANGED <<responses, sends, history>>
    BY <1>3 DEF AwaitMore
  <2> HIDE DEF c
  <2>4. WorkingOn(c) = WorkingOn(conn[w])
    BY <2>1, <2>3 DEF WorkingOn
  <2>5. Ordered(c)
    BY <2>1, <2>4, OrderedSame
  <2> QED BY <1>1, <2>1, <2>2, <2>3, <2>5 DEF ConnStep, Types
<1>4. CASE RefuseFrame(w)
  <2>1. Fresh \in Connection
    BY DEF Fresh, Connection, Pc, NoAnswer, Answers
  <2>2. conn' = [conn EXCEPT ![w] = Fresh] /\ conn[w].pc # "remember" /\ Fresh.pc = "recv"
    BY <1>4 DEF RefuseFrame, Fresh
  <2>3. conn'[w] = Fresh
    BY <2>2 DEF Types
  <2> QED BY <1>4, <2>1, <2>2, <2>3, OrderedFresh DEF RefuseFrame, ConnStep, Types
<1>5. CASE Reply(w)
  <2> DEFINE u == Tail(conn[w].unanswered)
             c == [conn[w] EXCEPT !.pc = "frames", !.request = None, !.answer = NoAnswer,
                                  !.unanswered = u]
  <2>1. conn[w].pc = "reply" /\ UNCHANGED <<responses, sends, history>>
    BY <1>5 DEF Reply
  <2>2. u \in Seq(Requests)
    <3>1. conn[w].request \in Requests /\ WorkingOn(conn[w]) = <<conn[w].request>>
      BY <2>1 DEF Working, WorkingOn
    <3>2. RequestsIn(StreamOf(conn[w])) \in Seq(Requests)
      BY <1>1, <3>1, StreamType
    <3>3. conn[w].unanswered = <<conn[w].request>> \o RequestsIn(StreamOf(conn[w]))
      BY <3>1 DEF Ordered
    <3> QED BY <3>1, <3>2, <3>3
  <2>3. conn' = [conn EXCEPT ![w].pc = "frames", ![w].request = None, ![w].answer = NoAnswer,
                             ![w].unanswered = u]
    BY <1>5 DEF Reply
  <2> HIDE DEF u
  <2>4. conn' = [conn EXCEPT ![w] = c]
    BY <1>1, <2>3 DEF Types
  <2>5. c \in Connection
    BY <1>1, <2>2 DEF Connection, Pc, Answers, NoAnswer
  <2>6. /\ c.pc = "frames" /\ c.buffer = conn[w].buffer /\ c.incoming = conn[w].incoming
        /\ c.unanswered = u
    BY <1>1 DEF Connection
  <2> HIDE DEF c
  <2>7. Ordered(c)
    BY <1>1, <2>1, <2>5, <2>6, OrderedReply DEF u, Working
  <2> QED BY <2>1, <2>4, <2>5, <2>6, <2>7 DEF ConnStep, Types
<1> QED BY <1>2, <1>3, <1>4, <1>5

\* A step of handle_request: the worker w that was at pc "from" is at pc "to" with
\* request r and answer a.
AtStep(w, to, r, a) ==
  /\ ConnStep(w, conn'[w]) /\ Ordered(conn'[w])
  /\ conn'[w].pc = to /\ conn'[w].request = r /\ conn'[w].answer = a

\* The lookup.
LEMMA LookupEffect ==
  ASSUME Types, CacheTrue, NEW w \in Workers, Ordered(conn[w]), Lookup(w)
  PROVE  /\ conn[w].pc = "frames" /\ UNCHANGED <<responses, sends, carried>>
         /\ \E r \in Requests :
              \/ /\ Cached(r) /\ UNCHANGED excused
                 /\ AtStep(w, "reply", r,
                           IF SameRequest(r, cache[r.id]) THEN "ok" ELSE "duplicate")
              \/ /\ ~Cached(r) /\ AtStep(w, "execute", r, conn[w].answer)
                 /\ excused' = IF UnderWay(w, r) THEN excused \cup {r.id} ELSE excused
<1> DEFINE r == conn[w].buffer[1].request
           b == Rest(conn[w].buffer)
           a == IF SameRequest(r, cache[r.id]) THEN "ok" ELSE "duplicate"
<1>1. conn[w] \in Connection
  BY DEF Types
<1>2. conn[w].pc = "frames" /\ Whole(conn[w].buffer)
  BY DEF Lookup
<1>3. r \in Requests /\ b \in Seq(Pieces)
  BY <1>1, <1>2, WholeIsRequest DEF Connection
<1>4. CASE Cached(r)
  <2>1. /\ conn' = [conn EXCEPT ![w].buffer = b, ![w].request = r,
                                ![w].pc = "reply", ![w].answer = a]
        /\ UNCHANGED history /\ UNCHANGED <<responses, sends>>
    BY <1>4 DEF Lookup
  <2>2. a \in {"ok", "duplicate"}
    OBVIOUS
  <2> HIDE DEF r, b, a
  <2> DEFINE c == [conn[w] EXCEPT !.buffer = b, !.request = r, !.pc = "reply", !.answer = a]
  <2>3. conn' = [conn EXCEPT ![w] = c]
    BY <1>1, <2>1 DEF Types
  <2>4. /\ c \in Connection /\ c.pc = "reply" /\ c.request = r /\ c.answer = a
        /\ c.buffer = b /\ c.incoming = conn[w].incoming
        /\ c.unanswered = conn[w].unanswered
    BY <1>1, <1>3, <2>2 DEF Connection, Pc, Answers
  <2> HIDE DEF c
  <2>6. Ordered(c)
    BY <1>1, <1>2, <2>4, OrderedLookup DEF r, b
  <2>5. AtStep(w, "reply", r, a)
    BY <2>3, <2>4, <2>6 DEF AtStep, ConnStep, Types
  <2> QED BY <1>2, <1>3, <1>4, <2>1, <2>5 DEF a, history
<1>5. CASE ~Cached(r)
  <2>1. /\ conn' = [conn EXCEPT ![w].buffer = b, ![w].request = r, ![w].pc = "execute"]
        /\ excused' = IF UnderWay(w, r) THEN excused \cup {r.id} ELSE excused
        /\ UNCHANGED carried /\ UNCHANGED <<responses, sends>>
    BY <1>5 DEF Lookup
  <2> HIDE DEF r, b, a
  <2> DEFINE c == [conn[w] EXCEPT !.buffer = b, !.request = r, !.pc = "execute"]
  <2>3. conn' = [conn EXCEPT ![w] = c]
    BY <1>1, <2>1 DEF Types
  <2>4. /\ c \in Connection /\ c.pc = "execute" /\ c.request = r /\ c.answer = conn[w].answer
        /\ c.buffer = b /\ c.incoming = conn[w].incoming
        /\ c.unanswered = conn[w].unanswered
    BY <1>1, <1>3 DEF Connection, Pc
  <2> HIDE DEF c
  <2>6. Ordered(c)
    BY <1>1, <1>2, <2>4, OrderedLookup DEF r, b
  <2>5. AtStep(w, "execute", r, conn[w].answer)
    BY <2>3, <2>4, <2>6 DEF AtStep, ConnStep, Types
  <2> QED BY <1>2, <1>3, <1>5, <2>1, <2>5
<1> QED BY <1>4, <1>5

\* A step that leaves the request alone and sets pc and answer.
LEMMA AnswerEffect ==
  ASSUME Types, NEW w \in Workers, NEW to \in Pc, NEW a \in Answers, Ordered(conn[w]),
         {conn[w].pc, to} \subseteq {"execute", "remember", "reply"},
         conn' = [conn EXCEPT ![w].pc = to, ![w].answer = a]
  PROVE  AtStep(w, to, conn[w].request, a)
<1>1. conn[w] \in Connection
  BY DEF Types
<1> DEFINE c == [conn[w] EXCEPT !.pc = to, !.answer = a]
<1>2. conn' = [conn EXCEPT ![w] = c]
  BY <1>1 DEF Types
<1>3. /\ c \in Connection /\ c.pc = to /\ c.request = conn[w].request /\ c.answer = a
      /\ c.buffer = conn[w].buffer /\ c.incoming = conn[w].incoming
      /\ c.unanswered = conn[w].unanswered
  BY <1>1 DEF Connection
<1> HIDE DEF c
<1>4. WorkingOn(c) = WorkingOn(conn[w])
  BY <1>3 DEF WorkingOn
<1>5. Ordered(c)
  BY <1>3, <1>4, OrderedSame
<1> QED BY <1>2, <1>3, <1>5 DEF AtStep, ConnStep, Types

-----------------------------------------------------------------------------
(* The effects *)

\* A worker whose record changes leaves the other conditions on the connections.
LEMMA OthersOrdered ==
  ASSUME AllOrdered, NEW w \in Workers, ConnStep(w, conn'[w]), Ordered(conn'[w])
  PROVE  AllOrdered'
<1>1. \A v \in Workers : Ordered(conn'[v])
  BY DEF AllOrdered, ConnStep
<1> QED BY <1>1 DEF AllOrdered, Ordered, WorkingOn, StreamOf, Framed

\* What is told to a client with answer a to request r.
TrueAnswer(r, a) ==
  /\ a = "ok" => carried[r] > 0
  /\ a = "duplicate" => \E q \in Requests \ {r} : q.id = r.id /\ carried[q] > 0

\* Steps that touch neither the effects nor the cache: the client's, those between
\* two requests, a failed execution and an answer from the cache.
LEMMA Harmless ==
  ASSUME Effects, NEW w \in Workers, ConnStep(w, conn'[w]), UNCHANGED <<responses, history>>,
         \/ /\ conn'[w].pc = conn[w].pc /\ conn'[w].request = conn[w].request
            /\ conn'[w].answer = conn[w].answer
         \/ conn[w].pc # "remember" /\ conn'[w].pc \in {"recv", "frames"}
         \/ /\ conn[w].pc # "remember" /\ conn'[w].pc = "reply"
            /\ conn'[w].request \in Requests
            /\ TrueAnswer(conn'[w].request, conn'[w].answer)
  PROVE  Effects'
<1>1. cache' = cache /\ carried' = carried /\ excused' = excused
  BY DEF responses, history
<1>2. ASSUME NEW v \in Workers, conn'[v].pc \in {"execute", "remember"}
      PROVE  /\ conn[v].pc = conn'[v].pc /\ conn[v].request = conn'[v].request
             /\ conn[v].answer = conn'[v].answer
  BY <1>2 DEF ConnStep
<1>3. ASSUME NEW v \in Workers, conn[v].pc = "remember"
      PROVE  conn'[v].pc = "remember" /\ conn'[v].request = conn[v].request
  BY <1>3 DEF ConnStep
<1>4. Working'
  BY DEF Effects, Working, ConnStep
<1>5. CacheTrue' /\ EffectOnce'
  BY <1>1 DEF Effects, CacheTrue, EffectOnce
<1>6. EffectHappened'
  BY <1>1, <1>2 DEF Effects, EffectHappened
<1>7. \A v \in Workers, r \in Mutations : On(v, r)' => On(v, r) /\ conn'[v].pc = conn[v].pc
  BY <1>2 DEF On
<1>8. OneWorker' /\ FirstEffect'
  BY <1>1, <1>7 DEF Effects, OneWorker, FirstEffect
<1>9. EffectKept'
  BY <1>1, <1>3 DEF Effects, EffectKept
<1>10. AnswerIsTrue'
  <2> SUFFICES ASSUME NEW v \in Workers, conn'[v].pc = "reply"
               PROVE  TrueAnswer(conn[v].request, conn[v].answer)'
    BY DEF AnswerIsTrue, TrueAnswer
  <2>1. conn[v].pc = "reply" => TrueAnswer(conn[v].request, conn[v].answer)
    BY DEF Effects, AnswerIsTrue, TrueAnswer
  <2>2. TrueAnswer(conn'[v].request, conn'[v].answer)
    BY <2>1 DEF ConnStep
  <2> QED BY <1>1, <2>2 DEF TrueAnswer
<1> QED BY <1>4, <1>5, <1>6, <1>8, <1>9, <1>10 DEF Effects

\* A lookup that finds nothing: the worker is on the request, alone and first, or
\* the id is excused.
LEMMA LookupUncached ==
  ASSUME Types, Effects, NEW w \in Workers, NEW r \in Requests, conn[w].pc = "frames",
         ~Cached(r), AtStep(w, "execute", r, conn[w].answer),
         excused' = IF UnderWay(w, r) THEN excused \cup {r.id} ELSE excused,
         UNCHANGED <<responses, carried>>
  PROVE  Effects'
<1>1. cache' = cache /\ carried' = carried /\ excused \subseteq excused'
  BY DEF responses
<1>2. /\ conn'[w].pc = "execute" /\ conn'[w].request = r
      /\ \A v \in Workers : v # w => conn'[v] = conn[v]
  BY DEF AtStep, ConnStep
<1>3. ASSUME r \in Mutations, r.id \notin excused',
             NEW v \in Workers \ {w}, NEW q \in Mutations, On(v, q), q.id = r.id
      PROVE  FALSE
  <2>1. UnderWay(w, r)
    BY <1>3 DEF UnderWay, On, Mutations
  <2> QED BY <1>3, <2>1
<1>4. ASSUME r \in Mutations, r.id \notin excused', NEW q \in Mutations, q.id = r.id
      PROVE  carried[q] = 0
  <2> SUFFICES ASSUME carried[q] # 0
               PROVE  FALSE
    OBVIOUS
  <2>1. carried[q] > 0
    BY DEF Types, Mutations
  <2>2. r.id \notin DOMAIN cache
    BY <1>4 DEF Cached, Mutations
  <2>3. PICK v \in Workers : conn[v].pc = "remember" /\ conn[v].request.id = r.id
    BY <1>1, <1>4, <2>1, <2>2 DEF Effects, EffectKept
  <2>4. v # w /\ conn[v].request \in Mutations
    BY <2>3 DEF Effects, EffectHappened
  <2>5. On(v, conn[v].request)
    BY <2>3 DEF On
  <2> QED BY <1>3, <1>4, <2>3, <2>4, <2>5
<1>5. Working'
  BY <1>2 DEF Effects, Working
<1>6. CacheTrue' /\ EffectOnce'
  BY <1>1 DEF Effects, CacheTrue, EffectOnce
<1>7. EffectHappened'
  BY <1>1, <1>2 DEF Effects, EffectHappened
<1>8. OneWorker'
  <2> SUFFICES ASSUME NEW u \in Workers, NEW v \in Workers, NEW p \in Mutations,
                      NEW q \in Mutations, On(u, p)', On(v, q)', p.id = q.id,
                      p.id \notin excused', u # v
               PROVE  FALSE
    BY DEF OneWorker
  <2>1. CASE u = w
    BY <1>2, <1>3, <2>1 DEF On
  <2>2. CASE v = w
    BY <1>2, <1>3, <2>2 DEF On
  <2>3. CASE u # w /\ v # w
    <3>1. On(u, p) /\ On(v, q)
      BY <1>2, <2>3 DEF On
    <3> QED BY <1>1, <3>1 DEF Effects, OneWorker
  <2> QED BY <2>1, <2>2, <2>3
<1>9. FirstEffect'
  <2> SUFFICES ASSUME NEW v \in Workers, NEW p \in Mutations, NEW q \in Mutations,
                      On(v, p)', conn'[v].pc = "execute", p.id = q.id, p.id \notin excused'
               PROVE  carried[q] = 0
    BY <1>1 DEF FirstEffect
  <2>1. CASE v = w
    BY <1>2, <1>4, <2>1 DEF On
  <2>2. CASE v # w
    <3>1. On(v, p) /\ conn[v].pc = "execute"
      BY <1>2, <2>2 DEF On
    <3> QED BY <1>1, <3>1 DEF Effects, FirstEffect
  <2> QED BY <2>1, <2>2
<1>10. EffectKept'
  BY <1>1, <1>2 DEF Effects, EffectKept
<1>11. AnswerIsTrue'
  BY <1>1, <1>2 DEF Effects, AnswerIsTrue
<1> QED BY <1>5, <1>6, <1>7, <1>8, <1>9, <1>10, <1>11 DEF Effects

\* The coordinator carries request r of worker w out: the first effect of its id,
\* if it is a mutation and the id is not excused.
LEMMA CarriedOut ==
  ASSUME Types, Effects, NEW w \in Workers, NEW r \in Requests, conn[w].pc = "execute",
         conn[w].request = r, NEW to \in {"remember", "reply"}, NEW a \in {"ok", "error"},
         AtStep(w, to, r, a), carried' = [carried EXCEPT ![r] = @ + 1], cache' = cache,
         excused \subseteq excused', to = "remember" => r \in Mutations /\ a = "ok",
         to = "reply" => r \notin Mutations \/ r.id \in excused'
  PROVE  Effects'
<1>1. /\ conn'[w].pc = to /\ conn'[w].request = r /\ conn'[w].answer = a
      /\ \A v \in Workers : v # w => conn'[v] = conn[v]
  BY DEF AtStep, ConnStep
<1>2. /\ carried'[r] = carried[r] + 1 /\ carried'[r] > 0 /\ carried[r] \in Nat
      /\ \A q \in Requests : q # r => carried'[q] = carried[q]
      /\ \A q \in Requests : carried[q] > 0 => carried'[q] > 0
  BY DEF Types
<1>3. ASSUME r \in Mutations, r.id \notin excused'
      PROVE  /\ \A q \in Mutations : q.id = r.id => carried[q] = 0
             /\ \A v \in Workers, q \in Mutations : On(v, q) /\ q.id = r.id => v = w
  <2>1. On(w, r)
    BY DEF On
  <2>2. r.id \notin excused
    BY <1>3
  <2> QED BY <1>3, <2>1, <2>2 DEF Effects, FirstEffect, OneWorker
<1>4. ASSUME NEW v \in Workers, NEW q \in Mutations, On(v, q)'
      PROVE  /\ v # w => On(v, q) /\ conn'[v].pc = conn[v].pc
             /\ v = w => q = r /\ On(w, r) /\ conn'[v].pc = "remember"
  BY <1>1, <1>4 DEF On
<1>5. Working'
  BY <1>1 DEF Effects, Working
<1>6. CacheTrue'
  BY <1>2 DEF Effects, CacheTrue
<1>7. EffectHappened'
  <2> SUFFICES ASSUME NEW v \in Workers, conn'[v].pc = "remember"
               PROVE  /\ conn'[v].answer = "ok" /\ carried'[conn'[v].request] > 0
                      /\ conn'[v].request \in Mutations
    BY DEF EffectHappened
  <2>1. CASE v = w
    BY <1>1, <1>2, <2>1
  <2>2. CASE v # w
    BY <1>1, <1>2, <2>2 DEF Effects, EffectHappened, Mutations
  <2> QED BY <2>1, <2>2
<1>8. OneWorker'
  BY <1>4 DEF Effects, OneWorker
<1>9. FirstEffect'
  <2> SUFFICES ASSUME NEW v \in Workers, NEW p \in Mutations, NEW q \in Mutations,
                      On(v, p)', conn'[v].pc = "execute", p.id = q.id, p.id \notin excused'
               PROVE  carried'[q] = 0
    BY DEF FirstEffect
  <2>1. v # w /\ On(v, p) /\ conn[v].pc = "execute"
    BY <1>4
  <2>2. carried[q] = 0
    BY <2>1 DEF Effects, FirstEffect
  <2>3. q # r
    BY <1>3, <2>1
  <2> QED BY <1>2, <2>2, <2>3 DEF Mutations
<1>10. EffectKept'
  <2> SUFFICES ASSUME NEW q \in Mutations, q.id \notin excused', carried'[q] > 0
               PROVE  \/ q.id \in DOMAIN cache
                      \/ \E v \in Workers : conn'[v].pc = "remember" /\ conn'[v].request.id = q.id
    BY DEF EffectKept
  <2>1. CASE q = r
    BY <1>1, <2>1
  <2>2. CASE q # r
    <3>1. q \in Requests /\ carried[q] > 0 /\ q.id \notin excused
      BY <1>2, <2>2 DEF Mutations
    <3>2. \/ q.id \in DOMAIN cache
          \/ \E v \in Workers : conn[v].pc = "remember" /\ conn[v].request.id = q.id
      BY <3>1 DEF Effects, EffectKept
    <3> QED BY <1>1, <3>2
  <2> QED BY <2>1, <2>2
<1>11. EffectOnce'
  <2> SUFFICES ASSUME NEW p \in Mutations, NEW q \in Mutations, p.id = q.id,
                      p.id \notin excused'
               PROVE  carried'[p] <= 1 /\ (p # q => carried'[p] + carried'[q] <= 1)
    BY DEF EffectOnce, Mutations
  <2>0. p \in Requests /\ q \in Requests /\ p.id \notin excused
    BY DEF Mutations
  <2>1. CASE p.id = r.id /\ r \in Mutations
    <3>1. carried[p] = 0 /\ carried[q] = 0 /\ carried[r] = 0
      BY <1>3, <2>1
    <3>2. carried'[p] \in {0, 1} /\ carried'[q] \in {0, 1}
      BY <1>2, <2>0, <3>1
    <3>3. p # q => carried'[p] = 0 \/ carried'[q] = 0
      BY <1>2, <2>0, <3>1
    <3> QED BY <3>2, <3>3
  <2>2. CASE p.id # r.id \/ r \notin Mutations
    <3>1. carried'[p] = carried[p] /\ carried'[q] = carried[q]
      BY <1>2, <2>0, <2>2
    <3> QED BY <2>0, <3>1 DEF Effects, EffectOnce, Mutations
  <2> QED BY <2>1, <2>2
<1>12. AnswerIsTrue'
  <2> SUFFICES ASSUME NEW v \in Workers, conn'[v].pc = "reply"
               PROVE  TrueAnswer(conn[v].request, conn[v].answer)'
    BY DEF AnswerIsTrue, TrueAnswer
  <2>1. CASE v = w
    BY <1>1, <1>2, <2>1 DEF TrueAnswer
  <2>2. CASE v # w
    <3>1. conn[v].pc = "reply" /\ conn'[v] = conn[v] /\ conn[v].request \in Requests
      BY <1>1, <2>2 DEF Effects, Working
    <3>2. TrueAnswer(conn[v].request, conn[v].answer)
      BY <3>1 DEF Effects, AnswerIsTrue, TrueAnswer
    <3> QED BY <1>2, <3>1, <3>2 DEF TrueAnswer
  <2> QED BY <2>1, <2>2
<1> QED BY <1>5, <1>6, <1>7, <1>8, <1>9, <1>10, <1>11, <1>12 DEF Effects

\* remember: the effect of worker w moves into the cache, what has to go for it is
\* excused.
LEMMA RememberEffects ==
  ASSUME Types, AllOrdered, Effects, EvictionFindsEntry, NEW w \in Workers, Remember(w)
  PROVE  Types' /\ AllOrdered' /\ Effects' /\ EvictionFindsEntry'
<1> DEFINE r == conn[w].request
           filled == [i \in DOMAIN cache \cup {r.id} |-> IF i = r.id THEN r ELSE cache[i]]
           c == [order |-> Append(cacheOrder, r.id), entries |-> filled]
           kept == Evict(c)
<1>1. /\ conn[w].pc = "remember" /\ r \in Mutations /\ r \in Requests /\ carried[r] > 0
      /\ r.id \in Nat /\ conn[w].answer = "ok"
  BY RequestFields DEF Remember, Effects, EffectHappened, Mutations
<1>2. /\ conn' = [conn EXCEPT ![w].pc = "reply"]
      /\ cache' = kept.entries /\ cacheOrder' = kept.order
      /\ excused' = excused \cup (DOMAIN filled \ DOMAIN kept.entries)
      /\ sends' = sends /\ carried' = carried
  BY DEF Remember
<1>3. /\ c.order \in Seq(Nat) /\ c.entries = filled
      /\ DOMAIN filled = DOMAIN cache \cup {r.id}
      /\ IsFiniteSet(DOMAIN c.entries) /\ DOMAIN filled \subseteq Nat
  <2>1. c.order \in Seq(Nat) /\ c.entries = filled
    BY <1>1 DEF Types
  <2>2. DOMAIN filled = DOMAIN cache \cup {r.id} /\ DOMAIN filled \subseteq Nat
    BY <1>1 DEF Types
  <2>3. IsFiniteSet(DOMAIN cache \cup {r.id})
    BY FS_AddElement DEF Types
  <2> HIDE DEF c, filled
  <2> QED BY <2>1, <2>2, <2>3
<1>4. Covered(c)
  <2> SUFFICES ASSUME NEW i \in DOMAIN filled
               PROVE  \E k \in 1..Len(c.order) : c.order[k] = i
    BY DEF Covered
  <2>1. /\ cacheOrder \in Seq(Nat) /\ Len(cacheOrder) \in Nat
        /\ Len(c.order) = Len(cacheOrder) + 1 /\ c.order[Len(cacheOrder) + 1] = r.id
        /\ \A k \in 1..Len(cacheOrder) : c.order[k] = cacheOrder[k]
    BY <1>1 DEF Types
  <2> HIDE DEF c
  <2>2. CASE i = r.id
    BY <2>1, <2>2
  <2>3. CASE i \in DOMAIN cache
    <3>1. PICK k \in 1..Len(cacheOrder) : cacheOrder[k] = i
      BY <2>3 DEF EvictionFindsEntry
    <3>2. k \in 1..Len(c.order) /\ c.order[k] = i
      BY <2>1, <3>1
    <3> QED BY <3>2
  <2> QED BY <1>3, <2>2, <2>3
<1> HIDE DEF c
<1>5. /\ kept.order \in Seq(Nat) /\ DOMAIN kept.entries \subseteq DOMAIN filled
      /\ \A i \in DOMAIN kept.entries : kept.entries[i] = filled[i]
      /\ Covered(kept) /\ Cardinality(DOMAIN kept.entries) <= MaxCache
  <2> HIDE DEF filled
  <2> QED BY <1>3, <1>4, EvictKeeps
<1> HIDE DEF kept
<1>6. EvictionFindsEntry'
  BY <1>2, <1>5 DEF EvictionFindsEntry, Covered
<1>7. AtStep(w, "reply", r, "ok")
  <2>1. conn[w] \in Connection /\ "ok" \in Answers /\ "reply" \in Pc
    BY DEF Types, Answers, Pc
  <2>2. conn' = [conn EXCEPT ![w].pc = "reply", ![w].answer = "ok"]
    BY <1>1, <1>2, <2>1 DEF Connection, Types
  <2> QED BY <1>1, <2>1, <2>2, AnswerEffect DEF AllOrdered
<1>8. /\ conn'[w].pc = "reply" /\ conn'[w].request = r /\ conn'[w].answer = "ok"
      /\ \A v \in Workers : v # w => conn'[v] = conn[v]
  BY <1>7 DEF AtStep, ConnStep
<1>9. Types'
  <2>1. conn' \in [Workers -> Connection]
    BY <1>2, <1>7 DEF AtStep, ConnStep, Types
  <2>2. IsFiniteSet(DOMAIN kept.entries)
    BY <1>3, <1>5, FS_Subset
  <2> QED BY <1>2, <1>3, <1>5, <2>1, <2>2 DEF Types
<1>10. AllOrdered'
  BY <1>7, OthersOrdered DEF AtStep
<1>11. Working' /\ EffectHappened'
  BY <1>1, <1>2, <1>8 DEF Effects, Working, EffectHappened
<1>12. CacheTrue'
  <2> SUFFICES ASSUME NEW i \in DOMAIN kept.entries
               PROVE  filled[i] \in Requests /\ filled[i].id = i /\ carried[filled[i]] > 0
    BY <1>2, <1>5 DEF CacheTrue
  <2> QED BY <1>1, <1>3, <1>5 DEF Effects, CacheTrue
<1>13. EffectOnce'
  BY <1>2 DEF Effects, EffectOnce
<1>14. \A v \in Workers, q \in Mutations : On(v, q)' => On(v, q) /\ conn'[v].pc = conn[v].pc
  BY <1>8 DEF On
<1>15. OneWorker' /\ FirstEffect'
  BY <1>2, <1>14 DEF Effects, OneWorker, FirstEffect
<1>16. EffectKept'
  <2> SUFFICES ASSUME NEW q \in Mutations, q.id \notin excused', carried[q] > 0
               PROVE  \/ q.id \in DOMAIN kept.entries
                      \/ \E v \in Workers : conn'[v].pc = "remember" /\ conn'[v].request.id = q.id
    BY <1>2 DEF EffectKept
  <2>1. \/ q.id \in DOMAIN cache
        \/ \E v \in Workers : conn[v].pc = "remember" /\ conn[v].request.id = q.id
    BY <1>2 DEF Effects, EffectKept
  <2>2. q.id \in DOMAIN filled => q.id \in DOMAIN kept.entries
    BY <1>2
  <2> QED BY <1>3, <1>8, <2>1, <2>2
<1>17. AnswerIsTrue'
  BY <1>1, <1>2, <1>8 DEF Effects, AnswerIsTrue
<1> QED BY <1>6, <1>9, <1>10, <1>11, <1>12, <1>13, <1>15, <1>16, <1>17 DEF Effects

-----------------------------------------------------------------------------
(* The theorems *)

\* The service as it starts.
LEMMA InitInv == Init => RequestsInv
<1> SUFFICES ASSUME Init
             PROVE  RequestsInv
  OBVIOUS
<1>1. Fresh \in Connection
  BY DEF Fresh, Connection, Pc, None, NoAnswer, Answers
<1>2. /\ \A w \in Workers : conn[w] = Fresh
      /\ DOMAIN cache = {} /\ cacheOrder = <<>> /\ excused = {} /\ sends = 0
      /\ carried = [r \in Requests |-> 0]
  BY DEF Init
<1>3. Fresh.pc = "recv"
  BY DEF Fresh
<1>4. Types
  BY <1>1, <1>2, FS_EmptySet DEF Types, Init
<1>5. AllOrdered
  BY <1>2, OrderedFresh DEF AllOrdered
<1>6. Effects
  <2>1. Working /\ CacheTrue /\ EffectHappened /\ AnswerIsTrue
    BY <1>2, <1>3 DEF Working, CacheTrue, EffectHappened, AnswerIsTrue
  <2>2. \A w \in Workers, r \in Mutations : ~On(w, r)
    BY <1>2, <1>3 DEF On
  <2>3. OneWorker /\ FirstEffect
    BY <2>2 DEF OneWorker, FirstEffect
  <2>4. \A r \in Requests : carried[r] = 0
    BY <1>2
  <2>5. EffectKept /\ EffectOnce
    BY <2>4 DEF EffectKept, EffectOnce, Mutations
  <2> QED BY <2>1, <2>3, <2>5 DEF Effects
<1>7. EvictionFindsEntry
  BY <1>2, FS_EmptySet, RequestsAssumption DEF EvictionFindsEntry
<1> QED BY <1>4, <1>5, <1>6, <1>7 DEF RequestsInv

\* The types after a step that changes one worker's record and the counts.
LEMMA TypesAfter ==
  ASSUME Types, NEW w \in Workers, ConnStep(w, conn'[w]), DOMAIN conn' = Workers,
         conn' = [v \in Workers |-> conn'[v]],
         UNCHANGED <<responses, sends>>,
         \/ carried' = carried
         \/ \E r \in Requests : carried' = [carried EXCEPT ![r] = @ + 1]
  PROVE  Types'
<1>1. \A v \in Workers : conn'[v] \in Connection
  BY DEF Types, ConnStep
<1>2. carried' \in [Requests -> Nat]
  BY DEF Types
<1> QED BY <1>1, <1>2 DEF Types, responses

\* What execute does, for each group of opcodes.
LEMMA ExecuteKeeps ==
  ASSUME RequestsInv, NEW w \in Workers,
         \/ ExecuteAck(w) \/ ExecuteRecord(w) \/ ExecuteRead(w) \/ ExecuteMaintain(w)
         \/ ExecuteThenFails(w)
  PROVE  RequestsInv'
<1> DEFINE r == conn[w].request
<1>1. conn[w].pc = "execute" /\ r \in Requests /\ Ordered(conn[w]) /\ r.id \in Nat
  <2>1. conn[w].pc = "execute"
    BY DEF ExecuteAck, ExecuteRecord, ExecuteRead, ExecuteMaintain, ExecuteThenFails, Executed
  <2>2. r \in Requests /\ Ordered(conn[w])
    BY <2>1 DEF RequestsInv, Effects, Working, AllOrdered
  <2> QED BY <2>1, <2>2, RequestFields
<1>2. \E to \in {"remember", "reply"}, a \in {"ok", "error"} :
        /\ conn' = [conn EXCEPT ![w].pc = to, ![w].answer = a]
        /\ carried' = [carried EXCEPT ![r] = @ + 1] /\ UNCHANGED <<responses, sends>>
        /\ excused \subseteq excused' /\ (to = "remember" => r \in Mutations /\ a = "ok")
        /\ (to = "reply" => r \notin Mutations \/ r.id \in excused')
  <2>1. CASE ExecuteAck(w) \/ ExecuteRecord(w)
    <3>1. Executed(w, AfterEffect(r)) /\ r.opcode \in {"ack", "record"}
      BY <2>1 DEF ExecuteAck, ExecuteRecord
    <3>2. /\ AfterEffect(r) \in {"remember", "reply"}
          /\ AfterEffect(r) = "remember" <=> r \in Mutations
      BY <1>1, <3>1 DEF AfterEffect, Cacheable, Mutations
    <3> QED BY <3>1, <3>2 DEF Executed
  <2>2. CASE ExecuteRead(w) \/ ExecuteMaintain(w)
    <3>1. Executed(w, "reply") /\ r \notin Mutations
      BY <2>2 DEF ExecuteRead, ExecuteMaintain, Mutations
    <3> QED BY <3>1 DEF Executed
  <2>3. CASE ExecuteThenFails(w)
    BY <2>3 DEF ExecuteThenFails, Mutations
  <2> QED BY <2>1, <2>2, <2>3
<1>3. PICK to \in {"remember", "reply"}, a \in {"ok", "error"} :
        /\ conn' = [conn EXCEPT ![w].pc = to, ![w].answer = a]
        /\ carried' = [carried EXCEPT ![r] = @ + 1] /\ UNCHANGED <<responses, sends>>
        /\ excused \subseteq excused' /\ (to = "remember" => r \in Mutations /\ a = "ok")
        /\ (to = "reply" => r \notin Mutations \/ r.id \in excused')
  BY <1>2
<1>4. AtStep(w, to, r, a)
  <2>1. to \in Pc /\ a \in Answers /\ {conn[w].pc, to} \subseteq {"execute", "remember", "reply"}
    BY <1>1 DEF Pc, Answers
  <2> QED BY <1>1, <1>3, <2>1, AnswerEffect DEF RequestsInv
<1>5. conn' = [v \in Workers |-> conn'[v]] /\ DOMAIN conn' = Workers
  BY <1>3 DEF RequestsInv, Types
<1>6. Types'
  BY <1>1, <1>3, <1>4, <1>5, TypesAfter DEF RequestsInv, AtStep
<1>7. AllOrdered'
  BY <1>4, OthersOrdered DEF RequestsInv, AtStep
<1>8. Effects'
  BY <1>1, <1>3, <1>4, CarriedOut DEF RequestsInv, responses
<1>9. EvictionFindsEntry'
  BY <1>3 DEF RequestsInv, EvictionFindsEntry, responses
<1> QED BY <1>6, <1>7, <1>8, <1>9 DEF RequestsInv

\* A lookup, whatever it finds.
LEMMA LookupKeeps ==
  ASSUME RequestsInv, NEW w \in Workers, Lookup(w)
  PROVE  RequestsInv'
<1>1. conn[w].pc = "frames" /\ UNCHANGED <<responses, sends, carried>>
  BY LookupEffect DEF RequestsInv, Effects, AllOrdered
<1>2. PICK r \in Requests :
        \/ /\ Cached(r) /\ UNCHANGED excused
           /\ AtStep(w, "reply", r, IF SameRequest(r, cache[r.id]) THEN "ok" ELSE "duplicate")
        \/ /\ ~Cached(r) /\ AtStep(w, "execute", r, conn[w].answer)
           /\ excused' = IF UnderWay(w, r) THEN excused \cup {r.id} ELSE excused
  BY LookupEffect DEF RequestsInv, Effects, AllOrdered
<1>3. conn' = [v \in Workers |-> conn'[v]] /\ DOMAIN conn' = Workers
  BY DEF Lookup, RequestsInv, Types
<1>4. ConnStep(w, conn'[w]) /\ Ordered(conn'[w])
  BY <1>2 DEF AtStep
<1>5. Types' /\ AllOrdered'
  BY <1>1, <1>3, <1>4, TypesAfter, OthersOrdered DEF RequestsInv
<1>6. EvictionFindsEntry'
  BY <1>1 DEF RequestsInv, EvictionFindsEntry, responses
<1>7. Effects'
  <2>1. CASE Cached(r)
    <3> DEFINE a == IF SameRequest(r, cache[r.id]) THEN "ok" ELSE "duplicate"
    <3>1. AtStep(w, "reply", r, a) /\ UNCHANGED excused
      BY <1>2, <2>1
    <3>2. cache[r.id] \in Requests /\ cache[r.id].id = r.id /\ carried[cache[r.id]] > 0
      BY <2>1 DEF RequestsInv, Effects, CacheTrue, Cached
    <3>3. TrueAnswer(r, a)
      <4>1. CASE SameRequest(r, cache[r.id])
        <5>1. r = cache[r.id]
          BY <3>2, <4>1, SameIsEqual
        <5> QED BY <3>2, <4>1, <5>1 DEF TrueAnswer
      <4>2. CASE ~SameRequest(r, cache[r.id])
        <5>1. r # cache[r.id]
          BY <4>2 DEF SameRequest
        <5> QED BY <3>2, <4>2, <5>1 DEF TrueAnswer
      <4> QED BY <4>1, <4>2
    <3>4. conn'[w].pc = "reply" /\ conn'[w].request = r /\ conn'[w].answer = a
      BY <3>1 DEF AtStep
    <3> HIDE DEF a
    <3>5. UNCHANGED <<responses, history>> /\ Effects
      BY <1>1, <3>1 DEF history, RequestsInv
    <3> QED BY <1>1, <1>4, <3>3, <3>4, <3>5, Harmless
  <2>2. CASE ~Cached(r)
    BY <1>1, <1>2, <2>2, LookupUncached DEF RequestsInv
  <2> QED BY <2>1, <2>2
<1> QED BY <1>5, <1>6, <1>7 DEF RequestsInv

\* Every step keeps the invariant.
LEMMA NextInv == RequestsInv /\ [Next]_rvars => RequestsInv'
<1> SUFFICES ASSUME RequestsInv, [Next]_rvars
             PROVE  RequestsInv'
  OBVIOUS
<1>1. CASE UNCHANGED rvars
  <2>1. /\ conn' = conn /\ cache' = cache /\ cacheOrder' = cacheOrder /\ sends' = sends
        /\ carried' = carried /\ excused' = excused
    BY <1>1 DEF rvars, responses, history
  <2>2. Types' /\ EvictionFindsEntry'
    BY <2>1 DEF RequestsInv, Types, EvictionFindsEntry
  <2>3. AllOrdered'
    BY <2>1 DEF RequestsInv, AllOrdered, Ordered, WorkingOn, StreamOf, Framed
  <2>4. /\ Working' /\ CacheTrue' /\ EffectHappened' /\ EffectKept' /\ EffectOnce'
        /\ AnswerIsTrue'
    BY <2>1 DEF RequestsInv, Effects, Working, CacheTrue, EffectHappened, EffectKept,
                EffectOnce, AnswerIsTrue
  <2>5. OneWorker' /\ FirstEffect'
    BY <2>1 DEF RequestsInv, Effects, OneWorker, FirstEffect, On
  <2> QED BY <2>2, <2>3, <2>4, <2>5 DEF RequestsInv, Effects
<1>2. ASSUME NEW w \in Workers, ClientStep(w)
      PROVE  RequestsInv'
  <2>1. /\ Types' /\ Ordered(conn'[w]) /\ ConnStep(w, conn'[w])
        /\ \/ /\ conn'[w].pc = conn[w].pc /\ conn'[w].request = conn[w].request
              /\ conn'[w].answer = conn[w].answer
           \/ conn[w].pc # "remember" /\ conn'[w].pc = "recv"
        /\ UNCHANGED <<responses, history>>
    BY <1>2, ClientTypes DEF RequestsInv, Effects, AllOrdered
  <2>2. Effects'
    BY <2>1, Harmless DEF RequestsInv
  <2>3. AllOrdered' /\ EvictionFindsEntry'
    BY <2>1, OthersOrdered DEF RequestsInv, EvictionFindsEntry, responses
  <2> QED BY <2>1, <2>2, <2>3 DEF RequestsInv
<1>3. ASSUME NEW w \in Workers, Receive(w) \/ AwaitMore(w) \/ RefuseFrame(w) \/ Reply(w)
      PROVE  RequestsInv'
  <2>1. /\ ConnStep(w, conn'[w]) /\ Ordered(conn'[w])
        /\ conn[w].pc # "remember" /\ conn'[w].pc \in {"recv", "frames"}
        /\ UNCHANGED <<responses, sends, history>>
    BY <1>3, BetweenEffect DEF RequestsInv, Effects, AllOrdered
  <2>2. conn' = [v \in Workers |-> conn'[v]] /\ DOMAIN conn' = Workers
    BY <1>3 DEF Receive, AwaitMore, RefuseFrame, Reply, RequestsInv, Types
  <2>3. Types'
    BY <2>1, <2>2, TypesAfter DEF RequestsInv, history
  <2>4. Effects'
    BY <2>1, Harmless DEF RequestsInv
  <2>5. AllOrdered' /\ EvictionFindsEntry'
    BY <2>1, OthersOrdered DEF RequestsInv, EvictionFindsEntry, responses
  <2> QED BY <2>3, <2>4, <2>5 DEF RequestsInv
<1>4. ASSUME NEW w \in Workers, ExecuteFails(w)
      PROVE  RequestsInv'
  <2>1. /\ conn[w].pc = "execute" /\ conn' = [conn EXCEPT ![w].pc = "reply", ![w].answer = "error"]
        /\ UNCHANGED <<responses, sends, history>>
    BY <1>4 DEF ExecuteFails
  <2>2. "reply" \in Pc /\ "error" \in Answers /\ conn[w].request \in Requests
    BY <2>1 DEF Pc, Answers, RequestsInv, Effects, Working
  <2>3. AtStep(w, "reply", conn[w].request, "error")
    BY <2>1, <2>2, AnswerEffect DEF RequestsInv, AllOrdered
  <2>4. TrueAnswer(conn[w].request, "error")
    BY DEF TrueAnswer
  <2>5. /\ conn'[w].pc = "reply" /\ conn'[w].request = conn[w].request
        /\ conn'[w].answer = "error" /\ ConnStep(w, conn'[w]) /\ Ordered(conn'[w])
    BY <2>3 DEF AtStep
  <2>6. Effects'
    BY <2>1, <2>2, <2>4, <2>5, Harmless DEF RequestsInv
  <2>7. conn' = [v \in Workers |-> conn'[v]] /\ DOMAIN conn' = Workers
    BY <2>1 DEF RequestsInv, Types
  <2>8. Types' /\ AllOrdered' /\ EvictionFindsEntry'
    BY <2>1, <2>5, <2>7, TypesAfter, OthersOrdered
       DEF RequestsInv, EvictionFindsEntry, responses, history
  <2> QED BY <2>6, <2>8 DEF RequestsInv
<1>5. ASSUME NEW w \in Workers, Remember(w)
      PROVE  RequestsInv'
  BY <1>5, RememberEffects DEF RequestsInv
<1> QED BY <1>1, <1>2, <1>3, <1>4, <1>5, LookupKeeps, ExecuteKeeps DEF Next, WorkerStep

\* The invariant of handle_request, its cache and its connections holds in every
\* reachable state.
THEOREM RequestsInvariant == Spec => []RequestsInv
<1> QED BY InitInv, NextInv, PTL DEF Spec

\* A mutation takes effect once under its request id, however often and on however
\* many connections it is sent, unless the id is excused.
THEOREM RequestsEffectOnce == Spec => []EffectOnce
<1>1. RequestsInv => EffectOnce
  BY DEF RequestsInv, Effects
<1> QED BY <1>1, RequestsInvariant, PTL

\* What a client is told of its request is what happened: "ok" after its effect,
\* "duplicate" after that of another request with its id.
THEOREM RequestsAnswerIsTrue == Spec => []AnswerIsTrue
<1>1. RequestsInv => AnswerIsTrue
  BY DEF RequestsInv, Effects
<1> QED BY <1>1, RequestsInvariant, PTL

\* The loop of remember never pops an empty cache_order, and leaves the cache within
\* its bound with every entry in the order of eviction.
THEOREM RequestsEvictionFindsEntry == Spec => []EvictionFindsEntry
<1>1. RequestsInv => EvictionFindsEntry
  BY DEF RequestsInv
<1> QED BY <1>1, RequestsInvariant, PTL

\* The answers on a connection are those of its requests in the order sent, however
\* the bytes are cut up.
THEOREM RequestsAnsweredInOrder == Spec => []AnsweredInOrder
<1>1. RequestsInv => AnsweredInOrder
  BY DEF RequestsInv, AllOrdered, Ordered, WorkingOn, StreamOf, AnsweredInOrder
<1> QED BY <1>1, RequestsInvariant, PTL
=============================================================================
