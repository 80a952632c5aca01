---------------------------- MODULE JournalProofs ----------------------------
(***************************************************************************)
(* What the store of src/src/journal.cpp keeps, for every recovery policy, *)
(* every bound and every length of the files.  Whatever dies or fails, a   *)
(* recovery applies payloads in the order of their appends: the invariant  *)
(* relates the numbers and payloads of the records a scan would accept to  *)
(* the snapshot and to the state in memory.  Where writes do not fail and  *)
(* no process dies between the two files of a compaction, the store is the *)
(* durable log of module DurableLog.                                       *)
(***************************************************************************)
EXTENDS Journal, TLAPS, SequenceTheorems, WellFoundedInduction

-----------------------------------------------------------------------------
(* What a scan accepts *)

\* A nonempty set of naturals has a least element.
LEMMA LeastNat ==
  ASSUME NEW S, S \subseteq Nat, S # {}
  PROVE  \E n \in S : \A m \in S : n <= m
<1>1. PICK n \in S : \A m \in S : <<m, n>> \notin OpToRel(<, Nat)
  BY NatLessThanWellFounded, WFMin, Zenon
<1>2. ASSUME NEW m \in S
      PROVE  n <= m
  <2>1. <<m, n>> \notin {p \in Nat \X Nat : p[1] < p[2]}
    BY <1>1 DEF OpToRel
  <2> QED BY <2>1
<1> QED BY <1>2

\* The scan gets over the first k items.
Sound(l, k) == \A j \in 1..k : SoundAt(l, j)

\* The scan stops behind the longest sound beginning.
Stops(l, k) == Sound(l, k) /\ (k < Len(l) => ~SoundAt(l, k + 1))

\* A scan comes to its end somewhere.
LEMMA GoodLengthExists ==
  ASSUME NEW l, Len(l) \in Nat
  PROVE  GoodLength(l) \in 0..Len(l) /\ Stops(l, GoodLength(l))
<1>1. \E k \in 0..Len(l) : Stops(l, k)
  <2> DEFINE Bad == {j \in 1..Len(l) : ~SoundAt(l, j)}
  <2>1. CASE Bad = {}
    <3>1. Stops(l, Len(l)) /\ Len(l) \in 0..Len(l)
      BY <2>1 DEF Stops, Sound
    <3> QED BY <3>1
  <2>2. CASE Bad # {}
    <3>1. PICK b \in Bad : \A j \in Bad : b <= j
      <4>1. Bad \subseteq Nat
        OBVIOUS
      <4> HIDE DEF Bad
      <4> QED BY <2>2, <4>1, LeastNat
    <3>2. b \in 1..Len(l) /\ b - 1 \in 0..Len(l) /\ (b - 1) + 1 = b /\ ~SoundAt(l, b)
      BY <3>1
    <3>3. Sound(l, b - 1)
      BY <3>1, <3>2 DEF Sound
    <3>4. Stops(l, b - 1)
      BY <3>2, <3>3 DEF Stops
    <3> QED BY <3>2, <3>4
  <2> QED BY <2>1, <2>2
<1>2. GoodLength(l) = CHOOSE k \in 0..Len(l) : Stops(l, k)
  BY DEF GoodLength, Stops, Sound
<1> QED BY <1>1, <1>2

\* There is only one such place.
LEMMA GoodLengthIs ==
  ASSUME NEW l, Len(l) \in Nat, NEW k \in 0..Len(l), Stops(l, k)
  PROVE  GoodLength(l) = k
<1> DEFINE g == GoodLength(l)
<1>1. g \in 0..Len(l) /\ Stops(l, g)
  BY GoodLengthExists
<1> HIDE DEF g
<1>2. ~(g < k)
  <2> SUFFICES ASSUME g < k PROVE FALSE
    OBVIOUS
  <2>1. g + 1 \in 1..k /\ g < Len(l)
    BY <1>1
  <2> QED BY <1>1, <2>1 DEF Stops, Sound
<1>3. ~(k < g)
  <2> SUFFICES ASSUME k < g PROVE FALSE
    OBVIOUS
  <2>1. k + 1 \in 1..g /\ k < Len(l)
    BY <1>1
  <2> QED BY <1>1, <2>1 DEF Stops, Sound
<1> QED BY <1>1, <1>2, <1>3 DEF g

\* Sequence numbers increase along what a scan accepts.
LEMMA SoundIncreases ==
  ASSUME NEW l \in Seq(Item), NEW k \in 0..Len(l), Sound(l, k)
  PROVE  \A i, j \in 1..k : i < j => l[i].seq < l[j].seq
<1> SUFFICES ASSUME NEW i \in 1..k
             PROVE  \A j \in 1..k : i < j => l[i].seq < l[j].seq
  OBVIOUS
<1>1. Len(l) \in Nat /\ \A j \in 1..k : l[j] \in Item
  OBVIOUS
<1>2. \A j \in 1..k : l[j].seq \in Nat
  BY <1>1 DEF Item
<1> DEFINE Bad == {j \in 1..k : i < j /\ ~(l[i].seq < l[j].seq)}
<1> SUFFICES ASSUME Bad # {} PROVE FALSE
  OBVIOUS
<1>3. PICK b \in Bad : \A j \in Bad : b <= j
  <2>1. Bad \subseteq Nat
    BY <1>1
  <2> HIDE DEF Bad
  <2> QED BY <2>1, LeastNat
<1>4. b \in 1..k /\ i < b /\ ~(l[i].seq < l[b].seq) /\ b - 1 \in 1..k /\ b > 1 /\ b - 1 \notin Bad
  BY <1>1, <1>3
<1>5. l[b].seq > l[b - 1].seq
  BY <1>4 DEF Sound, SoundAt
<1>6. b - 1 = i \/ l[i].seq < l[b - 1].seq
  BY <1>1, <1>4
<1> QED BY <1>2, <1>4, <1>5, <1>6

\* What is behind does not matter to the scan.
LEMMA SoundPrefix ==
  ASSUME NEW l, NEW m, NEW k \in Nat, \A j \in 1..k : m[j] = l[j]
  PROVE  Sound(m, k) <=> Sound(l, k)
<1>1. ASSUME NEW j \in 1..k
      PROVE  SoundAt(m, j) <=> SoundAt(l, j)
  <2>1. m[j] = l[j]
    OBVIOUS
  <2>2. j > 1 => j - 1 \in 1..k
    OBVIOUS
  <2>3. j > 1 => m[j - 1] = l[j - 1]
    BY <2>2
  <2> QED BY <2>1, <2>3 DEF SoundAt
<1> QED BY <1>1 DEF Sound

\* Items of a longer file.
LEMMA AppendItem ==
  ASSUME NEW l \in Seq(Item), NEW x \in Item, NEW m, m = Append(l, x)
  PROVE  /\ m \in Seq(Item) /\ Len(l) \in Nat /\ Len(m) = Len(l) + 1 /\ m[Len(l) + 1] = x
         /\ \A j \in 1..Len(l) : m[j] = l[j]
         /\ \A k \in 0..Len(l) : Sound(m, k) <=> Sound(l, k)
         /\ \A k \in 1..Len(m) : k \in 1..Len(l) \/ k = Len(l) + 1
<1>1. /\ m \in Seq(Item) /\ Len(l) \in Nat /\ Len(m) = Len(l) + 1 /\ m[Len(l) + 1] = x
      /\ \A j \in 1..Len(l) : m[j] = l[j]
  OBVIOUS
<1>2. ASSUME NEW k \in 0..Len(l)
      PROVE  Sound(m, k) <=> Sound(l, k)
  <2>1. k \in Nat /\ \A j \in 1..k : m[j] = l[j]
    BY <1>1
  <2> QED BY <2>1, SoundPrefix
<1> QED BY <1>1, <1>2

\* The part of the file that open keeps.
LEMMA GoodIs ==
  ASSUME NEW l \in Seq(Item)
  PROVE  LET g == GoodLength(l) IN
         /\ g \in 0..Len(l) /\ Stops(l, g) /\ Len(l) \in Nat
         /\ Good(l) \in Seq(Item) /\ Len(Good(l)) = g
         /\ \A j \in 1..g : Good(l)[j] = l[j]
         /\ \A k \in 0..g : Sound(Good(l), k) /\ Sound(l, k)
<1> DEFINE g == GoodLength(l)
           m == Good(l)
<1>1. g \in 0..Len(l) /\ Stops(l, g) /\ Len(l) \in Nat
  BY GoodLengthExists
<1>2. m = SubSeq(l, 1, g)
  BY DEF Good
<1> HIDE DEF g, m
<1>3. m \in Seq(Item) /\ Len(m) = g /\ \A j \in 1..g : m[j] = l[j]
  BY <1>1, <1>2
<1>4. ASSUME NEW k \in 0..g
      PROVE  Sound(m, k) /\ Sound(l, k)
  <2>1. k \in Nat /\ \A j \in 1..k : m[j] = l[j]
    BY <1>1, <1>3
  <2>2. Sound(l, k)
    BY <1>1 DEF Stops, Sound
  <2> QED BY <2>1, <2>2, SoundPrefix
<1> QED BY <1>1, <1>3, <1>4 DEF g, m

\* A scan of what open kept gets to the end.
LEMMA GoodOfGood ==
  ASSUME NEW l \in Seq(Item), Sound(l, Len(l))
  PROVE  GoodLength(l) = Len(l) /\ Good(l) = l
<1>1. Len(l) \in Nat /\ Len(l) \in 0..Len(l) /\ Stops(l, Len(l))
  BY DEF Stops
<1>2. GoodLength(l) = Len(l)
  BY <1>1, GoodLengthIs
<1>3. Good(l) \in Seq(Item) /\ Len(Good(l)) = Len(l) /\ \A j \in 1..Len(l) : Good(l)[j] = l[j]
  BY <1>2, GoodIs
<1>4. Good(l) = l
  BY <1>3, SeqEqual
<1> QED BY <1>2, <1>4

-----------------------------------------------------------------------------
(* What a replay yields *)

\* What the visitor has been called with after item k.
Visited(l, upto, k, before) ==
  IF Visits(l[k], upto) THEN Append(before, l[k].payload) ELSE before

IsReplay(l, upto, f, n) ==
  f = [k \in 0..n |-> IF k = 0 THEN <<>> ELSE Visited(l, upto, k, f[k - 1])]

\* A replay has a result at every item.
LEMMA ReplayExists ==
  ASSUME NEW l, NEW upto, NEW n \in Nat
  PROVE  \E f : IsReplay(l, upto, f, n)
<1> DEFINE Bad == {m \in Nat : ~ \E f : IsReplay(l, upto, f, m)}
<1> SUFFICES ASSUME Bad # {} PROVE FALSE
  OBVIOUS
<1>1. PICK m \in Bad : \A k \in Bad : m <= k
  <2>1. Bad \subseteq Nat
    OBVIOUS
  <2> HIDE DEF Bad
  <2> QED BY <2>1, LeastNat
<1>2. m # 0
  <2>1. IsReplay(l, upto, [k \in 0..0 |-> <<>>], 0)
    BY DEF IsReplay
  <2> QED BY <2>1
<1>3. m - 1 \in Nat /\ m - 1 \notin Bad
  BY <1>1, <1>2
<1>4. PICK f : IsReplay(l, upto, f, m - 1)
  BY <1>3
<1> DEFINE h == [k \in 0..m |-> IF k = m THEN Visited(l, upto, m, f[m - 1]) ELSE f[k]]
<1>5. ASSUME NEW k \in 0..m
      PROVE  h[k] = IF k = 0 THEN <<>> ELSE Visited(l, upto, k, h[k - 1])
  <2>1. CASE k = m
    BY <1>2, <1>3, <2>1
  <2>2. CASE k # m
    <3>1. k \in 0..(m - 1) /\ h[k] = f[k]
      BY <1>3, <2>2
    <3>2. f[k] = IF k = 0 THEN <<>> ELSE Visited(l, upto, k, f[k - 1])
      BY <1>4, <3>1 DEF IsReplay
    <3>3. k # 0 => h[k - 1] = f[k - 1]
      BY <1>3, <2>2
    <3> QED BY <3>1, <3>2, <3>3
  <2> QED BY <2>1, <2>2
<1>6. IsReplay(l, upto, h, m)
  <2>1. h = [k \in 0..m |-> h[k]]
    OBVIOUS
  <2> HIDE DEF h
  <2>2. [k \in 0..m |-> h[k]] =
          [k \in 0..m |-> IF k = 0 THEN <<>> ELSE Visited(l, upto, k, h[k - 1])]
    BY <1>5
  <2> QED BY <2>1, <2>2 DEF IsReplay
<1> QED BY <1>6, <1>1

Replay(l, upto) == CHOOSE f : IsReplay(l, upto, f, Len(l))

\* The equations of a replay.
LEMMA ReplayEquations ==
  ASSUME NEW l \in Seq(Item), NEW upto
  PROVE  /\ Replayed(l, upto) = Replay(l, upto)[Len(l)]
         /\ Replay(l, upto)[0] = <<>>
         /\ \A k \in 1..Len(l) :
              Replay(l, upto)[k] = Visited(l, upto, k, Replay(l, upto)[k - 1])
<1>1. Len(l) \in Nat
  OBVIOUS
<1> DEFINE f == Replay(l, upto)
<1>2. IsReplay(l, upto, f, Len(l))
  BY <1>1, ReplayExists DEF Replay
<1>3. Replayed(l, upto) = f[Len(l)]
  BY DEF Replayed, Replay, IsReplay, Visited
<1>4. \A k \in 0..Len(l) : f[k] = IF k = 0 THEN <<>> ELSE Visited(l, upto, k, f[k - 1])
  <2> HIDE DEF f
  <2> QED BY <1>2 DEF IsReplay
<1> QED BY <1>1, <1>3, <1>4

\* q lists payloads of visited items among the first n.
FromFile(q, l, upto, n) ==
  /\ q \in Seq(Payloads)
  /\ \A i \in 1..Len(q) : \E m \in 1..n : Visits(l[m], upto) /\ q[i] = l[m].payload

\* Increasing numbers.
Rising(q) == \A i, j \in 1..Len(q) : i < j => q[i] < q[j]

\* The payloads of a file rise; bookkeeping has none.
Ordered(l) == \A i, j \in 1..Len(l) :
  i < j /\ l[i].payload # Bookkeeping /\ l[j].payload # Bookkeeping =>
    l[i].payload < l[j].payload

\* A payload that is appended behind smaller ones.
LEMMA RisingAppend ==
  ASSUME NEW q \in Seq(Payloads), Rising(q), NEW v \in Payloads,
         \A i \in 1..Len(q) : q[i] < v
  PROVE  Append(q, v) \in Seq(Payloads) /\ Rising(Append(q, v))
<1> DEFINE p == Append(q, v)
<1>1. /\ p \in Seq(Payloads) /\ Len(q) \in Nat /\ Len(p) = Len(q) + 1 /\ p[Len(q) + 1] = v
      /\ \A i \in 1..Len(q) : p[i] = q[i]
  OBVIOUS
<1> HIDE DEF p
<1>2. ASSUME NEW i \in 1..Len(p), NEW j \in 1..Len(p), i < j
      PROVE  p[i] < p[j]
  <2>1. i \in 1..Len(q) /\ (j \in 1..Len(q) \/ j = Len(q) + 1)
    BY <1>1, <1>2
  <2> QED BY <1>1, <1>2, <2>1 DEF Rising
<1> QED BY <1>1, <1>2 DEF Rising, p

\* A replay yields payloads of visited items, in rising order if the file is ordered.
LEMMA ReplayContent ==
  ASSUME NEW l \in Seq(Item), NEW upto
  PROVE  /\ FromFile(Replayed(l, upto), l, upto, Len(l))
         /\ Ordered(l) => Rising(Replayed(l, upto))
<1> DEFINE f == Replay(l, upto)
           P(k) == FromFile(f[k], l, upto, k) /\ (Ordered(l) => Rising(f[k]))
           Bad == {k \in 0..Len(l) : ~P(k)}
<1>0. Len(l) \in Nat
  OBVIOUS
<1>1. /\ Replayed(l, upto) = f[Len(l)] /\ f[0] = <<>>
      /\ \A k \in 1..Len(l) : f[k] = Visited(l, upto, k, f[k - 1])
  BY ReplayEquations
<1> HIDE DEF f
<1>2. Bad = {}
  <2> SUFFICES ASSUME Bad # {} PROVE FALSE
    OBVIOUS
  <2>1. PICK b \in Bad : \A k \in Bad : b <= k
    <3>1. Bad \subseteq Nat
      BY <1>0
    <3> HIDE DEF Bad
    <3> QED BY <3>1, LeastNat
  <2>2. P(0)
    BY <1>1 DEF FromFile, Rising
  <2>3. b # 0
    BY <2>1, <2>2
  <2>4. b \in 1..Len(l) /\ b - 1 \in 0..Len(l) /\ P(b - 1)
    <3>1. b \in 1..Len(l) /\ b - 1 \in 0..Len(l) /\ ~(b <= b - 1)
      BY <1>0, <2>1, <2>3
    <3>2. b - 1 \notin Bad
      BY <2>1, <3>1
    <3> QED BY <3>1, <3>2
  <2> DEFINE q == f[b - 1]
  <2>5. f[b] = IF Visits(l[b], upto) THEN Append(q, l[b].payload) ELSE q
    BY <1>1, <2>4 DEF Visited
  <2> HIDE DEF q
  <2>6. /\ q \in Seq(Payloads) /\ (Ordered(l) => Rising(q))
        /\ \A i \in 1..Len(q) : \E m \in 1..(b - 1) : Visits(l[m], upto) /\ q[i] = l[m].payload
    BY <2>4 DEF FromFile, q
  <2>7. CASE ~Visits(l[b], upto)
    <3>1. f[b] = q
      BY <2>5, <2>7
    <3>2. \A m \in 1..(b - 1) : m \in 1..b
      BY <2>4, <1>0
    <3>3. FromFile(q, l, upto, b)
      BY <2>6, <3>2 DEF FromFile
    <3> QED BY <2>1, <2>6, <3>1, <3>3
  <2>8. CASE Visits(l[b], upto)
    <3> DEFINE v == l[b].payload
               p == Append(q, v)
    <3>0. l[b] \in Item
      BY <2>4
    <3>1. v \in Payloads /\ v # Bookkeeping
      BY <2>8, <3>0 DEF Item, Visits
    <3>2. f[b] = p
      BY <2>5, <2>8
    <3> HIDE DEF v
    <3>3. /\ p \in Seq(Payloads) /\ Len(q) \in Nat /\ Len(p) = Len(q) + 1 /\ p[Len(q) + 1] = v
          /\ \A i \in 1..Len(q) : p[i] = q[i]
      BY <2>6, <3>1
    <3> HIDE DEF p
    <3>4. ASSUME NEW i \in 1..Len(p)
          PROVE  \E m \in 1..b : Visits(l[m], upto) /\ p[i] = l[m].payload
      <4>1. CASE i = Len(q) + 1
        <5>1. b \in 1..b /\ p[i] = l[b].payload
          BY <2>4, <3>3, <4>1 DEF v
        <5> QED BY <2>8, <5>1
      <4>2. CASE i # Len(q) + 1
        <5>1. i \in 1..Len(q)
          BY <3>3, <4>2
        <5>2. PICK m \in 1..(b - 1) : Visits(l[m], upto) /\ q[i] = l[m].payload
          BY <2>6, <5>1
        <5>3. m \in 1..b
          BY <1>0, <2>4
        <5> QED BY <3>3, <5>1, <5>2, <5>3
      <4> QED BY <4>1, <4>2
    <3>5. ASSUME Ordered(l)
          PROVE  Rising(p)
      <4>1. ASSUME NEW i \in 1..Len(q)
            PROVE  q[i] < v
        <5>1. PICK m \in 1..(b - 1) : Visits(l[m], upto) /\ q[i] = l[m].payload
          BY <2>6
        <5>2. m \in 1..Len(l) /\ m < b /\ l[m].payload # Bookkeeping
          BY <1>0, <2>4, <5>1 DEF Visits
        <5> QED BY <2>4, <3>1, <3>5, <5>1, <5>2 DEF Ordered, v
      <4>2. Rising(q)
        BY <2>6, <3>5
      <4> QED BY <2>6, <3>1, <4>1, <4>2, RisingAppend DEF p
    <3> QED BY <2>1, <3>2, <3>3, <3>4, <3>5 DEF FromFile
  <2> QED BY <2>7, <2>8
<1>3. P(Len(l))
  BY <1>0, <1>2
<1> QED BY <1>1, <1>3

\* The replay of a longer file.
LEMMA ReplayLonger ==
  ASSUME NEW l \in Seq(Item), NEW x \in Item, NEW upto
  PROVE  Replayed(Append(l, x), upto) =
           IF Visits(x, upto) THEN Append(Replayed(l, upto), x.payload) ELSE Replayed(l, upto)
<1> DEFINE t == Append(l, x)
           g == Replay(l, upto)
           h == Replay(t, upto)
           Bad == {k \in 0..Len(l) : h[k] # g[k]}
<1>1. /\ t \in Seq(Item) /\ Len(t) = Len(l) + 1 /\ t[Len(l) + 1] = x
      /\ \A k \in 1..Len(l) : t[k] = l[k]
      /\ Len(l) \in Nat
  OBVIOUS
<1>2. /\ Replayed(l, upto) = g[Len(l)] /\ g[0] = <<>>
      /\ \A k \in 1..Len(l) : g[k] = Visited(l, upto, k, g[k - 1])
  BY ReplayEquations
<1>3. /\ Replayed(t, upto) = h[Len(t)] /\ h[0] = <<>>
      /\ \A k \in 1..Len(t) : h[k] = Visited(t, upto, k, h[k - 1])
  BY <1>1, ReplayEquations
<1> HIDE DEF t, g, h
<1>4. Bad = {}
  <2> SUFFICES ASSUME Bad # {} PROVE FALSE
    OBVIOUS
  <2>1. PICK m \in Bad : \A k \in Bad : m <= k
    <3>1. Bad \subseteq Nat
      BY <1>1
    <3> HIDE DEF Bad
    <3> QED BY <3>1, LeastNat
  <2>2. m \in 1..Len(l) /\ m - 1 \in 0..Len(l) /\ h[m - 1] = g[m - 1] /\ m \in 1..Len(t)
    BY <1>1, <1>2, <1>3, <2>1
  <2>3. t[m] = l[m]
    BY <1>1, <2>2
  <2> QED BY <1>2, <1>3, <2>1, <2>2, <2>3 DEF Visited
<1>5. h[Len(l)] = g[Len(l)]
  BY <1>1, <1>4
<1>6. h[Len(l) + 1] = Visited(t, upto, Len(l) + 1, h[Len(l)])
  BY <1>1, <1>3
<1>7. Replayed(t, upto) =
        IF Visits(x, upto) THEN Append(Replayed(l, upto), x.payload) ELSE Replayed(l, upto)
  BY <1>1, <1>2, <1>3, <1>5, <1>6 DEF Visited
<1> QED BY <1>7 DEF t

\* A file in which nothing is visited.
LEMMA ReplayNothing ==
  ASSUME NEW l \in Seq(Item), NEW upto, \A m \in 1..Len(l) : ~Visits(l[m], upto)
  PROVE  Replayed(l, upto) = <<>>
<1> DEFINE q == Replayed(l, upto)
<1>1. FromFile(q, l, upto, Len(l))
  BY ReplayContent
<1> HIDE DEF q
<1>2. q \in Seq(Payloads) /\ \A i \in 1..Len(q) : FALSE
  BY <1>1 DEF FromFile
<1>3. Len(q) \in Nat /\ ~(1 \in 1..Len(q))
  BY <1>2
<1>4. Len(q) = 0
  BY <1>3
<1>5. q = <<>>
  BY <1>2, <1>4, EmptySeq
<1> QED BY <1>5 DEF q

-----------------------------------------------------------------------------
(* The files and the state *)

Snapshot == [covered : Nat, body : Seq(Payloads)]

AtMost(q, n) == \A i \in 1..Len(q) : q[i] <= n
Below(q, v) == \A i \in 1..Len(q) : q[i] < v

\* The journal l behind snapshot s, after n appends: payloads rise along the file, and
\* what a recovery would visit rises behind what the snapshot holds.
FilesOK(l, s, n) ==
  /\ Ordered(l) /\ \A k \in 1..Len(l) : l[k].payload <= n
  /\ Rising(s.body) /\ AtMost(s.body, n)
  /\ \A k \in 1..Len(l) : Sound(l, k) /\ Visits(l[k], s.covered) => Below(s.body, l[k].payload)

\* A running process whose last number is n: the only accepted record above it may be
\* that of a write that failed, and the state does not have its payload or a later one.
RunOK(l, st, n) ==
  \A k \in 1..Len(l) : Sound(l, k) =>
    l[k].seq <= n + 1 /\ (Visits(l[k], n) => Below(st, l[k].payload))

\* One more item in the file.
LEMMA FilesAppend ==
  ASSUME NEW l \in Seq(Item), NEW s \in Snapshot, NEW n \in Nat, FilesOK(l, s, n),
         NEW x \in Item, NEW m \in Nat, n <= m,
         x.payload # Bookkeeping => x.payload = n + 1 /\ m = n + 1
  PROVE  FilesOK(Append(l, x), s, m)
<1> DEFINE t == Append(l, x)
<1>1. /\ t \in Seq(Item) /\ Len(l) \in Nat /\ Len(t) = Len(l) + 1 /\ t[Len(l) + 1] = x
      /\ \A j \in 1..Len(l) : t[j] = l[j]
      /\ \A k \in 0..Len(l) : Sound(t, k) <=> Sound(l, k)
      /\ \A k \in 1..Len(t) : k \in 1..Len(l) \/ k = Len(l) + 1
  BY AppendItem
<1> HIDE DEF t
<1>2. \A k \in 1..Len(l) : l[k].payload \in Nat /\ l[k].payload <= n
  <2>1. \A k \in 1..Len(l) : l[k] \in Item
    OBVIOUS
  <2> QED BY <2>1 DEF FilesOK, Item, Payloads, Bookkeeping
<1>3. x.payload \in Nat /\ x.payload <= m
  BY DEF Item, Payloads, Bookkeeping
<1>4. Ordered(t)
  <2> SUFFICES ASSUME NEW i \in 1..Len(t), NEW j \in 1..Len(t), i < j,
                      t[i].payload # Bookkeeping, t[j].payload # Bookkeeping
               PROVE  t[i].payload < t[j].payload
    BY DEF Ordered
  <2>1. i \in 1..Len(l) /\ t[i] = l[i]
    BY <1>1
  <2>2. CASE j \in 1..Len(l)
    BY <1>1, <2>1, <2>2 DEF FilesOK, Ordered
  <2>3. CASE j = Len(l) + 1
    BY <1>1, <1>2, <2>1, <2>3
  <2> QED BY <1>1, <2>2, <2>3
<1>5. \A k \in 1..Len(t) : t[k].payload <= m
  <2> SUFFICES ASSUME NEW k \in 1..Len(t)
               PROVE  t[k].payload <= m
    OBVIOUS
  <2> QED BY <1>1, <1>2, <1>3
<1>6. s.body \in Seq(Payloads) /\ \A i \in 1..Len(s.body) : s.body[i] \in Nat /\ s.body[i] <= n
  <2>1. s.body \in Seq(Payloads)
    BY DEF Snapshot
  <2>2. \A i \in 1..Len(s.body) : s.body[i] \in Payloads
    BY <2>1
  <2> QED BY <2>1, <2>2 DEF FilesOK, AtMost, Payloads
<1>7. AtMost(s.body, m)
  BY <1>6 DEF AtMost
<1>8. ASSUME NEW k \in 1..Len(t), Sound(t, k), Visits(t[k], s.covered)
      PROVE  Below(s.body, t[k].payload)
  <2>1. CASE k \in 1..Len(l)
    <3>1. Sound(l, k) /\ t[k] = l[k]
      BY <1>1, <1>8, <2>1
    <3> QED BY <1>8, <2>1, <3>1 DEF FilesOK
  <2>2. CASE k = Len(l) + 1
    <3>1. t[k].payload = n + 1
      BY <1>1, <1>8, <2>2 DEF Visits
    <3> QED BY <1>6, <3>1 DEF Below
  <2> QED BY <1>1, <2>1, <2>2
<1> QED BY <1>4, <1>5, <1>7, <1>8 DEF FilesOK, t

\* The item of a write, complete or not, as long as its number is not counted.
LEMMA RunAppend ==
  ASSUME NEW l \in Seq(Item), NEW st \in Seq(Payloads), NEW n \in Nat, RunOK(l, st, n),
         NEW x \in Item, x.whole => x.seq = n + 1,
         x.payload # Bookkeeping => Below(st, x.payload)
  PROVE  RunOK(Append(l, x), st, n)
<1> DEFINE t == Append(l, x)
<1>1. /\ t \in Seq(Item) /\ Len(l) \in Nat /\ Len(t) = Len(l) + 1 /\ t[Len(l) + 1] = x
      /\ \A j \in 1..Len(l) : t[j] = l[j]
      /\ \A k \in 0..Len(l) : Sound(t, k) <=> Sound(l, k)
      /\ \A k \in 1..Len(t) : k \in 1..Len(l) \/ k = Len(l) + 1
  BY AppendItem
<1> HIDE DEF t
<1>2. ASSUME NEW k \in 1..Len(t), Sound(t, k)
      PROVE  t[k].seq <= n + 1 /\ (Visits(t[k], n) => Below(st, t[k].payload))
  <2>1. CASE k \in 1..Len(l)
    <3>1. Sound(l, k) /\ t[k] = l[k]
      BY <1>1, <1>2, <2>1
    <3> QED BY <2>1, <3>1 DEF RunOK
  <2>2. CASE k = Len(l) + 1
    <3>1. t[k] = x /\ SoundAt(t, k)
      BY <1>1, <1>2, <2>2 DEF Sound
    <3>2. x.seq = n + 1
      BY <3>1 DEF SoundAt
    <3> QED BY <3>1, <3>2 DEF Visits
  <2> QED BY <1>1, <2>1, <2>2
<1> QED BY <1>2 DEF RunOK, t

\* The number is counted: nothing in the file is above it any more.
LEMMA RunAdvance ==
  ASSUME NEW l \in Seq(Item), NEW st, NEW n \in Nat, RunOK(l, st, n), NEW new
  PROVE  RunOK(l, new, n + 1)
<1> SUFFICES ASSUME NEW k \in 1..Len(l), Sound(l, k)
             PROVE  l[k].seq <= (n + 1) + 1 /\ ~Visits(l[k], n + 1)
  BY DEF RunOK
<1>1. l[k] \in Item
  OBVIOUS
<1>2. l[k].seq \in Nat /\ l[k].seq <= n + 1
  BY <1>1 DEF Item, RunOK
<1> QED BY <1>2 DEF Visits

\* What a recovery of files l and s yields.
Yield(l, s) == s.body \o Replayed(Good(l), s.covered)

\* The last number of what a scan accepts is the largest.
LEMMA LastIsLargest ==
  ASSUME NEW t \in Seq(Item), Sound(t, Len(t))
  PROVE  /\ LastSequence(t) \in Nat
         /\ \A k \in 1..Len(t) : t[k].seq \in Nat /\ t[k].seq <= LastSequence(t)
<1>1. CASE t = <<>>
  BY <1>1 DEF LastSequence
<1>2. CASE t # <<>>
  <2>1. Len(t) \in Nat /\ Len(t) \in 1..Len(t) /\ LastSequence(t) = t[Len(t)].seq
    BY <1>2, EmptySeq DEF LastSequence
  <2>2. \A k \in 1..Len(t) : t[k] \in Item
    OBVIOUS
  <2>3. \A k \in 1..Len(t) : t[k].seq \in Nat
    BY <2>2 DEF Item
  <2>4. ASSUME NEW k \in 1..Len(t)
        PROVE  t[k].seq <= t[Len(t)].seq
    <3>1. k < Len(t) => t[k].seq < t[Len(t)].seq
      <4>1. Len(t) \in 0..Len(t)
        BY <2>1
      <4> QED BY <2>1, <4>1, SoundIncreases
    <3>2. k = Len(t) \/ k < Len(t)
      BY <2>1
    <3> QED BY <2>1, <2>3, <3>1, <3>2
  <2> QED BY <2>1, <2>3, <2>4
<1> QED BY <1>1, <1>2

\* The files after open.
LEMMA FilesGood ==
  ASSUME NEW l \in Seq(Item), NEW s \in Snapshot, NEW n \in Nat, FilesOK(l, s, n), NEW st
  PROVE  /\ Good(l) \in Seq(Item) /\ FilesOK(Good(l), s, n)
         /\ Sound(Good(l), Len(Good(l))) /\ Good(Good(l)) = Good(l)
         /\ LastSequence(Good(l)) \in Nat /\ RunOK(Good(l), st, LastSequence(Good(l)))
<1> DEFINE g == GoodLength(l)
           t == Good(l)
<1>1. /\ g \in 0..Len(l) /\ Len(l) \in Nat /\ t \in Seq(Item) /\ Len(t) = g
      /\ \A j \in 1..g : t[j] = l[j]
      /\ \A k \in 0..g : Sound(t, k) /\ Sound(l, k)
  BY GoodIs
<1> HIDE DEF g, t
<1>2. FilesOK(t, s, n)
  <2>1. \A k \in 1..Len(t) : k \in 1..Len(l) /\ k \in 0..g /\ t[k] = l[k]
    BY <1>1
  <2>2. Ordered(t)
    BY <2>1 DEF FilesOK, Ordered
  <2>3. \A k \in 1..Len(t) : t[k].payload <= n
    BY <2>1 DEF FilesOK
  <2>4. \A k \in 1..Len(t) : Visits(t[k], s.covered) => Below(s.body, t[k].payload)
    <3> SUFFICES ASSUME NEW k \in 1..Len(t), Visits(t[k], s.covered)
                 PROVE  Below(s.body, t[k].payload)
      OBVIOUS
    <3>1. Sound(l, k) /\ k \in 1..Len(l) /\ t[k] = l[k]
      BY <1>1, <2>1
    <3> QED BY <3>1 DEF FilesOK
  <2> QED BY <2>2, <2>3, <2>4 DEF FilesOK
<1>3. Sound(t, Len(t))
  BY <1>1
<1>4. Good(t) = t
  BY <1>1, <1>3, GoodOfGood
<1>5. LastSequence(t) \in Nat /\ \A k \in 1..Len(t) : t[k].seq \in Nat /\ t[k].seq <= LastSequence(t)
  BY <1>1, <1>3, LastIsLargest
<1>6. RunOK(t, st, LastSequence(t))
  <2> DEFINE n0 == LastSequence(t)
  <2>1. n0 \in Nat /\ \A k \in 1..Len(t) : t[k].seq \in Nat /\ t[k].seq <= n0
    BY <1>5
  <2> HIDE DEF n0
  <2>2. \A k \in 1..Len(t) : t[k].seq <= n0 + 1 /\ ~Visits(t[k], n0)
    BY <2>1 DEF Visits
  <2>3. RunOK(t, st, n0)
    BY <2>2 DEF RunOK
  <2> QED BY <2>3 DEF n0
<1> QED BY <1>1, <1>2, <1>3, <1>4, <1>5, <1>6 DEF t

\* What a recovery yields rises.
LEMMA YieldRises ==
  ASSUME NEW l \in Seq(Item), NEW s \in Snapshot, NEW n \in Nat, FilesOK(l, s, n)
  PROVE  Yield(l, s) \in Seq(Payloads) /\ Rising(Yield(l, s)) /\ AtMost(Yield(l, s), n)
<1> DEFINE t == Good(l)
           b == s.body
           q == Replayed(t, s.covered)
           y == b \o q
<1>1. t \in Seq(Item) /\ FilesOK(t, s, n) /\ Sound(t, Len(t))
  BY FilesGood
<1> HIDE DEF t
<1>2. FromFile(q, t, s.covered, Len(t)) /\ Rising(q)
  BY <1>1, ReplayContent DEF FilesOK
<1> HIDE DEF q
<1>3. b \in Seq(Payloads) /\ q \in Seq(Payloads) /\ Len(b) \in Nat /\ Len(q) \in Nat
  <2>1. b \in Seq(Payloads)
    BY DEF Snapshot
  <2>2. q \in Seq(Payloads)
    BY <1>2 DEF FromFile
  <2> QED BY <2>1, <2>2
<1>4. Rising(b) /\ AtMost(b, n)
  BY DEF FilesOK
<1>5. ASSUME NEW j \in 1..Len(q)
      PROVE  Below(b, q[j]) /\ q[j] <= n
  <2>1. PICK m \in 1..Len(t) : Visits(t[m], s.covered) /\ q[j] = t[m].payload
    BY <1>2 DEF FromFile
  <2>2. Sound(t, m)
    <3>1. Len(t) \in Nat
      BY <1>1
    <3>2. \A i \in 1..m : i \in 1..Len(t)
      BY <3>1
    <3> QED BY <1>1, <3>2 DEF Sound
  <2> QED BY <1>1, <2>1, <2>2 DEF FilesOK
<1> HIDE DEF b
<1>6. /\ y \in Seq(Payloads) /\ Len(y) = Len(b) + Len(q)
      /\ \A i \in 1..Len(b) + Len(q) : y[i] = IF i <= Len(b) THEN b[i] ELSE q[i - Len(b)]
  BY <1>3, ConcatProperties
<1> HIDE DEF y
<1>7. ASSUME NEW i \in 1..Len(y), NEW j \in 1..Len(y), i < j
      PROVE  y[i] < y[j]
  <2>1. CASE j <= Len(b)
    <3>1. i \in 1..Len(b) /\ j \in 1..Len(b) /\ y[i] = b[i] /\ y[j] = b[j]
      BY <1>3, <1>6, <1>7, <2>1
    <3> QED BY <1>4, <1>7, <3>1 DEF Rising
  <2>2. CASE ~(j <= Len(b)) /\ i <= Len(b)
    <3>1. i \in 1..Len(b) /\ j - Len(b) \in 1..Len(q) /\ y[i] = b[i] /\ y[j] = q[j - Len(b)]
      BY <1>3, <1>6, <2>2
    <3> QED BY <1>5, <3>1 DEF Below
  <2>3. CASE ~(i <= Len(b))
    <3>1. /\ i - Len(b) \in 1..Len(q) /\ j - Len(b) \in 1..Len(q)
          /\ i - Len(b) < j - Len(b)
          /\ y[i] = q[i - Len(b)] /\ y[j] = q[j - Len(b)]
      <4>1. ~(j <= Len(b))
        BY <1>3, <1>6, <1>7, <2>3
      <4> QED BY <1>3, <1>6, <1>7, <2>3, <4>1
    <3> QED BY <1>2, <3>1 DEF Rising
  <2> QED BY <2>1, <2>2, <2>3
<1>8. ASSUME NEW i \in 1..Len(y)
      PROVE  y[i] <= n
  <2>1. CASE i <= Len(b)
    <3>1. i \in 1..Len(b) /\ y[i] = b[i]
      BY <1>3, <1>6, <2>1
    <3> QED BY <1>4, <3>1 DEF AtMost
  <2>2. CASE ~(i <= Len(b))
    <3>1. i - Len(b) \in 1..Len(q) /\ y[i] = q[i - Len(b)]
      BY <1>3, <1>6, <2>2
    <3> QED BY <1>5, <3>1
  <2> QED BY <2>1, <2>2
<1>9. Yield(l, s) = y
  BY DEF Yield, y, b, q, t
<1> QED BY <1>6, <1>7, <1>8, <1>9 DEF Rising, AtMost

-----------------------------------------------------------------------------
(* Whatever dies or fails *)

JournalInv ==
  /\ TypeOK
  /\ FilesOK(log, snapshot, sent)
  /\ Rising(state) /\ AtMost(state, sent)
  /\ pc # "closed" => RunOK(log, state, last)
  /\ pc = "base" => handle
  /\ header # "whole" => log = <<>> /\ pc = "closed"

\* Empty files and an empty state.
LEMMA EmptyRises == Rising(<<>>) /\ AtMost(<<>>, 0) /\ \A n \in Nat : AtMost(<<>>, n)
BY DEF Rising, AtMost

\* The store before its first use.
LEMMA InitInv == Init => JournalInv
<1> SUFFICES ASSUME Init PROVE JournalInv
  OBVIOUS
<1>1. TypeOK
  <2>1. <<>> \in Seq(Item) /\ <<>> \in Seq(Payloads) /\ 0 \in 0..MaxPayload
    BY JournalAssumption
  <2>2. NoSnapshot \in [covered : Nat, body : Seq(Payloads)]
    BY <2>1 DEF NoSnapshot
  <2> QED BY <2>1, <2>2 DEF Init, TypeOK
<1>2. FilesOK(log, snapshot, sent)
  BY DEF Init, FilesOK, NoSnapshot, Ordered, Rising, AtMost
<1> QED BY <1>1, <1>2, EmptyRises DEF Init, JournalInv

\* A write that may be incomplete, of payload v, as it is before its number is counted.
LEMMA WriteKeeps ==
  ASSUME JournalInv, pc # "closed", handle,
         NEW v \in Payloads \cup {Bookkeeping}, NEW n \in Nat,
         v # Bookkeeping => v = sent + 1 /\ n = sent + 1, v = Bookkeeping => n = sent,
         NEW l \in Interrupted(v)
  PROVE  l \in Seq(Item) /\ FilesOK(l, snapshot, n) /\ RunOK(l, state, last)
<1>1. /\ log \in Seq(Item) /\ snapshot \in Snapshot /\ sent \in Nat /\ last \in Nat
      /\ state \in Seq(Payloads)
  BY JournalAssumption DEF JournalInv, TypeOK, Snapshot
<1>2. FilesOK(log, snapshot, sent) /\ RunOK(log, state, last) /\ AtMost(state, sent)
  BY DEF JournalInv
<1>3. sent <= n
  BY <1>1
<1>4. Fragment \in Item /\ Fragment.payload = Bookkeeping /\ ~Fragment.whole
  BY DEF Fragment, Item
<1> DEFINE x == Record(last + 1, v)
<1>5. x \in Item /\ x.payload = v /\ x.seq = last + 1
  BY <1>1 DEF Record, Item
<1>6. v # Bookkeeping => Below(state, v)
  <2> SUFFICES ASSUME v = sent + 1, NEW i \in 1..Len(state)
               PROVE  state[i] < v
    BY DEF Below
  <2>1. state[i] \in Payloads
    BY <1>1
  <2>2. state[i] \in Nat /\ state[i] <= sent
    BY <1>2, <2>1 DEF AtMost, Payloads
  <2> QED BY <1>1, <2>2
<1> HIDE DEF x
<1>7. CASE l = log
  <2>1. FilesOK(log, snapshot, n)
    <3>1. ASSUME NEW k \in 1..Len(log)
          PROVE  log[k].payload <= n
      <4>1. log[k] \in Item
        BY <1>1
      <4>2. log[k].payload \in Nat /\ log[k].payload <= sent
        BY <1>2, <4>1 DEF Item, Payloads, Bookkeeping, FilesOK
      <4> QED BY <1>1, <1>3, <4>2
    <3>2. ASSUME NEW i \in 1..Len(snapshot.body)
          PROVE  snapshot.body[i] <= n
      <4>1. snapshot.body \in Seq(Payloads)
        BY <1>1 DEF Snapshot
      <4>2. snapshot.body[i] \in Payloads
        BY <4>1
      <4>3. snapshot.body[i] \in Nat /\ snapshot.body[i] <= sent
        BY <1>2, <4>2 DEF Payloads, FilesOK, AtMost
      <4> QED BY <1>1, <1>3, <4>3
    <3> QED BY <1>2, <3>1, <3>2 DEF FilesOK, AtMost
  <2> QED BY <1>1, <1>2, <1>7, <2>1
<1>8. CASE l = Append(log, Fragment)
  <2>1. FilesOK(l, snapshot, n)
    BY <1>1, <1>2, <1>3, <1>4, <1>8, FilesAppend
  <2>2. RunOK(l, state, last)
    BY <1>1, <1>2, <1>4, <1>8, RunAppend
  <2> QED BY <1>1, <1>4, <1>8, <2>1, <2>2, AppendItem
<1>9. CASE l = Append(log, x)
  <2>1. FilesOK(l, snapshot, n)
    BY <1>1, <1>2, <1>3, <1>5, <1>9, FilesAppend
  <2>2. RunOK(l, state, last)
    BY <1>1, <1>2, <1>5, <1>6, <1>9, RunAppend
  <2> QED BY <1>1, <1>5, <1>9, <2>1, <2>2, AppendItem
<1> QED BY <1>7, <1>8, <1>9 DEF Interrupted, x

\* The first header.
LEMMA CreateKeeps == JournalInv /\ (Create \/ CreateInterrupted) => JournalInv'
<1> SUFFICES ASSUME JournalInv, Create \/ CreateInterrupted PROVE JournalInv'
  OBVIOUS
<1>1. CASE Create
  <2>1. log = <<>>
    BY <1>1 DEF Create, JournalInv
  <2>2. TypeOK'
    BY <1>1 DEF Create, JournalInv, TypeOK
  <2>3. RunOK(<<>>, <<>>, 0)
    BY DEF RunOK
  <2>4. sent \in Nat
    BY JournalAssumption DEF JournalInv, TypeOK
  <2> QED BY <1>1, <2>1, <2>2, <2>3, <2>4, EmptyRises DEF Create, JournalInv
<1>2. CASE CreateInterrupted
  <2>1. TypeOK'
    BY <1>2 DEF CreateInterrupted, JournalInv, TypeOK, memory
  <2> QED BY <1>2, <2>1 DEF CreateInterrupted, JournalInv, memory
<1> QED BY <1>1, <1>2

\* Recovery.
LEMMA OpenKeeps == JournalInv /\ Open => JournalInv'
<1> SUFFICES ASSUME JournalInv, Open PROVE JournalInv'
  OBVIOUS
<1>1. log \in Seq(Item) /\ snapshot \in Snapshot /\ sent \in Nat
  BY JournalAssumption DEF JournalInv, TypeOK, Snapshot
<1>2. FilesOK(log, snapshot, sent)
  BY DEF JournalInv
<1>3. /\ log' = Good(log) /\ pc' = "open" /\ handle' = TRUE
      /\ last' = LastSequence(Good(log)) /\ covered' = snapshot.covered
      /\ bytes' = Len(Good(log)) /\ state' = Yield(log, snapshot)
      /\ header' = header /\ snapshot' = snapshot /\ sent' = sent /\ header = "whole"
  BY DEF Open, Recovered, Yield
<1>4. /\ log' \in Seq(Item) /\ FilesOK(log', snapshot, sent) /\ last' \in Nat
      /\ RunOK(log', state', last')
  BY <1>1, <1>2, <1>3, FilesGood
<1>5. state' \in Seq(Payloads) /\ Rising(state') /\ AtMost(state', sent)
  BY <1>1, <1>2, <1>3, YieldRises
<1>6. TypeOK'
  <2>1. Len(Good(log)) \in Nat
    BY <1>3, <1>4
  <2>2. snapshot.covered \in Nat
    BY <1>1 DEF Snapshot
  <2> QED BY <1>3, <1>4, <1>5, <2>1, <2>2 DEF JournalInv, TypeOK
<1> QED BY <1>3, <1>4, <1>5, <1>6 DEF JournalInv

\* What the death of a process leaves.
LEMMA DownKeeps ==
  ASSUME JournalInv, Down, header' = header, snapshot' = snapshot, sent' \in 0..MaxPayload,
         log' \in Seq(Item), FilesOK(log', snapshot, sent'), header = "whole"
  PROVE  JournalInv'
<1>1. TypeOK'
  <2>1. <<>> \in Seq(Payloads)
    OBVIOUS
  <2> QED BY <2>1 DEF JournalInv, TypeOK, Down
<1>2. sent' \in Nat
  BY JournalAssumption
<1> QED BY <1>1, <1>2, EmptyRises DEF Down, JournalInv

\* A process is running.
LEMMA UpFacts ==
  ASSUME JournalInv, pc # "closed"
  PROVE  /\ header = "whole" /\ log \in Seq(Item) /\ sent \in Nat /\ last \in Nat
         /\ state \in Seq(Payloads) /\ bytes \in Nat
         /\ sent < MaxPayload =>
              /\ sent + 1 \in Payloads /\ sent + 1 \in Payloads \cup {Bookkeeping}
              /\ sent + 1 # Bookkeeping /\ sent + 1 \in 0..MaxPayload /\ sent + 1 \in Nat
BY JournalAssumption DEF JournalInv, TypeOK, Payloads, Bookkeeping

\* Impl::commit, if all goes well.
LEMMA CommitKeeps == JournalInv /\ Commit => JournalInv'
<1> SUFFICES ASSUME JournalInv, Commit PROVE JournalInv'
  OBVIOUS
<1> DEFINE v == sent + 1
<1>1. /\ pc = "open" /\ handle /\ sent < MaxPayload
      /\ log' = Append(log, Record(last + 1, v)) /\ last' = last + 1 /\ bytes' = bytes + 1
      /\ state' = Append(state, v) /\ sent' = v
      /\ header' = header /\ snapshot' = snapshot /\ pc' = pc /\ handle' = handle
      /\ covered' = covered
  BY DEF Commit, Appended
<1>2. /\ header = "whole" /\ sent \in Nat /\ last \in Nat /\ state \in Seq(Payloads)
      /\ bytes \in Nat
      /\ v \in Payloads /\ v \in Payloads \cup {Bookkeeping} /\ v # Bookkeeping
      /\ v \in 0..MaxPayload /\ v \in Nat /\ v = sent + 1
  BY <1>1, UpFacts
<1>3. log' \in Interrupted(v)
  BY <1>1 DEF Interrupted
<1> HIDE DEF v
<1>4. log' \in Seq(Item) /\ FilesOK(log', snapshot, v) /\ RunOK(log', state, last)
  BY <1>1, <1>2, <1>3, WriteKeeps
<1>5. RunOK(log', state', last')
  BY <1>1, <1>2, <1>4, RunAdvance
<1>6. \A i \in 1..Len(state) : state[i] \in Nat /\ state[i] <= sent
  <2>1. \A i \in 1..Len(state) : state[i] \in Payloads
    BY <1>2
  <2> QED BY <2>1 DEF JournalInv, AtMost, Payloads
<1>7. state' \in Seq(Payloads) /\ Rising(state')
  <2>1. \A i \in 1..Len(state) : state[i] < v
    BY <1>2, <1>6
  <2> QED BY <1>1, <1>2, <2>1, RisingAppend DEF JournalInv
<1>8. AtMost(state', v)
  <2> DEFINE p == Append(state, v)
  <2>1. /\ Len(state) \in Nat /\ Len(p) = Len(state) + 1 /\ p[Len(state) + 1] = v
        /\ \A i \in 1..Len(state) : p[i] = state[i]
    BY <1>2
  <2> HIDE DEF p
  <2>2. ASSUME NEW i \in 1..Len(p)
        PROVE  p[i] <= v
    <3>1. i \in 1..Len(state) \/ i = Len(state) + 1
      BY <2>1
    <3> QED BY <1>2, <1>6, <2>1, <3>1
  <2> QED BY <1>1, <2>2 DEF AtMost, p
<1>9. TypeOK'
  <2>1. last' \in Nat /\ bytes' \in Nat /\ sent' \in 0..MaxPayload
    BY <1>1, <1>2
  <2> QED BY <1>1, <1>4, <1>7, <2>1 DEF JournalInv, TypeOK
<1> QED BY <1>1, <1>2, <1>4, <1>5, <1>7, <1>8, <1>9 DEF JournalInv

\* Impl::commit, if the write fails or the process dies in it.
LEMMA CommitInterruptedKeeps == JournalInv /\ (CommitFails \/ CommitCrashes) => JournalInv'
<1> SUFFICES ASSUME JournalInv, CommitFails \/ CommitCrashes PROVE JournalInv'
  OBVIOUS
<1> DEFINE v == sent + 1
<1>1. /\ pc = "open" /\ handle /\ sent < MaxPayload /\ log' \in Interrupted(v) /\ sent' = v
      /\ header' = header /\ snapshot' = snapshot
      /\ Down \/ UNCHANGED memory
  BY DEF CommitFails, CommitCrashes
<1>2. /\ header = "whole" /\ sent \in Nat /\ state \in Seq(Payloads)
      /\ v \in Payloads \cup {Bookkeeping} /\ v # Bookkeeping
      /\ v \in 0..MaxPayload /\ v \in Nat /\ v = sent + 1
  BY <1>1, UpFacts
<1> HIDE DEF v
<1>3. log' \in Seq(Item) /\ FilesOK(log', snapshot, v) /\ RunOK(log', state, last)
  BY <1>1, <1>2, WriteKeeps
<1>4. CASE Down
  BY <1>1, <1>2, <1>3, <1>4, DownKeeps
<1>5. CASE UNCHANGED memory
  <2>1. /\ pc' = pc /\ handle' = handle /\ last' = last /\ covered' = covered
        /\ bytes' = bytes /\ state' = state
    BY <1>5 DEF memory
  <2>2. AtMost(state, v)
    <3>1. \A i \in 1..Len(state) : state[i] \in Payloads
      BY <1>2
    <3> QED BY <1>2, <3>1 DEF JournalInv, AtMost, Payloads
  <2>3. TypeOK'
    BY <1>1, <1>2, <1>3, <2>1 DEF JournalInv, TypeOK
  <2> QED BY <1>1, <1>2, <1>3, <2>1, <2>2, <2>3 DEF JournalInv
<1> QED BY <1>1, <1>4, <1>5

\* A death between two file operations, and a shutdown.
LEMMA DeathKeeps == JournalInv /\ (Crash \/ Shutdown) => JournalInv'
<1> SUFFICES ASSUME JournalInv, Crash \/ Shutdown PROVE JournalInv'
  OBVIOUS
<1>1. CASE Crash
  <2>1. /\ Down /\ header' = header /\ log' = log /\ snapshot' = snapshot /\ sent' = sent
        /\ pc # "closed"
    BY <1>1, JournalAssumption DEF Crash, disk
  <2>2. log \in Seq(Item) /\ FilesOK(log, snapshot, sent) /\ sent \in 0..MaxPayload
    BY DEF JournalInv, TypeOK
  <2>3. header = "whole"
    BY <2>1, UpFacts
  <2> QED BY <2>1, <2>2, <2>3, DownKeeps
<1>2. CASE Shutdown
  <2>1. /\ Down /\ header' = header /\ snapshot' = snapshot /\ sent' = sent /\ pc # "closed"
        /\ handle /\ log' \in Interrupted(Bookkeeping)
    BY <1>2 DEF Shutdown, Interrupted
  <2>2. sent \in Nat /\ header = "whole" /\ sent \in 0..MaxPayload
    BY <2>1, UpFacts DEF JournalInv, TypeOK
  <2>3. log' \in Seq(Item) /\ FilesOK(log', snapshot, sent)
    BY <2>1, <2>2, WriteKeeps
  <2> QED BY <2>1, <2>2, <2>3, DownKeeps
<1> QED BY <1>1, <1>2

\* compact, 1: records above the snapshot have payloads the state does not have.
LEMMA InstallKeeps == JournalInv /\ InstallSnapshot => JournalInv'
<1> SUFFICES ASSUME JournalInv, InstallSnapshot PROVE JournalInv'
  OBVIOUS
<1>1. /\ pc = "open" /\ snapshot' = [covered |-> last, body |-> state]
      /\ pc' = "snapshot" /\ header' = header /\ log' = log /\ handle' = handle
      /\ last' = last /\ covered' = covered /\ bytes' = bytes /\ state' = state
      /\ sent' = sent
  BY DEF InstallSnapshot
<1>2. header = "whole" /\ last \in Nat /\ state \in Seq(Payloads)
  BY <1>1, UpFacts
<1>3. FilesOK(log, snapshot', sent)
  BY <1>1 DEF JournalInv, FilesOK, RunOK
<1>4. TypeOK'
  BY <1>1, <1>2 DEF JournalInv, TypeOK
<1> QED BY <1>1, <1>2, <1>3, <1>4 DEF JournalInv

\* compact, 2.
LEMMA ReplaceKeeps == JournalInv /\ (ReplaceJournal \/ ReplaceFails) => JournalInv'
<1> SUFFICES ASSUME JournalInv, ReplaceJournal \/ ReplaceFails PROVE JournalInv'
  OBVIOUS
<1>1. /\ pc = "snapshot" /\ log' \in {log, <<>>} /\ header' = header /\ snapshot' = snapshot
      /\ state' = state /\ sent' = sent
  BY DEF ReplaceJournal, ReplaceFails
<1>2. header = "whole" /\ log \in Seq(Item) /\ snapshot.covered \in Nat
  BY <1>1, UpFacts DEF JournalInv, TypeOK
<1>3. log' \in Seq(Item) /\ FilesOK(log', snapshot, sent)
  <2>1. FilesOK(log, snapshot, sent)
    BY DEF JournalInv
  <2>2. FilesOK(<<>>, snapshot, sent)
    BY <2>1 DEF FilesOK, Ordered
  <2>3. <<>> \in Seq(Item)
    OBVIOUS
  <2>4. CASE log' = log
    BY <1>2, <2>1, <2>4
  <2>5. CASE log' = <<>>
    BY <2>2, <2>3, <2>5
  <2> QED BY <1>1, <2>4, <2>5
<1>4. CASE ReplaceJournal
  <2>1. /\ log' = <<>> /\ bytes' = 0 /\ last' = snapshot.covered
        /\ covered' = snapshot.covered /\ pc' = "base" /\ handle' = TRUE
    BY <1>4 DEF ReplaceJournal, Renumbered
  <2>2. RunOK(<<>>, state, snapshot.covered)
    BY DEF RunOK
  <2>3. TypeOK'
    BY <1>1, <1>2, <1>3, <2>1 DEF JournalInv, TypeOK
  <2> QED BY <1>1, <1>2, <1>3, <2>1, <2>2, <2>3 DEF JournalInv
<1>5. CASE ReplaceFails
  <2>1. pc' = "open" /\ handle' = FALSE /\ last' = last /\ covered' = covered /\ bytes' = bytes
    BY <1>5 DEF ReplaceFails
  <2>2. RunOK(log, state, last) /\ RunOK(<<>>, state, last)
    BY <1>1 DEF JournalInv, RunOK
  <2>3. RunOK(log', state', last')
    BY <1>1, <2>1, <2>2
  <2>4. TypeOK'
    BY <1>1, <1>2, <1>3, <2>1 DEF JournalInv, TypeOK
  <2> QED BY <1>1, <1>2, <1>3, <2>1, <2>3, <2>4 DEF JournalInv
<1> QED BY <1>4, <1>5

\* compact, 3.
LEMMA BaseKeeps ==
  JournalInv /\ (AppendBase \/ AppendBaseFails \/ AppendBaseCrashes) => JournalInv'
<1> SUFFICES ASSUME JournalInv, AppendBase \/ AppendBaseFails \/ AppendBaseCrashes
             PROVE  JournalInv'
  OBVIOUS
<1>1. /\ pc = "base" /\ log' \in Interrupted(Bookkeeping) /\ header' = header
      /\ snapshot' = snapshot /\ sent' = sent
  BY DEF AppendBase, AppendBaseFails, AppendBaseCrashes, Appended, Interrupted
<1>2. /\ header = "whole" /\ handle /\ sent \in Nat /\ last \in Nat /\ bytes \in Nat
      /\ sent \in 0..MaxPayload
  BY <1>1, UpFacts DEF JournalInv, TypeOK
<1>3. log' \in Seq(Item) /\ FilesOK(log', snapshot, sent) /\ RunOK(log', state, last)
  BY <1>1, <1>2, WriteKeeps
<1>4. CASE AppendBase
  <2>1. /\ last' = last + 1 /\ bytes' = bytes + 1 /\ pc' = "open" /\ handle' = handle
        /\ covered' = covered /\ state' = state
    BY <1>4 DEF AppendBase, Appended
  <2>2. RunOK(log', state', last')
    BY <1>2, <1>3, <2>1, RunAdvance
  <2>3. TypeOK'
    <3>1. last' \in Nat /\ bytes' \in Nat
      BY <1>2, <2>1
    <3> QED BY <1>1, <1>3, <2>1, <3>1 DEF JournalInv, TypeOK
  <2> QED BY <1>1, <1>2, <1>3, <2>1, <2>2, <2>3 DEF JournalInv
<1>5. CASE AppendBaseFails
  <2>1. /\ last' = last /\ bytes' = bytes /\ pc' = "open" /\ handle' = handle
        /\ covered' = covered /\ state' = state
    BY <1>5 DEF AppendBaseFails
  <2>2. TypeOK'
    BY <1>1, <1>3, <2>1 DEF JournalInv, TypeOK
  <2> QED BY <1>1, <1>2, <1>3, <2>1, <2>2 DEF JournalInv
<1>6. CASE AppendBaseCrashes
  <2>1. Down
    BY <1>6 DEF AppendBaseCrashes
  <2> QED BY <1>1, <1>2, <1>3, <2>1, DownKeeps
<1> QED BY <1>4, <1>5, <1>6

\* Every step.
LEMMA NextKeeps == JournalInv /\ [Next]_jvars => JournalInv'
<1> SUFFICES ASSUME JournalInv, [Next]_jvars PROVE JournalInv'
  OBVIOUS
<1>1. CASE UNCHANGED jvars
  <2>1. /\ header' = header /\ log' = log /\ snapshot' = snapshot /\ pc' = pc
        /\ handle' = handle /\ last' = last /\ covered' = covered /\ bytes' = bytes
        /\ state' = state /\ sent' = sent
    BY <1>1 DEF jvars, disk, memory
  <2> QED BY <2>1 DEF JournalInv, TypeOK
<1> QED BY <1>1, CreateKeeps, OpenKeeps, CommitKeeps, CommitInterruptedKeeps, DeathKeeps,
           InstallKeeps, ReplaceKeeps, BaseKeeps DEF Next

\* The invariant of the files and the state in memory, under every policy, with failing
\* writes and deaths at every point.
THEOREM JournalInvariant == Spec => []JournalInv
<1>1. Init => JournalInv
  BY InitInv
<1>2. JournalInv /\ [Next]_jvars => JournalInv'
  BY NextKeeps
<1> QED BY <1>1, <1>2, PTL DEF Spec

\* What open reconstructs from the files is a number and a list of payloads, whatever
\* died or failed before.
THEOREM JournalTypeOK == Spec => []TypeOK
<1>1. JournalInv => TypeOK
  BY DEF JournalInv
<1> QED BY <1>1, JournalInvariant, PTL

\* Whatever dies or fails, a recovery applies a payload at most once and in the order
\* of the appends.
THEOREM JournalAppliedOnceInOrder == Spec => []AppliedOnceInOrder
<1>1. JournalInv => AppliedOnceInOrder
  <2> SUFFICES ASSUME JournalInv PROVE AppliedOnceInOrder
    OBVIOUS
  <2>1. log \in Seq(Item) /\ snapshot \in Snapshot /\ sent \in Nat
    BY JournalAssumption DEF JournalInv, TypeOK, Snapshot
  <2>2. Rising(Yield(log, snapshot))
    BY <2>1, YieldRises DEF JournalInv
  <2>3. Recovered = Yield(log, snapshot)
    BY DEF Recovered, Yield
  <2> QED BY <2>2, <2>3 DEF AppliedOnceInOrder, Rising
<1> QED BY <1>1, JournalInvariant, PTL

-----------------------------------------------------------------------------
(* Where only processes die, and none between the two files of a compaction *)

Quiet == ~WriteCanFail /\ "base" \notin CrashPoints

\* The last item is a fragment.
Torn(l) == l # <<>> /\ Sound(l, Len(l) - 1) /\ ~l[Len(l)].whole

\* A record with a larger number.
LEMMA RecordBehind ==
  ASSUME NEW l \in Seq(Item), Sound(l, Len(l)), NEW n \in Nat, LastSequence(l) <= n,
         NEW x \in Item, x.whole, x.seq = n + 1, NEW m, m = Append(l, x)
  PROVE  /\ m \in Seq(Item) /\ Sound(m, Len(m)) /\ LastSequence(m) = n + 1
         /\ Good(m) = m /\ Good(l) = l
<1>2. /\ m \in Seq(Item) /\ Len(l) \in Nat /\ Len(m) = Len(l) + 1 /\ m[Len(l) + 1] = x
      /\ \A j \in 1..Len(l) : m[j] = l[j]
      /\ \A k \in 0..Len(l) : Sound(m, k) <=> Sound(l, k)
      /\ \A k \in 1..Len(m) : k \in 1..Len(l) \/ k = Len(l) + 1
  <2> DEFINE t == Append(l, x)
  <2>1. /\ t \in Seq(Item) /\ Len(l) \in Nat /\ Len(t) = Len(l) + 1 /\ t[Len(l) + 1] = x
        /\ \A j \in 1..Len(l) : t[j] = l[j]
        /\ \A k \in 0..Len(l) : Sound(t, k) <=> Sound(l, k)
        /\ \A k \in 1..Len(t) : k \in 1..Len(l) \/ k = Len(l) + 1
    BY ONLY l \in Seq(Item), x \in Item, AppendItem
  <2>2. m = t
    OBVIOUS
  <2> HIDE DEF t
  <2> QED BY <2>1, <2>2
<1>3. Sound(m, Len(l))
  BY <1>2
<1>4. SoundAt(m, Len(l) + 1)
  <2> SUFFICES ASSUME Len(l) + 1 > 1
               PROVE  m[Len(l) + 1].seq > m[(Len(l) + 1) - 1].seq
    BY <1>2 DEF SoundAt
  <2>1. Len(l) \in 1..Len(l) /\ (Len(l) + 1) - 1 = Len(l)
    BY <1>2
  <2>2. l # <<>> /\ l[Len(l)] \in Item
    BY <1>2, <2>1
  <2>3. LastSequence(l) = l[Len(l)].seq /\ l[Len(l)].seq \in Nat
    BY <2>2 DEF LastSequence, Item
  <2> QED BY <1>2, <2>1, <2>3
<1>5. Sound(m, Len(m))
  BY <1>2, <1>3, <1>4 DEF Sound
<1>6. LastSequence(m) = n + 1
  <2>1. m # <<>>
    BY <1>2
  <2> QED BY <1>2, <2>1 DEF LastSequence
<1> QED BY <1>2, <1>5, <1>6, GoodOfGood

\* The fragment of a record.
LEMMA FragmentBehind ==
  ASSUME NEW l \in Seq(Item), Sound(l, Len(l)), NEW m, m = Append(l, Fragment)
  PROVE  m \in Seq(Item) /\ Torn(m) /\ Good(m) = l
<1> DEFINE x == Fragment
<1>1. x \in Item /\ x.whole = FALSE
  BY DEF Fragment, Item
<1>0. m = Append(l, x)
  OBVIOUS
<1> HIDE DEF x
<1>2. /\ m \in Seq(Item) /\ Len(l) \in Nat /\ Len(m) = Len(l) + 1 /\ m[Len(l) + 1] = x
      /\ \A j \in 1..Len(l) : m[j] = l[j]
      /\ \A k \in 0..Len(l) : Sound(m, k) <=> Sound(l, k)
      /\ \A k \in 1..Len(m) : k \in 1..Len(l) \/ k = Len(l) + 1
  BY <1>0, <1>1, AppendItem, Zenon
<1>3. Sound(m, Len(l)) /\ ~SoundAt(m, Len(l) + 1)
  BY <1>1, <1>2 DEF SoundAt
<1>4. Len(m) \in Nat /\ Len(l) \in 0..Len(m) /\ Stops(m, Len(l)) /\ Len(m) - 1 = Len(l) /\ m # <<>>
  BY <1>2, <1>3 DEF Stops
<1>5. GoodLength(m) = Len(l)
  BY <1>4, GoodLengthIs
<1>6. Good(m) \in Seq(Item) /\ Len(Good(m)) = Len(l) /\ \A j \in 1..Len(l) : Good(m)[j] = m[j]
  BY <1>2, <1>5, GoodIs
<1>7. Good(m) = l
  BY <1>2, <1>6, SeqEqual
<1> QED BY <1>1, <1>2, <1>3, <1>4, <1>7 DEF Torn

\* A file with a fragment at its end is kept up to there.
LEMMA TornGood ==
  ASSUME NEW l \in Seq(Item), Torn(l)
  PROVE  GoodLength(l) = Len(l) - 1 /\ Len(l) \in Nat /\ Len(l) # 0
<1>1. Len(l) \in Nat /\ Len(l) # 0
  BY EmptySeq DEF Torn
<1>2. Len(l) - 1 \in 0..Len(l) /\ (Len(l) - 1) + 1 = Len(l)
  BY <1>1
<1>3. Stops(l, Len(l) - 1)
  BY <1>2 DEF Stops, Torn, SoundAt
<1> QED BY <1>1, <1>2, <1>3, GoodLengthIs

\* What a recovery yields after the write of a record.
LEMMA YieldRecord ==
  ASSUME NEW l \in Seq(Item), NEW s \in Snapshot, Sound(l, Len(l)), NEW n \in Nat,
         LastSequence(l) <= n, s.covered <= n,
         NEW x \in Item, x.whole, x.seq = n + 1
  PROVE  Yield(Append(l, x), s) = IF x.payload = Bookkeeping THEN Yield(l, s)
                                  ELSE Append(Yield(l, s), x.payload)
<1> DEFINE v == x.payload
           m == Append(l, x)
<1>0. m = Append(l, x) /\ v = x.payload
  OBVIOUS
<1> HIDE DEF v, m
<1> SUFFICES Yield(m, s) = IF v = Bookkeeping THEN Yield(l, s) ELSE Append(Yield(l, s), v)
  BY <1>0
<1> DEFINE q == Replayed(l, s.covered)
           b == s.body
<1>1. Good(m) = m /\ Good(l) = l
  BY <1>0, RecordBehind, Zenon
<1>2. v \in Payloads \cup {Bookkeeping}
  BY <1>0 DEF Item
<1>3. Replayed(m, s.covered) = IF Visits(x, s.covered) THEN Append(q, v) ELSE q
  BY <1>0, ReplayLonger
<1>4. s.covered \in Nat /\ b \in Seq(Payloads)
  BY DEF Snapshot
<1>5. Visits(x, s.covered) <=> v # Bookkeeping
  BY <1>0, <1>4 DEF Visits
<1>6. q \in Seq(Payloads)
  BY ReplayContent DEF FromFile
<1> HIDE DEF q, b
<1>7. v # Bookkeeping => b \o Append(q, v) = Append(b \o q, v)
  <2> SUFFICES ASSUME v \in Payloads
               PROVE  b \o Append(q, v) = Append(b \o q, v)
    BY <1>2
  <2>1. <<v>> \in Seq(Payloads) /\ b \o q \in Seq(Payloads)
    BY <1>4, <1>6
  <2>2. Append(q, v) = q \o <<v>> /\ Append(b \o q, v) = (b \o q) \o <<v>>
    BY <1>6, <2>1, AppendIsConcat
  <2> QED BY <1>4, <1>6, <2>1, <2>2, ConcatAssociative
<1>8. Yield(m, s) = b \o Replayed(m, s.covered) /\ Yield(l, s) = b \o q
  BY <1>1 DEF Yield, b, q
<1> QED BY <1>3, <1>5, <1>7, <1>8

\* Nothing is damaged, the numbers go on behind the snapshot, and the state is what a
\* recovery would yield.
QuietInv ==
  /\ Quiet
  /\ Sound(log, Len(log)) \/ (pc = "closed" /\ Torn(log))
  /\ pc # "base" => snapshot.covered <= LastSequence(Good(log))
  /\ pc \in {"open", "snapshot"} => last = LastSequence(log)
  /\ pc = "base" => log = <<>> /\ last = snapshot.covered
  /\ pc = "snapshot" => snapshot = [covered |-> last, body |-> state]
  /\ pc # "closed" => handle /\ state = Yield(log, snapshot)
  /\ header # "whole" => snapshot = NoSnapshot

\* The recovery of an empty journal yields the snapshot.
LEMMA YieldEmpty ==
  ASSUME NEW s \in Snapshot
  PROVE  /\ Sound(<<>>, Len(<<>>)) /\ Good(<<>>) = <<>> /\ LastSequence(<<>>) = 0
         /\ Yield(<<>>, s) = s.body
<1>1. <<>> \in Seq(Item) /\ Len(<<>>) = 0
  OBVIOUS
<1>2. Sound(<<>>, Len(<<>>))
  BY <1>1 DEF Sound
<1>3. Good(<<>>) = <<>>
  BY <1>1, <1>2, GoodOfGood
<1>4. Replayed(<<>>, s.covered) = <<>>
  <2> DEFINE l == <<>>
  <2>1. l \in Seq(Item) /\ \A m \in 1..Len(l) : ~Visits(l[m], s.covered)
    OBVIOUS
  <2> HIDE DEF l
  <2>2. Replayed(l, s.covered) = <<>>
    BY <2>1, ReplayNothing
  <2> QED BY <2>2 DEF l
<1>5. s.body \in Seq(Payloads)
  BY DEF Snapshot
<1>6. s.body \o <<>> = s.body
  BY <1>5, ConcatEmptySeq
<1> QED BY <1>2, <1>3, <1>4, <1>6 DEF LastSequence, Yield

\* Types, while nothing is wrong with the files.
LEMMA QuietFacts ==
  ASSUME JournalInv, QuietInv
  PROVE  /\ log \in Seq(Item) /\ snapshot \in Snapshot /\ sent \in Nat /\ last \in Nat
         /\ pc \in {"closed", "open", "snapshot", "base"}
         /\ pc # "closed" => /\ Sound(log, Len(log)) /\ Good(log) = log
                             /\ snapshot.covered <= last /\ LastSequence(log) <= last
                             /\ header = "whole"
         /\ snapshot.covered \in Nat
         /\ sent < MaxPayload => sent + 1 \in Payloads /\ sent + 1 # Bookkeeping
<1>1. /\ log \in Seq(Item) /\ snapshot \in Snapshot /\ sent \in Nat /\ last \in Nat
      /\ pc \in {"closed", "open", "snapshot", "base"} /\ snapshot.covered \in Nat
      /\ sent < MaxPayload => sent + 1 \in Payloads /\ sent + 1 # Bookkeeping
  BY JournalAssumption DEF JournalInv, TypeOK, Snapshot, Payloads, Bookkeeping
<1> SUFFICES ASSUME pc # "closed"
             PROVE  /\ Sound(log, Len(log)) /\ Good(log) = log
                    /\ snapshot.covered <= last /\ LastSequence(log) <= last
                    /\ header = "whole"
  BY <1>1
<1>2. Sound(log, Len(log)) /\ Good(log) = log
  BY <1>1, GoodOfGood DEF QuietInv
<1>3. snapshot.covered <= last /\ LastSequence(log) <= last
  <2>1. CASE pc = "base"
    BY <1>1, <2>1, YieldEmpty DEF QuietInv
  <2>2. CASE pc # "base"
    <3>1. last = LastSequence(log) /\ snapshot.covered <= LastSequence(Good(log))
      BY <1>1, <2>2 DEF QuietInv
    <3> QED BY <1>1, <1>2, <3>1
  <2> QED BY <2>1, <2>2
<1> QED BY <1>2, <1>3 DEF JournalInv

\* The first header.
LEMMA QuietCreate ==
  ASSUME JournalInv, QuietInv, Create \/ CreateInterrupted
  PROVE  QuietInv' /\ log' = log /\ snapshot' = snapshot
<1>1. /\ pc = "closed" /\ header = "none" /\ log' = log /\ snapshot' = snapshot
      /\ log = <<>> /\ snapshot = NoSnapshot
  BY DEF Create, CreateInterrupted, JournalInv, QuietInv
<1>2. /\ Sound(log, Len(log)) /\ Good(log) = log /\ LastSequence(log) = 0
      /\ Yield(log, snapshot) = <<>> /\ snapshot.covered = 0
  <2>1. snapshot \in Snapshot
    BY QuietFacts
  <2> QED BY <1>1, <2>1, YieldEmpty DEF NoSnapshot
<1>3. CASE Create
  <2>1. pc' = "open" /\ handle' = TRUE /\ last' = 0 /\ state' = <<>> /\ header' = "whole"
    BY <1>3 DEF Create
  <2> QED BY <1>1, <1>2, <2>1 DEF QuietInv, Quiet
<1>4. CASE CreateInterrupted
  <2>1. pc' = "closed"
    BY <1>1, <1>4 DEF CreateInterrupted, memory
  <2> QED BY <1>1, <1>2, <2>1 DEF QuietInv, Quiet
<1> QED BY <1>3, <1>4

\* Recovery changes nothing of what the next recovery yields.
LEMMA QuietOpen ==
  ASSUME JournalInv, QuietInv, Open
  PROVE  /\ QuietInv' /\ Yield(log', snapshot') = Yield(log, snapshot)
         /\ pc = "closed" /\ pc' = "open"
<1>1. log \in Seq(Item) /\ snapshot \in Snapshot /\ sent \in Nat
  BY QuietFacts
<1>2. /\ log' = Good(log) /\ pc' = "open" /\ handle' = TRUE
      /\ last' = LastSequence(Good(log)) /\ state' = Yield(log, snapshot)
      /\ header' = header /\ snapshot' = snapshot /\ header = "whole" /\ pc = "closed"
  BY DEF Open, Recovered, Yield
<1>3. Good(log) \in Seq(Item) /\ Sound(Good(log), Len(Good(log))) /\ Good(Good(log)) = Good(log)
  BY <1>1, FilesGood DEF JournalInv
<1>4. Yield(log', snapshot') = Yield(log, snapshot)
  BY <1>2, <1>3 DEF Yield
<1>5. snapshot.covered <= LastSequence(Good(log))
  BY <1>2 DEF QuietInv
<1> QED BY <1>2, <1>3, <1>4, <1>5 DEF QuietInv, Quiet

\* A record, complete, behind what is there.
LEMMA QuietRecord ==
  ASSUME JournalInv, QuietInv, pc # "closed", NEW v \in Payloads \cup {Bookkeeping},
         NEW l, l = Append(log, Record(last + 1, v))
  PROVE  /\ Sound(l, Len(l)) /\ Good(l) = l /\ LastSequence(l) = last + 1
         /\ snapshot.covered <= last + 1
         /\ Yield(l, snapshot) = IF v = Bookkeeping THEN Yield(log, snapshot)
                                 ELSE Append(Yield(log, snapshot), v)
<1> DEFINE x == Record(last + 1, v)
<1>1. /\ log \in Seq(Item) /\ snapshot \in Snapshot /\ last \in Nat /\ snapshot.covered \in Nat
      /\ Sound(log, Len(log)) /\ snapshot.covered <= last /\ LastSequence(log) <= last
  BY QuietFacts
<1>2. x \in Item /\ x.whole /\ x.seq = last + 1 /\ x.payload = v
  BY <1>1 DEF Record, Item
<1>3. l = Append(log, x)
  OBVIOUS
<1> HIDE DEF x
<1>4. Sound(l, Len(l)) /\ Good(l) = l /\ LastSequence(l) = last + 1
  BY <1>1, <1>2, <1>3, RecordBehind
<1>5. Yield(l, snapshot) = IF v = Bookkeeping THEN Yield(log, snapshot)
                           ELSE Append(Yield(log, snapshot), v)
  <2>1. Yield(Append(log, x), snapshot) =
          IF x.payload = Bookkeeping THEN Yield(log, snapshot)
          ELSE Append(Yield(log, snapshot), x.payload)
    BY <1>1, <1>2, YieldRecord
  <2> QED BY <1>2, <1>3, <2>1
<1>6. snapshot.covered <= last + 1
  BY <1>1
<1> QED BY <1>4, <1>5, <1>6

\* A write that is not complete.
LEMMA QuietInterrupted ==
  ASSUME JournalInv, QuietInv, pc \in {"open", "snapshot"},
         NEW v \in Payloads \cup {Bookkeeping}, NEW l \in Interrupted(v)
  PROVE  /\ Sound(l, Len(l)) \/ Torn(l)
         /\ snapshot.covered <= LastSequence(Good(l))
         /\ \/ Yield(l, snapshot) = Yield(log, snapshot)
            \/ v # Bookkeeping /\ Yield(l, snapshot) = Append(Yield(log, snapshot), v)
<1>1. /\ log \in Seq(Item) /\ Sound(log, Len(log)) /\ Good(log) = log
      /\ snapshot.covered <= LastSequence(Good(log))
  BY QuietFacts DEF QuietInv
<1>2. CASE l = log
  BY <1>1, <1>2
<1>3. CASE l = Append(log, Fragment)
  <2>1. Torn(l) /\ Good(l) = log
    BY <1>1, <1>3, FragmentBehind
  <2> QED BY <1>1, <2>1 DEF Yield
<1>4. CASE l = Append(log, Record(last + 1, v))
  BY <1>4, QuietRecord
<1> QED BY <1>2, <1>3, <1>4 DEF Interrupted

\* An acknowledged append is what a recovery yields more.
LEMMA QuietCommit ==
  ASSUME JournalInv, QuietInv, Commit
  PROVE  /\ QuietInv' /\ pc # "closed" /\ pc' = pc /\ sent + 1 \in Payloads
         /\ Yield(log', snapshot') = Append(Yield(log, snapshot), sent + 1)
<1>1. /\ pc = "open" /\ pc' = "open" /\ handle' = handle /\ handle /\ header' = header
      /\ snapshot' = snapshot /\ last' = last + 1 /\ sent < MaxPayload
      /\ log' = Append(log, Record(last + 1, sent + 1))
      /\ state' = Append(state, sent + 1)
  BY DEF Commit, Appended
<1>2. sent + 1 \in Payloads /\ sent + 1 # Bookkeeping /\ header = "whole"
  BY <1>1, QuietFacts
<1> DEFINE v == sent + 1
<1>0. v \in Payloads /\ v # Bookkeeping /\ v = sent + 1
  BY <1>2
<1> HIDE DEF v
<1>3. /\ Sound(log', Len(log')) /\ Good(log') = log' /\ LastSequence(log') = last + 1
      /\ snapshot.covered <= last + 1
      /\ Yield(log', snapshot) = Append(Yield(log, snapshot), v)
  <2>1. log' = Append(log, Record(last + 1, v)) /\ v \in Payloads \cup {Bookkeeping}
    BY <1>0, <1>1
  <2> DEFINE l == log'
  <2>2. l = Append(log, Record(last + 1, v)) /\ pc # "closed"
    BY <1>1, <2>1
  <2> HIDE DEF l
  <2>3. /\ Sound(l, Len(l)) /\ Good(l) = l /\ LastSequence(l) = last + 1
        /\ snapshot.covered <= last + 1
        /\ Yield(l, snapshot) = Append(Yield(log, snapshot), v)
    BY <1>0, <2>1, <2>2, QuietRecord
  <2> QED BY <2>3 DEF l
<1>4. state' = Yield(log', snapshot')
  BY <1>0, <1>1, <1>3 DEF QuietInv
<1>5. QuietInv'
  BY <1>1, <1>2, <1>3, <1>4 DEF QuietInv, Quiet
<1> QED BY <1>0, <1>1, <1>2, <1>3, <1>5

\* A process that dies in an append leaves the payload in the files or not.
LEMMA QuietCommitCrashes ==
  ASSUME JournalInv, QuietInv, CommitCrashes
  PROVE  /\ QuietInv' /\ pc # "closed" /\ pc' = "closed" /\ sent + 1 \in Payloads
         /\ Yield(log', snapshot') \in {Yield(log, snapshot), Append(Yield(log, snapshot), sent + 1)}
<1>1. /\ pc = "open" /\ pc' = "closed" /\ header' = header /\ snapshot' = snapshot
      /\ sent < MaxPayload /\ log' \in Interrupted(sent + 1)
  BY DEF CommitCrashes, Down
<1>2. sent + 1 \in Payloads /\ header = "whole"
  BY <1>1, QuietFacts
<1>3. /\ Sound(log', Len(log')) \/ Torn(log')
      /\ snapshot.covered <= LastSequence(Good(log'))
      /\ \/ Yield(log', snapshot) = Yield(log, snapshot)
         \/ Yield(log', snapshot) = Append(Yield(log, snapshot), sent + 1)
  <2> DEFINE l == log'
             v == sent + 1
  <2>1. v \in Payloads \cup {Bookkeeping} /\ l \in Interrupted(v) /\ pc \in {"open", "snapshot"}
    BY <1>1, <1>2
  <2> HIDE DEF l, v
  <2>2. /\ Sound(l, Len(l)) \/ Torn(l)
        /\ snapshot.covered <= LastSequence(Good(l))
        /\ \/ Yield(l, snapshot) = Yield(log, snapshot)
           \/ Yield(l, snapshot) = Append(Yield(log, snapshot), v)
    BY <2>1, QuietInterrupted
  <2> QED BY <2>2 DEF l, v
<1>4. QuietInv'
  BY <1>1, <1>2, <1>3 DEF QuietInv, Quiet
<1> QED BY <1>1, <1>2, <1>3, <1>4

\* A process that dies between two file operations, none of them inside compact's
\* renewal of the journal.
LEMMA QuietCrash ==
  ASSUME JournalInv, QuietInv, Crash
  PROVE  QuietInv' /\ pc # "closed" /\ pc' = "closed" /\ Yield(log', snapshot') = Yield(log, snapshot)
<1>1. /\ pc \in {"open", "snapshot"} /\ pc' = "closed" /\ header' = header
      /\ snapshot' = snapshot /\ log' = log
  BY JournalAssumption DEF Crash, Down, disk, QuietInv, Quiet
<1>2. header = "whole"
  BY <1>1, QuietFacts
<1>3. Sound(log, Len(log)) /\ snapshot.covered <= LastSequence(Good(log))
  BY <1>1 DEF QuietInv
<1> QED BY <1>1, <1>2, <1>3 DEF QuietInv, Quiet

\* The seal of an orderly shutdown.
LEMMA QuietShutdown ==
  ASSUME JournalInv, QuietInv, Shutdown
  PROVE  QuietInv' /\ pc # "closed" /\ pc' = "closed" /\ Yield(log', snapshot') = Yield(log, snapshot)
<1>1. /\ pc = "open" /\ pc' = "closed" /\ header' = header /\ snapshot' = snapshot
      /\ log' = Append(log, Record(last + 1, Bookkeeping))
  BY DEF Shutdown, Down
<1>2. header = "whole" /\ last \in Nat
  BY <1>1, QuietFacts
<1>3. /\ Sound(log', Len(log')) /\ Good(log') = log' /\ LastSequence(log') = last + 1
      /\ snapshot.covered <= last + 1 /\ Yield(log', snapshot) = Yield(log, snapshot)
  <2> DEFINE l == log'
  <2>1. l = Append(log, Record(last + 1, Bookkeeping)) /\ pc # "closed"
    BY <1>1
  <2> HIDE DEF l
  <2>2. /\ Sound(l, Len(l)) /\ Good(l) = l /\ LastSequence(l) = last + 1
        /\ snapshot.covered <= last + 1 /\ Yield(l, snapshot) = Yield(log, snapshot)
    BY <2>1, QuietRecord
  <2> QED BY <2>2 DEF l
<1>4. QuietInv'
  BY <1>1, <1>2, <1>3 DEF QuietInv, Quiet
<1> QED BY <1>1, <1>3, <1>4

\* compact, 1: the snapshot holds what the records held.
LEMMA QuietInstall ==
  ASSUME JournalInv, QuietInv, InstallSnapshot
  PROVE  QuietInv' /\ pc # "closed" /\ pc' # "closed" /\ Yield(log', snapshot') = Yield(log, snapshot)
<1>1. /\ pc = "open" /\ pc' = "snapshot" /\ header' = header /\ log' = log /\ handle' = handle
      /\ last' = last /\ state' = state /\ snapshot' = [covered |-> last, body |-> state]
  BY DEF InstallSnapshot
<1>2. /\ log \in Seq(Item) /\ Sound(log, Len(log)) /\ Good(log) = log /\ header = "whole"
      /\ last = LastSequence(log) /\ last \in Nat /\ handle /\ state = Yield(log, snapshot)
  BY <1>1, QuietFacts DEF QuietInv
<1>3. \A m \in 1..Len(log) : ~Visits(log[m], last)
  BY <1>2, LastIsLargest DEF Visits
<1>4. Replayed(log, last) = <<>>
  BY <1>2, <1>3, ReplayNothing
<1>5. state \in Seq(Payloads)
  BY DEF JournalInv, TypeOK
<1>6. state \o <<>> = state
  BY <1>5, ConcatEmptySeq
<1>7. Yield(log', snapshot') = state
  BY <1>1, <1>2, <1>4, <1>6 DEF Yield
<1>8. QuietInv'
  BY <1>1, <1>2, <1>7 DEF QuietInv, Quiet
<1> QED BY <1>1, <1>2, <1>7, <1>8

\* compact, 2: the snapshot alone yields the same.
LEMMA QuietReplace ==
  ASSUME JournalInv, QuietInv, ReplaceJournal
  PROVE  QuietInv' /\ pc # "closed" /\ pc' # "closed" /\ Yield(log', snapshot') = Yield(log, snapshot)
<1>1. /\ pc = "snapshot" /\ pc' = "base" /\ header' = header /\ log' = <<>>
      /\ handle' = TRUE /\ last' = snapshot.covered /\ state' = state /\ snapshot' = snapshot
  BY DEF ReplaceJournal, Renumbered
<1>2. /\ snapshot \in Snapshot /\ header = "whole" /\ handle
      /\ snapshot = [covered |-> last, body |-> state] /\ state = Yield(log, snapshot)
  BY <1>1, QuietFacts DEF QuietInv
<1>3. Sound(log', Len(log')) /\ Yield(log', snapshot') = snapshot.body
  BY <1>1, <1>2, YieldEmpty
<1>4. snapshot.body = state
  BY <1>2
<1>5. QuietInv'
  BY <1>1, <1>2, <1>3, <1>4 DEF QuietInv, Quiet
<1> QED BY <1>1, <1>2, <1>3, <1>4, <1>5

\* compact, 3: the first record of the new journal.
LEMMA QuietAppendBase ==
  ASSUME JournalInv, QuietInv, AppendBase
  PROVE  QuietInv' /\ pc # "closed" /\ pc' # "closed" /\ Yield(log', snapshot') = Yield(log, snapshot)
<1>1. /\ pc = "base" /\ pc' = "open" /\ header' = header /\ snapshot' = snapshot
      /\ handle' = handle /\ state' = state /\ last' = last + 1
      /\ log' = Append(log, Record(last + 1, Bookkeeping))
  BY DEF AppendBase, Appended
<1>2. header = "whole" /\ handle /\ state = Yield(log, snapshot)
  BY <1>1, QuietFacts DEF QuietInv
<1>3. /\ Sound(log', Len(log')) /\ Good(log') = log' /\ LastSequence(log') = last + 1
      /\ snapshot.covered <= last + 1 /\ Yield(log', snapshot) = Yield(log, snapshot)
  <2> DEFINE l == log'
  <2>1. l = Append(log, Record(last + 1, Bookkeeping)) /\ pc # "closed"
    BY <1>1
  <2> HIDE DEF l
  <2>2. /\ Sound(l, Len(l)) /\ Good(l) = l /\ LastSequence(l) = last + 1
        /\ snapshot.covered <= last + 1 /\ Yield(l, snapshot) = Yield(log, snapshot)
    BY <2>1, QuietRecord
  <2> QED BY <2>2 DEF l
<1>4. QuietInv'
  BY <1>1, <1>2, <1>3 DEF QuietInv, Quiet
<1> QED BY <1>1, <1>3, <1>4

-----------------------------------------------------------------------------
\* A step does to the files what the promise of DurableLog allows.
LEMMA QuietStep ==
  ASSUME JournalInv, QuietInv, [Next]_jvars
  PROVE  QuietInv' /\ [Promise!Next]_Promise!lvars
<1>0. /\ Recovered = Yield(log, snapshot) /\ Recovered' = Yield(log', snapshot')
      /\ pc \in {"closed", "open", "snapshot", "base"}
  BY QuietFacts DEF Recovered, Yield
<1>1. CASE UNCHANGED jvars
  <2>1. /\ header' = header /\ log' = log /\ snapshot' = snapshot /\ pc' = pc
        /\ handle' = handle /\ last' = last /\ state' = state
    BY <1>1 DEF jvars, disk, memory
  <2> QED BY <1>0, <2>1 DEF QuietInv, Quiet, Promise!lvars
<1>2. CASE Create
  <2>1. QuietInv' /\ log' = log /\ snapshot' = snapshot
    BY <1>2, QuietCreate
  <2>2. pc = "closed" /\ pc' = "open"
    BY <1>2 DEF Create
  <2>3. Promise!Recover
    BY <1>0, <2>1, <2>2 DEF Promise!Recover
  <2> QED BY <2>1, <2>3 DEF Promise!Next
<1>3. CASE CreateInterrupted
  <2>1. QuietInv' /\ log' = log /\ snapshot' = snapshot
    BY <1>3, QuietCreate
  <2>2. pc' = pc
    BY <1>3 DEF CreateInterrupted, memory
  <2> QED BY <1>0, <2>1, <2>2 DEF Promise!lvars
<1>4. CASE Open
  <2>1. QuietInv' /\ Promise!Recover
    BY <1>0, <1>4, QuietOpen DEF Promise!Recover
  <2> QED BY <2>1 DEF Promise!Next
<1>5. CASE Commit
  <2>1. QuietInv' /\ sent + 1 \in Payloads /\ Promise!Acknowledge(sent + 1)
    BY <1>0, <1>5, QuietCommit DEF Promise!Acknowledge
  <2> QED BY <2>1 DEF Promise!Next
<1>6. CASE CommitCrashes
  <2>1. QuietInv' /\ sent + 1 \in Payloads /\ Promise!InDoubt(sent + 1)
    BY <1>0, <1>6, QuietCommitCrashes DEF Promise!InDoubt
  <2> QED BY <2>1 DEF Promise!Next
<1>7. CASE Crash \/ Shutdown
  <2>1. QuietInv' /\ Promise!Leave
    BY <1>0, <1>7, QuietCrash, QuietShutdown DEF Promise!Leave
  <2> QED BY <2>1 DEF Promise!Next
<1>8. CASE InstallSnapshot \/ ReplaceJournal \/ AppendBase
  BY <1>0, <1>8, QuietInstall, QuietReplace, QuietAppendBase DEF Promise!lvars
<1>9. ~CommitFails /\ ~ReplaceFails /\ ~AppendBaseFails /\ ~AppendBaseCrashes
  BY DEF QuietInv, Quiet, CommitFails, ReplaceFails, AppendBaseFails, AppendBaseCrashes
<1> QED BY <1>1, <1>2, <1>3, <1>4, <1>5, <1>6, <1>7, <1>8, <1>9 DEF Next

\* The start.
LEMMA QuietInit == Quiet /\ Init => QuietInv /\ Promise!Init
<1> SUFFICES ASSUME Quiet, Init PROVE QuietInv /\ Promise!Init
  OBVIOUS
<1>1. NoSnapshot \in Snapshot /\ NoSnapshot.covered = 0 /\ NoSnapshot.body = <<>>
  BY DEF NoSnapshot, Snapshot
<1>2. log = <<>> /\ snapshot = NoSnapshot /\ pc = "closed"
  BY DEF Init
<1>3. /\ Sound(log, Len(log)) /\ Good(log) = <<>> /\ LastSequence(Good(log)) = 0
      /\ Yield(log, snapshot) = <<>>
  BY <1>1, <1>2, YieldEmpty
<1>4. Recovered = <<>>
  BY <1>3 DEF Recovered, Yield
<1> QED BY <1>1, <1>2, <1>3, <1>4 DEF QuietInv, Promise!Init

\* Where no write fails and no process dies between the two files of a compaction, the
\* files go on behind the snapshot and hold what the coordinator acts on.
THEOREM JournalQuietInvariant == Quiet /\ Spec => []QuietInv
<1>1. JournalInv /\ QuietInv /\ [Next]_jvars => QuietInv'
  BY QuietStep
<1> QED BY <1>1, QuietInit, JournalInvariant, PTL DEF Spec

\* Under the same hypothesis nothing the coordinator has in its state can be lost by
\* dying now: wherever an append, a shutdown or a compaction is interrupted, a recovery
\* yields that state.
THEOREM JournalStateIsDurable == Quiet /\ Spec => []StateIsDurable
<1>1. QuietInv => StateIsDurable
  BY DEF QuietInv, StateIsDurable, Recovered, Yield
<1> QED BY <1>1, JournalQuietInvariant, PTL

\* Where no write fails and no process dies between the two files of a compaction, the
\* store implements the durable log: a value is in the
\* files before its append is acknowledged, and neither a compaction nor a recovery
\* changes what they hold.
THEOREM JournalImplementsDurableLog == Quiet /\ Spec => ImplementsDurableLog
<1>1. JournalInv /\ QuietInv /\ [Next]_jvars => [Promise!Next]_Promise!lvars
  BY QuietStep
<1>2. Quiet /\ Init => Promise!Init
  BY QuietInit
<1> QED BY <1>1, <1>2, JournalInvariant, JournalQuietInvariant, PTL
        DEF Spec, ImplementsDurableLog, Promise!Spec

-----------------------------------------------------------------------------
\* As long as no write fails in a running process, whatever dies and wherever: the file
\* is sound but for a fragment at its end that the next open cuts off, and the next
\* number is larger than the last one in the file.
UnfailingInv ==
  /\ ~WriteCanFail
  /\ Sound(log, Len(log)) \/ (pc = "closed" /\ Torn(log))
  /\ pc # "closed" => handle /\ LastSequence(log) <= last

\* A record, complete or not.
LEMMA UnfailingWrite ==
  ASSUME JournalInv, UnfailingInv, pc # "closed", NEW v \in Payloads \cup {Bookkeeping},
         NEW l \in Interrupted(v)
  PROVE  /\ Sound(l, Len(l)) \/ Torn(l)
         /\ l = Append(log, Record(last + 1, v)) => Sound(l, Len(l)) /\ LastSequence(l) = last + 1
<1>1. log \in Seq(Item) /\ Sound(log, Len(log)) /\ last \in Nat /\ LastSequence(log) <= last
  BY DEF JournalInv, TypeOK, UnfailingInv
<1>2. ASSUME l = Append(log, Record(last + 1, v))
      PROVE  Sound(l, Len(l)) /\ LastSequence(l) = last + 1
  <2> DEFINE x == Record(last + 1, v)
  <2>1. x \in Item /\ x.whole /\ x.seq = last + 1
    BY <1>1 DEF Record, Item
  <2>2. l = Append(log, x)
    BY <1>2
  <2> HIDE DEF x
  <2> QED BY <1>1, <2>1, <2>2, RecordBehind
<1>3. l = Append(log, Fragment) => Torn(l)
  BY <1>1, FragmentBehind
<1> QED BY <1>1, <1>2, <1>3 DEF Interrupted

\* Every step.
LEMMA UnfailingStep ==
  ASSUME JournalInv, UnfailingInv, [Next]_jvars
  PROVE  UnfailingInv'
<1>1. log \in Seq(Item) /\ last \in Nat /\ snapshot \in Snapshot /\ sent \in Nat
  BY JournalAssumption DEF JournalInv, TypeOK, Snapshot
<1>2. <<>> \in Seq(Item) /\ Sound(<<>>, Len(<<>>)) /\ LastSequence(<<>>) = 0
  BY <1>1, YieldEmpty
<1>3. CASE UNCHANGED jvars
  <2>1. log' = log /\ pc' = pc /\ handle' = handle /\ last' = last
    BY <1>3 DEF jvars, disk, memory
  <2> QED BY <2>1 DEF UnfailingInv
<1>4. CASE Create \/ CreateInterrupted
  <2>1. /\ log = <<>> /\ log' = <<>> /\ (pc' = "closed" \/ (handle' /\ last' = 0))
    BY <1>4 DEF Create, CreateInterrupted, JournalInv, memory
  <2> QED BY <1>2, <2>1 DEF UnfailingInv
<1>5. CASE Open
  <2>1. log' = Good(log) /\ handle' /\ last' = LastSequence(Good(log))
    BY <1>5 DEF Open
  <2>2. Sound(Good(log), Len(Good(log))) /\ LastSequence(Good(log)) \in Nat
    BY <1>1, FilesGood DEF JournalInv
  <2> QED BY <2>1, <2>2 DEF UnfailingInv
<1>6. ASSUME NEW v \in Payloads \cup {Bookkeeping}, pc # "closed", log' \in Interrupted(v),
             \/ Down
             \/ log' = Append(log, Record(last + 1, v)) /\ handle' = handle /\ last' = last + 1
      PROVE  UnfailingInv'
  <2> DEFINE l == log'
  <2>1. l \in Interrupted(v)
    BY <1>6
  <2> HIDE DEF l
  <2>2. /\ Sound(l, Len(l)) \/ Torn(l)
        /\ l = Append(log, Record(last + 1, v)) => Sound(l, Len(l)) /\ LastSequence(l) = last + 1
    BY <1>6, <2>1, UnfailingWrite
  <2>3. /\ Sound(log', Len(log')) \/ Torn(log')
        /\ log' = Append(log, Record(last + 1, v)) =>
             Sound(log', Len(log')) /\ LastSequence(log') = last + 1
    BY <2>2 DEF l
  <2>4. CASE Down
    BY <2>3, <2>4 DEF UnfailingInv, Down
  <2>5. CASE log' = Append(log, Record(last + 1, v)) /\ handle' = handle /\ last' = last + 1
    BY <1>1, <1>6, <2>3, <2>5 DEF UnfailingInv
  <2> QED BY <1>6, <2>4, <2>5
<1>7. sent < MaxPayload => sent + 1 \in Payloads \cup {Bookkeeping}
  BY <1>1, JournalAssumption DEF Payloads
<1>8. CASE Commit
  <2>1. /\ pc # "closed" /\ sent < MaxPayload /\ handle' = handle /\ last' = last + 1
        /\ log' = Append(log, Record(last + 1, sent + 1)) /\ log' \in Interrupted(sent + 1)
    BY <1>8 DEF Commit, Appended, Interrupted
  <2> QED BY <1>6, <1>7, <2>1
<1>9. CASE CommitCrashes
  <2>1. pc # "closed" /\ sent < MaxPayload /\ log' \in Interrupted(sent + 1) /\ Down
    BY <1>9 DEF CommitCrashes
  <2> QED BY <1>6, <1>7, <2>1
<1>10. CASE Crash
  <2>1. pc # "closed" /\ pc' = "closed" /\ log' = log
    BY <1>10, JournalAssumption DEF Crash, Down, disk
  <2> QED BY <2>1 DEF UnfailingInv
<1>11. CASE Shutdown
  <2>1. pc # "closed" /\ log' \in Interrupted(Bookkeeping) /\ Down
    BY <1>11 DEF Shutdown, Interrupted
  <2> QED BY <1>6, <2>1
<1>12. CASE InstallSnapshot
  BY <1>12 DEF InstallSnapshot, UnfailingInv
<1>13. CASE ReplaceJournal
  <2>1. /\ pc # "closed" /\ log' = <<>> /\ handle' = TRUE /\ last' = snapshot.covered
        /\ snapshot.covered \in Nat
    BY <1>1, <1>13 DEF ReplaceJournal, Renumbered, Snapshot
  <2> QED BY <1>2, <2>1 DEF UnfailingInv
<1>14. CASE AppendBase
  <2>1. /\ pc # "closed" /\ handle' = handle /\ last' = last + 1
        /\ log' = Append(log, Record(last + 1, Bookkeeping)) /\ log' \in Interrupted(Bookkeeping)
    BY <1>14 DEF AppendBase, Appended, Interrupted
  <2> QED BY <1>6, <2>1
<1>15. CASE AppendBaseCrashes
  <2>1. pc # "closed" /\ log' \in Interrupted(Bookkeeping) /\ Down
    BY <1>15 DEF AppendBaseCrashes
  <2> QED BY <1>6, <2>1
<1>16. ~CommitFails /\ ~ReplaceFails /\ ~AppendBaseFails
  BY DEF UnfailingInv, CommitFails, ReplaceFails, AppendBaseFails
<1> QED BY <1>3, <1>4, <1>5, <1>8, <1>9, <1>10, <1>11, <1>12, <1>13, <1>14, <1>15, <1>16 DEF Next

\* Dying processes alone, wherever they die, never damage the file: an open finds it
\* clean or torn in its last record.
THEOREM JournalNoDamage == ~WriteCanFail /\ Spec => []NoDamage
<1>1. ~WriteCanFail /\ Init => UnfailingInv
  <2>1. NoSnapshot \in Snapshot
    BY DEF NoSnapshot, Snapshot
  <2> QED BY <2>1, YieldEmpty DEF Init, UnfailingInv
<1>2. JournalInv /\ UnfailingInv /\ [Next]_jvars => UnfailingInv'
  BY UnfailingStep
<1>3. JournalInv /\ UnfailingInv => NoDamage
  <2> SUFFICES ASSUME JournalInv, UnfailingInv PROVE NoDamage
    OBVIOUS
  <2>1. log \in Seq(Item)
    BY DEF JournalInv, TypeOK
  <2>2. CASE Sound(log, Len(log))
    <3>1. GoodLength(log) = Len(log)
      BY <2>1, <2>2, GoodOfGood
    <3> QED BY <3>1 DEF NoDamage, Verdicts
  <2>3. CASE Torn(log)
    <3>1. GoodLength(log) = Len(log) - 1 /\ Len(log) \in Nat /\ Len(log) # 0
      BY <2>1, <2>3, TornGood
    <3>2. GoodLength(log) # Len(log) /\ GoodLength(log) + 1 = Len(log) /\ ~log[Len(log)].whole
      BY <2>3, <3>1 DEF Torn
    <3> QED BY <3>2 DEF NoDamage, Verdicts
  <2> QED BY <2>2, <2>3 DEF UnfailingInv
<1> QED BY <1>1, <1>2, <1>3, JournalInvariant, PTL DEF Spec
=============================================================================
