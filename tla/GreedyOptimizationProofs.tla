---------------------- MODULE GreedyOptimizationProofs ----------------------
(***************************************************************************)
(* Theorems about GreedyOptimization, for every number of data centers,    *)
(* every prediction and every number of nodes in a data center.            *)
(***************************************************************************)
EXTENDS GreedyOptimization, SequenceTheorems, TLAPS

-----------------------------------------------------------------------------
(* Arithmetic and lists. *)

(* A quotient that is rounded down. *)
LEMMA DivBounds ==
  ASSUME NEW a \in Int, NEW b \in Nat \ {0}
  PROVE  /\ a \div b \in Int
         /\ (a \div b) * b <= a
         /\ a < (a \div b) * b + b
OBVIOUS

(* A list without its k-th element. *)
LEMMA RemoveAtIs ==
  ASSUME NEW s \in Seq(Int), NEW k \in 1 .. Len(s)
  PROVE  /\ RemoveAt(s, k) \in Seq(Int)
         /\ Len(RemoveAt(s, k)) = Len(s) - 1
         /\ \A l \in 1 .. Len(s) - 1 :
              RemoveAt(s, k)[l] = IF l < k THEN s[l] ELSE s[l + 1]
<1> DEFINE low == SubSeq(s, 1, k - 1)
           high == SubSeq(s, k + 1, Len(s))
           both == low \o high
<1>1. low \in Seq(Int) /\ Len(low) = k - 1 /\ \A l \in 1 .. k - 1 : low[l] = s[l]
  OBVIOUS
<1>2. /\ high \in Seq(Int) /\ Len(high) = Len(s) - k
      /\ \A l \in 1 .. Len(s) - k : high[l] = s[k + l]
  OBVIOUS
<1>3. RemoveAt(s, k) = both
  BY DEF RemoveAt
<1> HIDE DEF low, high
<1>4. /\ both \in Seq(Int) /\ Len(both) = Len(low) + Len(high)
      /\ \A l \in 1 .. Len(low) + Len(high) :
           both[l] = IF l <= Len(low) THEN low[l] ELSE high[l - Len(low)]
  BY <1>1, <1>2, ConcatProperties, Zenon
<1> HIDE DEF both
<1>5. Len(s) \in Nat /\ Len(both) = Len(s) - 1
  BY <1>1, <1>2, <1>4
<1>6. ASSUME NEW l \in 1 .. Len(s) - 1
      PROVE  both[l] = IF l < k THEN s[l] ELSE s[l + 1]
  <2>1. both[l] = IF l <= k - 1 THEN low[l] ELSE high[l - (k - 1)]
    BY <1>1, <1>2, <1>4, <1>5
  <2>2. CASE l < k
    BY <2>1, <2>2, <1>1, <1>5
  <2>3. CASE l >= k
    <3>1. l - (k - 1) \in 1 .. Len(s) - k /\ k + (l - (k - 1)) = l + 1
      BY <2>3, <1>5
    <3>2. high[l - (k - 1)] = s[l + 1]
      BY <3>1, <1>2
    <3> QED  BY <2>1, <2>3, <3>2, <1>5
  <2> QED  BY <2>2, <2>3, <1>5
<1> QED  BY <1>3, <1>4, <1>5, <1>6

(* A quotient that is rounded up. *)
LEMMA CeilBounds ==
  ASSUME NEW a \in Int, NEW b \in Nat \ {0}
  PROVE  /\ Ceil(a, b) \in Int
         /\ a <= Ceil(a, b) * b
         /\ Ceil(a, b) * b < a + b
BY DivBounds DEF Ceil

(* The channels of a rank x that is not the whole sum r of its row, with the *)
(* sum t of all rows.                                                        *)
LEMMA MinMax ==
  ASSUME NEW x \in Nat \ {0}, NEW r \in Nat, NEW t \in Nat, x + 1 <= r, r <= t
  PROVE  /\ 1 <= Ceil(x * 8, r)
         /\ Ceil(x * 8, r) <= 8
         /\ (x * 7) \div t <= Ceil(x * 8, r)
<1> DEFINE q == Ceil(x * 8, r)
           p == (x * 7) \div t
<1>1. q \in Int /\ x * 8 <= q * r /\ q * r < x * 8 + r
  BY CeilBounds
<1>2. p \in Int /\ p * t <= x * 7
  BY DivBounds
<1> HIDE DEF q, p
<1>3. 1 <= q
  BY <1>1
<1>4. q <= 8
  BY <1>1
<1>5. p <= q
  <2>1. SUFFICES ASSUME p >= q + 1 PROVE FALSE
    BY <1>1, <1>2
  <2>2. (q + 1) * r <= p * r
    BY <2>1, <1>1, <1>2
  <2>3. p * r <= p * t
    BY <2>1, <1>3, <1>1, <1>2
  <2> QED BY <2>2, <2>3, <1>1, <1>2
<1> QED BY <1>3, <1>4, <1>5 DEF q, p

(* The channels a and b divided among n nodes. *)
LEMMA SharedBounds ==
  ASSUME NEW a \in Int, NEW b \in Int, NEW n \in Nat \ {0}, 1 <= a, a <= b, b <= 8
  PROVE  1 <= Ceil(a, n) /\ Ceil(a, n) <= Ceil(b, n) /\ Ceil(b, n) <= 8
<1> DEFINE q == Ceil(a, n)
           p == Ceil(b, n)
<1>1. /\ q \in Int /\ a <= q * n /\ q * n < a + n
      /\ p \in Int /\ b <= p * n /\ p * n < b + n
  BY CeilBounds
<1> HIDE DEF q, p
<1>2. 1 <= q
  BY <1>1
<1>3. q <= p
  BY <1>1
<1>4. p <= 8
  BY <1>1
<1> QED  BY <1>2, <1>3, <1>4 DEF q, p
-----------------------------------------------------------------------------
(* The intervals of a binary search, whatever the list holds: from an        *)
(* interval the search goes on in the part below or above its middle.        *)

Interval == Int \X Int
Middle(p) == (p[1] + p[2]) \div 2
Lower(p) == <<p[1], Middle(p) - 1>>
Upper(p) == <<Middle(p) + 1, p[2]>>
Closed(T) == \A p \in T : p[1] <= p[2] => Lower(p) \in T /\ Upper(p) \in T

\* The intervals that a search which is at q can come to.
Within(q) == {p \in Interval : \A T \in SUBSET Interval : q \in T /\ Closed(T) => p \in T}

\* A value with g elements below it can still lie in the interval.
Covers(p, g) == p[1] - 1 <= g /\ g <= p[2]

\* The search for a value that has g elements below it and is not listed returns
\* at p with the neighbours lo and lo + 1.
Stops(p, g, lo) == \/ Middle(p) = p[1] + 1 /\ g <= p[1] /\ lo = p[1]
                   \/ Middle(p) + 1 = p[2] /\ g >= p[2] - 1 /\ lo = p[2] - 1

(* The middle of an interval and its two parts.                              *)
LEMMA Parts ==
  ASSUME NEW p \in Interval
  PROVE  /\ Middle(p) \in Int /\ Lower(p) \in Interval /\ Upper(p) \in Interval
         /\ p[1] <= p[2] => p[1] <= Middle(p) /\ Middle(p) <= p[2]
         /\ 2 * Middle(p) <= p[1] + p[2] /\ p[1] + p[2] <= 2 * Middle(p) + 1
         /\ Lower(p)[1] = p[1] /\ Lower(p)[2] = Middle(p) - 1
         /\ Upper(p)[1] = Middle(p) + 1 /\ Upper(p)[2] = p[2]
<1>1. p[1] \in Int /\ p[2] \in Int
  BY DEF Interval
<1>2. /\ Middle(p) \in Int
      /\ 2 * Middle(p) <= p[1] + p[2] /\ p[1] + p[2] <= 2 * Middle(p) + 1
  BY <1>1 DEF Middle
<1>3. p[1] <= p[2] => p[1] <= Middle(p) /\ Middle(p) <= p[2]
  BY <1>1, <1>2
<1> QED  BY <1>1, <1>2, <1>3 DEF Lower, Upper, Interval

(* A search is where it is, and can go on in both parts.                     *)
LEMMA WithinClosed ==
  ASSUME NEW q \in Interval
  PROVE  q \in Within(q) /\ Within(q) \in SUBSET Interval /\ Closed(Within(q))
<1>1. q \in Within(q) /\ Within(q) \in SUBSET Interval
  BY DEF Within
<1>2. ASSUME NEW p \in Within(q), p[1] <= p[2]
      PROVE  Lower(p) \in Within(q) /\ Upper(p) \in Within(q)
  <2>1. p \in Interval /\ Lower(p) \in Interval /\ Upper(p) \in Interval
    BY <1>2, Parts DEF Within
  <2>2. ASSUME NEW T \in SUBSET Interval, q \in T, Closed(T)
        PROVE  Lower(p) \in T /\ Upper(p) \in T
    BY <1>2, <2>2 DEF Within, Closed
  <2> QED  BY <2>1, <2>2 DEF Within
<1> QED  BY <1>1, <1>2 DEF Closed

(* Beyond q a search is in one of its parts.                                 *)
LEMMA WithinParts ==
  ASSUME NEW q \in Interval, NEW p \in Within(q), p # q
  PROVE  p \in Within(Lower(q)) \/ p \in Within(Upper(q))
<1> DEFINE T == {q} \union Within(Lower(q)) \union Within(Upper(q))
<1>1. /\ Lower(q) \in Interval /\ Upper(q) \in Interval
  BY Parts
<1>2. /\ Lower(q) \in Within(Lower(q)) /\ Within(Lower(q)) \in SUBSET Interval
      /\ Upper(q) \in Within(Upper(q)) /\ Within(Upper(q)) \in SUBSET Interval
      /\ Closed(Within(Lower(q))) /\ Closed(Within(Upper(q)))
  BY <1>1, WithinClosed
<1>3. Closed(T)
  BY <1>2 DEF Closed
<1>4. T \in SUBSET Interval /\ q \in T
  BY <1>2
<1> QED  BY <1>3, <1>4 DEF Within

(* A search never leaves the interval it is at, and ends one short of it.    *)
LEMMA WithinBounds ==
  ASSUME NEW q \in Interval, q[1] <= q[2] + 1, NEW p \in Within(q)
  PROVE  p \in Interval /\ q[1] <= p[1] /\ p[1] <= p[2] + 1 /\ p[2] <= q[2]
<1> DEFINE T == {r \in Interval : q[1] <= r[1] /\ r[1] <= r[2] + 1 /\ r[2] <= q[2]}
<1>1. ASSUME NEW r \in T, r[1] <= r[2] PROVE Lower(r) \in T /\ Upper(r) \in T
  <2>1. r \in Interval /\ r[1] \in Int /\ r[2] \in Int /\ q[1] \in Int /\ q[2] \in Int
    BY DEF Interval
  <2>2. /\ Middle(r) \in Int /\ Lower(r) \in Interval /\ Upper(r) \in Interval
        /\ r[1] <= Middle(r) /\ Middle(r) <= r[2]
        /\ Lower(r)[1] = r[1] /\ Lower(r)[2] = Middle(r) - 1
        /\ Upper(r)[1] = Middle(r) + 1 /\ Upper(r)[2] = r[2]
    BY <1>1, <2>1, Parts
  <2> QED  BY <1>1, <2>1, <2>2
<1>2. Closed(T) /\ T \in SUBSET Interval
  BY <1>1 DEF Closed
<1>3. q \in T
  BY DEF Interval
<1> QED  BY <1>2, <1>3 DEF Within

(* All searches for a value with g elements below it take the same way.      *)
LEMMA OneWay ==
  ASSUME NEW r \in Interval, r[1] <= r[2] + 1, NEW g \in Int,
         NEW p \in Within(r), NEW q \in Within(r), Covers(p, g), Covers(q, g)
  PROVE  p \in Within(q) \/ q \in Within(p)
<1> DEFINE T == {j \in Interval : /\ j[1] <= j[2] + 1
                                  /\ p \in Within(j) \/ j \in Within(p) \/ ~Covers(j, g)}
<1>1. p \in Interval /\ q \in Interval /\ p[1] \in Int /\ p[2] \in Int
  BY DEF Within, Interval
<1>2. ASSUME NEW j \in T, j[1] <= j[2] PROVE Lower(j) \in T /\ Upper(j) \in T
  <2>1. j \in Interval /\ j[1] \in Int /\ j[2] \in Int
    BY DEF Interval
  <2>2. /\ Middle(j) \in Int /\ Lower(j) \in Interval /\ Upper(j) \in Interval
        /\ j[1] <= Middle(j) /\ Middle(j) <= j[2]
        /\ Lower(j)[1] = j[1] /\ Lower(j)[2] = Middle(j) - 1
        /\ Upper(j)[1] = Middle(j) + 1 /\ Upper(j)[2] = j[2]
    BY <1>2, <2>1, Parts
  <2>3. Lower(j)[1] <= Lower(j)[2] + 1 /\ Upper(j)[1] <= Upper(j)[2] + 1
    BY <2>1, <2>2
  <2>4. CASE j \in Within(p)
    <3>1. Lower(j) \in Within(p) /\ Upper(j) \in Within(p)
      BY <1>1, <1>2, <2>4, WithinClosed DEF Closed
    <3> QED  BY <2>2, <2>3, <3>1
  <2>5. CASE ~Covers(j, g)
    <3>1. ~Covers(Lower(j), g) /\ ~Covers(Upper(j), g)
      BY <2>1, <2>2, <2>5 DEF Covers
    <3> QED  BY <2>2, <2>3, <3>1
  <2>6. CASE p \in Within(j) /\ p # j /\ p \in Within(Lower(j))
    <3>1. p[2] <= Lower(j)[2]
      BY <2>2, <2>3, <2>6, WithinBounds
    <3>2. ~Covers(Upper(j), g)
      BY <1>1, <2>1, <2>2, <3>1 DEF Covers
    <3> QED  BY <2>2, <2>3, <2>6, <3>2
  <2>7. CASE p \in Within(j) /\ p # j /\ p \in Within(Upper(j))
    <3>1. Upper(j)[1] <= p[1]
      BY <2>2, <2>3, <2>7, WithinBounds
    <3>2. ~Covers(Lower(j), g)
      BY <1>1, <2>1, <2>2, <3>1 DEF Covers
    <3> QED  BY <2>2, <2>3, <2>7, <3>2
  <2>8. p \in Within(p)
    BY <1>1, WithinClosed
  <2> QED  BY <2>1, <2>4, <2>5, <2>6, <2>7, <2>8, WithinParts
<1>3. Closed(T) /\ T \in SUBSET Interval
  BY <1>2 DEF Closed
<1>4. r \in T
  OBVIOUS
<1>5. q \in T
  BY <1>3, <1>4 DEF Within
<1> QED  BY <1>5

(* They return with the same neighbours: where a search stops nothing of two *)
(* elements is left for one that goes on.                                    *)
LEMMA OneStop ==
  ASSUME NEW p \in Interval, NEW q \in Within(p), NEW g \in Int,
         NEW lo \in Int, NEW hi \in Int, p[1] <= p[2] + 1, Covers(p, g), Covers(q, g),
         Stops(p, g, lo), Stops(q, g, hi)
  PROVE  lo = hi
<1>1. /\ q \in Interval /\ p[1] \in Int /\ p[2] \in Int /\ q[1] \in Int /\ q[2] \in Int
  BY DEF Within, Interval
<1>2. /\ Middle(p) \in Int /\ Lower(p) \in Interval /\ Upper(p) \in Interval
      /\ Lower(p)[1] = p[1] /\ Lower(p)[2] = Middle(p) - 1
      /\ Upper(p)[1] = Middle(p) + 1 /\ Upper(p)[2] = p[2]
      /\ 2 * Middle(p) <= p[1] + p[2] /\ p[1] + p[2] <= 2 * Middle(p) + 1
  BY Parts
<1>3. /\ Middle(q) \in Int
      /\ 2 * Middle(q) <= q[1] + q[2] /\ q[1] + q[2] <= 2 * Middle(q) + 1
  BY <1>1, Parts
<1>4. q[1] < q[2]
  BY <1>1, <1>3 DEF Stops
<1>5. p[1] < p[2]
  BY <1>1, <1>2 DEF Stops
<1>6. CASE q = p
  BY <1>1, <1>2, <1>6 DEF Stops
<1>7. CASE q \in Within(Lower(p))
  <2>1. q[1] >= p[1] /\ q[2] <= Middle(p) - 1
    BY <1>1, <1>2, <1>5, <1>7, WithinBounds
  <2> QED  BY <1>1, <1>2, <1>4, <2>1 DEF Stops, Covers
<1>8. CASE q \in Within(Upper(p))
  <2>1. q[1] >= Middle(p) + 1 /\ q[2] <= p[2]
    BY <1>1, <1>2, <1>5, <1>8, WithinBounds
  <2> QED  BY <1>1, <1>2, <1>4, <2>1 DEF Stops, Covers
<1> QED  BY <1>6, <1>7, <1>8, WithinParts

-----------------------------------------------------------------------------
(* The inductive invariant. *)

\* Thinning: prevVal is the last element before i.
ThinPlace ==
  pc = "thin" => /\ prevVal = IF i = 0 THEN -1 ELSE br_unique_list[i]
                 /\ retVal = <<-1, -1, -1>> /\ row = 1 /\ col = 1

\* What is before i is thinned out.
ThinInv ==
  pc = "thin" =>
    /\ Ascending(br_unique_list)
    /\ \A k, l \in 1 .. N : br_unique_list[k] > 0 /\ k < l /\ l <= i =>
          br_unique_list[l] - br_unique_list[k] >= MIN_DIFF_FOR_INFER_RELATIONSHIP
    /\ \A v \in (UNION {Range(br[r]) : r \in DC}) \ Range(br_unique_list) :
          \E k \in 1 .. i : /\ 0 < br_unique_list[k] /\ br_unique_list[k] < v
                           /\ v - br_unique_list[k] < MIN_DIFF_FOR_INFER_RELATIONSHIP

\* The search: a listed bandwidth stays in the interval; when it is over, the
\* bandwidth was found or is not listed.
SearchInv ==
  /\ pc = "search" =>
       \A k \in 1 .. N - 1 : At(k) = searchEle => start <= k /\ k <= end
  /\ pc = "rank" =>
       IF retVal[2] > 0 THEN retVal[2] \in 1 .. N - 1 /\ At(retVal[2]) = searchEle
       ELSE \A k \in 1 .. N - 1 : At(k) # searchEle

\* Of the list's elements behind the first, those up to g are below b and the
\* others above it.
Gap(g, b) ==
  /\ g \in 0 .. N - 1
  /\ \A k \in 1 .. N - 1 : IF k <= g THEN At(k) < b ELSE At(k) > b

\* The neighbours lo and lo + 1 are those the search for b returns with.
Neighbours(b, lo) ==
  /\ lo \in 1 .. N - 2
  /\ \E g \in 0 .. N - 1 :
        /\ Gap(g, b)
        /\ \E p \in Within(<<1, N - 1>>) : Covers(p, g) /\ Stops(p, g, lo)

\* Nearest, for the bandwidth b and the neighbours lo and lo + 1.
Closer(b, lo) == IF Distance(At(lo), b) > Distance(At(lo + 1), b) THEN lo + 1 ELSE lo

\* The position that the rank of a bandwidth counts from.
Settled(b, k) ==
  /\ k \in 1 .. N - 1
  /\ At(k) = b \/ \E lo \in 1 .. N - 2 : Neighbours(b, lo) /\ k = Closer(b, lo)

\* The search: what is left of its interval is below the bandwidth and what is
\* right of it above; a result that is no match is one that only the bandwidth's
\* place in the list decides.
WayInv ==
  /\ pc = "search" =>
       /\ <<start, end>> \in Within(<<1, N - 1>>) /\ mid = Middle(<<start, end>>)
       /\ \A k \in 1 .. N - 1 : k < start => At(k) < searchEle
       /\ \A k \in 1 .. N - 1 : k > end => At(k) > searchEle
  /\ pc = "rank" =>
       \/ retVal[2] > 0
       \/ retVal[1] = -1 /\ retVal[2] = -1 /\ retVal[3] = -1
       \/ retVal[2] = -1 /\ Neighbours(searchEle, retVal[1]) /\ retVal[3] = retVal[1] + 1

\* A rank that counts the list from the top down counts from a settled position.
SettledInv ==
  \A p \in Pairs : Ranked(p[1], p[2]) /\ rel[p[1]][p[2]] <= N =>
      Settled(br[p[1]][p[2]], N - rel[p[1]][p[2]] + 1)

\* The diagonal keeps its one.
DiagonalOne == \A r \in DC : rel[r][r] = 1

Summed(r, c) == pc \in {"channels", "done"} \/ (pc = "sum" /\ Before(r, c))

\* The sums: that of a row is at least two of the ranks added to it, that of
\* all rows is at least that of one.
SumInv ==
  /\ \A r \in DC : resultRowWise[r] <= resultAll
  /\ \A r, c \in DC : Summed(r, c) => rel[r][c] <= resultRowWise[r]
  /\ \A r, c, e \in DC : c # e /\ Summed(r, c) /\ Summed(r, e) =>
        rel[r][c] + rel[r][e] <= resultRowWise[r]

Distributed(r, c) == pc = "done" \/ (pc = "channels" /\ Before(r, c))

\* The channels handed out so far.
ChannelInv ==
  \A r, c \in DC : Distributed(r, c) =>
    1 <= chAllMin[r][c] /\ chAllMin[r][c] <= chAllMax[r][c] /\ chAllMax[r][c] <= 8

\* The type invariant in parts, one for each group of variables.
TypeThin == /\ br_unique_list \in Seq(Int) /\ N >= 1
            /\ i \in 0 .. N /\ prevVal \in Int
TypeCell == /\ br \in [DC -> [DC -> Nat \union {Diagonal}]]
            /\ pc \in {"thin", "pair", "search", "rank", "sum", "channels", "done"}
            /\ row \in 1 .. numDCs + 1 /\ col \in DC
            /\ pc \in {"search", "rank"} => row # col /\ row \in DC
TypeSearch ==
  /\ start \in Int /\ end \in Int /\ mid \in Int
  /\ pc = "search" /\ start <= end => 1 <= start /\ start <= mid /\ mid <= end /\ end < N
  /\ retVal \in [1 .. 3 -> {-1} \union 1 .. N]
TypeRanks ==
  /\ rel \in [DC -> [DC -> Nat \ {0}]]
  /\ resultRowWise \in [DC -> Nat] /\ resultAll \in Nat
TypeChannels ==
  chAllMin \in [DC -> [DC -> Int]] /\ chAllMax \in [DC -> [DC -> Int]]

IInv == /\ TypeOK /\ ThinPlace /\ ThinInv /\ ThinnedOut /\ SearchInv /\ ListedRank
        /\ WayInv /\ SettledInv /\ DiagonalOne /\ SumInv /\ ChannelInv

-----------------------------------------------------------------------------
(* Every part of the invariant holds initially and is kept by every step.    *)

(* The initial states satisfy the invariant. *)
THEOREM InitIInv == Init => IInv
<1> SUFFICES ASSUME Init PROVE IInv
  OBVIOUS
<1>1. PICK f \in Predictions : br = Matrix(f) /\ br_unique_list = sorted(f)
  BY DEF Init
<1>2. /\ DC \subseteq Nat /\ 1 \in DC /\ 2 \in DC
      /\ f \in [Pairs -> Nat]
  BY DataAssumption DEF DC
<1>3. \A r, c \in DC : br[r][c] = IF r = c THEN Diagonal ELSE f[<<r, c>>]
  BY <1>1 DEF Matrix
<1>4. \A r, c \in DC : r # c => <<r, c>> \in Pairs
  BY DEF Pairs
<1>5. br \in [DC -> [DC -> Nat \union {Diagonal}]]
  BY <1>1, <1>2, <1>4 DEF Matrix
<1>6. Values(f) \subseteq Int /\ Values(f) # {}
  BY <1>2 DEF Values, Range, Diagonal
<1>7. /\ br_unique_list \in Seq(Int) /\ Range(br_unique_list) = Values(f)
      /\ Ascending(br_unique_list)
  <2>1. br_unique_list \in Seq(Values(f))
    BY <1>1, SortAssumption
  <2> QED  BY <2>1, <1>1, <1>6, SortAssumption
<1>8. N \in Nat /\ N >= 1
  BY <1>6, <1>7 DEF N, Range
<1>9. ASSUME NEW r \in DC, NEW v \in Range(br[r]) PROVE v \in Range(br_unique_list)
  <2>1. PICK c \in DC : v = br[r][c]
    BY <1>5 DEF Range
  <2>2. DOMAIN f = Pairs
    BY <1>2
  <2> QED  BY <2>1, <2>2, <1>3, <1>4, <1>7 DEF Values, Range
<1>10. TypeOK
  <2>1. retVal \in [1 .. 3 -> {-1} \union 1 .. N]
    BY DEF Init
  <2>2. /\ rel \in [DC -> [DC -> Nat \ {0}]]
        /\ chAllMin \in [DC -> [DC -> Int]] /\ chAllMax \in [DC -> [DC -> Int]]
    BY DEF Init, Ones
  <2>3. row \in 1 .. numDCs + 1 /\ col \in DC
    BY <1>2, DataAssumption DEF Init
  <2> QED  BY <1>5, <1>7, <1>8, <2>1, <2>2, <2>3 DEF Init, TypeOK
<1>11. ThinPlace /\ ThinInv
  <2>1. i = 0 /\ prevVal = -1 /\ retVal = <<-1, -1, -1>> /\ row = 1 /\ col = 1
    BY DEF Init
  <2>2. \A k, l \in 1 .. N : ~(l <= i)
    BY <2>1, <1>8
  <2>3. (UNION {Range(br[r]) : r \in DC}) \ Range(br_unique_list) = {}
    BY <1>9, Zenon
  <2> QED  BY <2>1, <2>2, <2>3, <1>7 DEF ThinPlace, ThinInv
<1>12. ThinnedOut /\ SearchInv /\ ListedRank /\ WayInv /\ SettledInv /\ ChannelInv
  BY DEF Init, ThinnedOut, SearchInv, ListedRank, WayInv, SettledInv, Ranked, ChannelInv,
         Distributed
<1>13. DiagonalOne /\ SumInv
  BY DEF Init, DiagonalOne, SumInv, Summed, Ones
<1> QED  BY <1>10, <1>11, <1>12, <1>13 DEF IInv

(* The parts of the type invariant make it up. *)
LEMMA TypeParts ==
  TypeOK <=> TypeThin /\ TypeCell /\ TypeSearch /\ TypeRanks /\ TypeChannels
BY DEF TypeOK, TypeThin, TypeCell, TypeSearch, TypeRanks, TypeChannels

(* The data centers. *)
LEMMA Centers == /\ numDCs \in Nat /\ numDCs >= 2
                 /\ DC = 1 .. numDCs /\ 1 \in DC
BY DataAssumption DEF DC

(* The cells behind the current one become the cells behind the next one. *)
LEMMA NextCellIs ==
  ASSUME TypeCell, row <= numDCs, NextCell
  PROVE  /\ row' \in 1 .. numDCs + 1 /\ col' \in DC
         /\ \A r, c \in DC : Before(r, c)' <=> Before(r, c) \/ (r = row /\ c = col)
<1>1. /\ numDCs \in Nat /\ DC = 1 .. numDCs /\ 1 \in DC
      /\ row \in 1 .. numDCs /\ col \in 1 .. numDCs
  BY Centers DEF TypeCell
<1>2. CASE col < numDCs
  BY <1>1, <1>2 DEF NextCell, Before
<1>3. CASE ~(col < numDCs)
  BY <1>1, <1>3 DEF NextCell, Before
<1> QED  BY <1>2, <1>3

(* A removal keeps the type of the list, which does not become empty. *)
LEMMA DropIs ==
  ASSUME TypeThin, ThinPlace, Drop
  PROVE  /\ i \in 1 .. N - 1 /\ N \in Nat /\ N' = N - 1
         /\ br_unique_list' \in Seq(Int)
         /\ \A k \in 1 .. N - 1 : br_unique_list'[k] =
              IF k < i + 1 THEN br_unique_list[k] ELSE br_unique_list[k + 1]
         /\ prevVal = br_unique_list[i] /\ prevVal' = br_unique_list[i]
         /\ prevVal > 0
<1>1. N = Len(br_unique_list) /\ N \in Nat
  BY DEF TypeThin, N
<1>2. i # 0 /\ prevVal > 0 /\ prevVal = br_unique_list[i]
  BY DEF Drop, TooClose, ThinPlace, TypeThin
<1>3. i \in 1 .. N - 1 /\ i + 1 \in 1 .. Len(br_unique_list)
  BY <1>1, <1>2 DEF Drop, TypeThin
<1>4. /\ RemoveAt(br_unique_list, i + 1) \in Seq(Int)
      /\ Len(RemoveAt(br_unique_list, i + 1)) = N - 1
      /\ \A l \in 1 .. N - 1 : RemoveAt(br_unique_list, i + 1)[l] =
           IF l < i + 1 THEN br_unique_list[l] ELSE br_unique_list[l + 1]
  BY <1>1, <1>3, RemoveAtIs DEF TypeThin
<1>5. At(i - 1) = br_unique_list[i]
  BY <1>3, <1>1 DEF At
<1> QED  BY <1>1, <1>2, <1>3, <1>4, <1>5 DEF Drop, N

(* The list and the loop that thins it out keep their types. *)
LEMMA ThinTyped == IInv /\ [Next]_vars => TypeThin'
<1> SUFFICES ASSUME IInv, [Next]_vars PROVE TypeThin'
  OBVIOUS
<1>1. TypeThin /\ ThinPlace /\ N = Len(br_unique_list) /\ N \in Nat
  BY TypeParts DEF IInv, TypeThin, N
<1>2. CASE Drop
  <2>1. br_unique_list[i] \in Int /\ i' = i
    BY <1>1, <1>2, DropIs DEF TypeThin, Drop
  <2> QED  BY <1>1, <1>2, <2>1, DropIs DEF TypeThin
<1>3. CASE Retain
  BY <1>1, <1>3 DEF TypeThin, Retain, At, N
<1>4. CASE UNCHANGED thinning
  BY <1>1, <1>4 DEF TypeThin, thinning, N
<1> QED
  BY <1>2, <1>3, <1>4
     DEF Next, Thinned, SkipDiagonal, BeginSearch, Match, GoLower, GoHigher, GiveUp,
         AssignRank, LoopsEnd, AddRank, Distribute, Finished, vars

(* The loops over the matrices stay on their cells. *)
LEMMA CellTyped == IInv /\ [Next]_vars => TypeCell'
<1> SUFFICES ASSUME IInv, [Next]_vars PROVE TypeCell'
  OBVIOUS
<1>1. TypeCell
  BY TypeParts DEF IInv
<1>2. CASE SkipDiagonal \/ AssignRank \/ AddRank \/ Distribute
  <2>1. row' \in 1 .. numDCs + 1 /\ col' \in DC
    BY <1>1, <1>2, Centers, NextCellIs
       DEF TypeCell, SkipDiagonal, AssignRank, AddRank, Distribute
  <2> QED
    BY <1>1, <1>2, <2>1 DEF TypeCell, SkipDiagonal, AssignRank, AddRank, Distribute
<1>3. CASE LoopsEnd("pair", "sum") \/ LoopsEnd("sum", "channels")
           \/ LoopsEnd("channels", "done")
  BY <1>1, <1>3, Centers DEF TypeCell, LoopsEnd
<1>4. CASE BeginSearch
  BY <1>1, <1>4, Centers DEF TypeCell, BeginSearch, cell
<1>5. CASE Match \/ GoLower \/ GoHigher \/ GiveUp
  BY <1>1, <1>5 DEF TypeCell, Match, GoLower, GoHigher, GiveUp, Result, cell
<1>6. CASE Drop \/ Retain \/ Thinned
  BY <1>1, <1>6 DEF TypeCell, Drop, Retain, Thinned, cell
<1>7. CASE Finished \/ UNCHANGED vars
  BY <1>1, <1>7 DEF TypeCell, Finished, vars, cell
<1> QED  BY <1>2, <1>3, <1>4, <1>5, <1>6, <1>7 DEF Next

(* The search keeps its interval, and the result it returns, in the list. *)
LEMMA SearchTyped == IInv /\ [Next]_vars => TypeSearch'
<1> SUFFICES ASSUME IInv, [Next]_vars PROVE TypeSearch'
  OBVIOUS
<1>1. /\ TypeThin /\ ThinPlace /\ TypeSearch
      /\ N = Len(br_unique_list) /\ N \in Nat /\ N >= 1
  BY TypeParts DEF IInv, TypeThin, N
<1>2. CASE Drop
  <2>1. N' = N - 1 /\ retVal' = <<-1, -1, -1>> /\ pc' # "search"
    BY <1>1, <1>2, DropIs DEF Drop, ThinPlace, search
  <2>2. (retVal \in [1 .. 3 -> {-1} \union 1 .. N])'
    BY <2>1
  <2> QED  BY <1>1, <1>2, <2>1, <2>2 DEF TypeSearch, Drop, search
<1>3. CASE BeginSearch
  <2>1. mid' \in Int /\ (1 <= N - 1 => 1 <= mid' /\ mid' <= N - 1)
    BY <1>1, <1>3, DivBounds DEF BeginSearch
  <2> QED  BY <1>1, <1>3, <2>1 DEF TypeSearch, BeginSearch, thinning, N
<1>4. CASE Match \/ GiveUp
  BY <1>1, <1>4 DEF TypeSearch, Match, GiveUp, Result, thinning, N
<1>5. CASE GoLower
  <2>1. CASE mid - 1 = start /\ At(mid - 1) # searchEle
    BY <1>1, <1>5, <2>1 DEF TypeSearch, GoLower, Result, thinning, N
  <2>2. CASE ~(mid - 1 = start /\ At(mid - 1) # searchEle)
    <3>1. mid' \in Int /\ (start <= mid - 1 => start <= mid' /\ mid' <= mid - 1)
      BY <1>1, <1>5, <2>2, DivBounds DEF TypeSearch, GoLower
    <3> QED  BY <1>1, <1>5, <2>2, <3>1 DEF TypeSearch, GoLower, thinning, N
  <2> QED  BY <2>1, <2>2
<1>6. CASE GoHigher
  <2>1. CASE mid + 1 = end /\ At(mid + 1) # searchEle
    BY <1>1, <1>6, <2>1 DEF TypeSearch, GoHigher, Result, thinning, N
  <2>2. CASE ~(mid + 1 = end /\ At(mid + 1) # searchEle)
    <3>1. mid' \in Int /\ (mid + 1 <= end => mid + 1 <= mid' /\ mid' <= end)
      BY <1>1, <1>6, <2>2, DivBounds DEF TypeSearch, GoHigher
    <3> QED  BY <1>1, <1>6, <2>2, <3>1 DEF TypeSearch, GoHigher, thinning, N
  <2> QED  BY <2>1, <2>2
<1>7. CASE /\ UNCHANGED <<br_unique_list, start, end, mid, retVal>>
           /\ pc' = "search" => pc = "search"
  BY <1>1, <1>7 DEF TypeSearch, N
<1> QED
  BY <1>2, <1>3, <1>4, <1>5, <1>6, <1>7
     DEF Next, Retain, Thinned, SkipDiagonal, AssignRank, LoopsEnd, AddRank,
         Distribute, Finished, vars, thinning, search

(* Ranks are positive and their sums numbers. *)
LEMMA RanksTyped == IInv /\ [Next]_vars => TypeRanks'
<1> SUFFICES ASSUME IInv, [Next]_vars PROVE TypeRanks'
  OBVIOUS
<1>1. /\ TypeThin /\ TypeCell /\ TypeSearch /\ TypeRanks /\ N \in Nat
  BY TypeParts DEF IInv, TypeThin, N
<1>2. CASE AssignRank
  <2>1. /\ row \in DC /\ col \in DC
        /\ Nearest \in {-1} \union 1 .. N /\ retVal[2] \in {-1} \union 1 .. N
    BY <1>1, <1>2 DEF TypeSearch, TypeCell, AssignRank, Nearest
  <2>2. N - (IF retVal[2] > 0 THEN retVal[2] ELSE Nearest) + 1 \in Nat \ {0}
    BY <1>1, <2>1
  <2> QED  BY <1>1, <1>2, <2>1, <2>2 DEF TypeRanks, AssignRank, sums
<1>3. CASE AddRank
  <2>1. row \in DC /\ col \in DC
    BY <1>1, <1>3, Centers DEF TypeCell, AddRank
  <2> QED  BY <1>1, <1>3, <2>1 DEF TypeRanks, AddRank
<1>4. CASE UNCHANGED <<rel, resultRowWise, resultAll>>
  BY <1>1, <1>4 DEF TypeRanks
<1> QED
  BY <1>2, <1>3, <1>4
     DEF Next, Drop, Retain, Thinned, SkipDiagonal, BeginSearch, Match, GoLower, GoHigher,
         GiveUp, LoopsEnd, Distribute, Finished, vars, sums

(* Channels are numbers, as no sum they are divided by is zero. *)
LEMMA ChannelsTyped == IInv /\ [Next]_vars => TypeChannels'
<1> SUFFICES ASSUME IInv, [Next]_vars PROVE TypeChannels'
  OBVIOUS
<1>1. TypeCell /\ TypeRanks /\ TypeChannels
  BY TypeParts DEF IInv
<1>2. CASE Distribute
  <2>1. row \in DC /\ col \in DC /\ rel[row][col] \in Nat \ {0}
    BY <1>1, <1>2, Centers DEF TypeCell, TypeRanks, Distribute
  <2>2. rel[row][col] <= resultRowWise[row] /\ resultRowWise[row] <= resultAll
    BY <1>2, <2>1 DEF IInv, SumInv, Summed, Distribute
  <2>3. resultRowWise[row] \in Nat \ {0} /\ resultAll \in Nat \ {0}
    BY <1>1, <2>1, <2>2 DEF TypeRanks
  <2>4. /\ (rel[row][col] * (CHANNELS_FACTOR - 1)) \div resultAll \in Int
        /\ Ceil(rel[row][col] * CHANNELS_FACTOR, resultRowWise[row]) \in Int
    <3>1. /\ rel[row][col] * (CHANNELS_FACTOR - 1) \in Int
          /\ rel[row][col] * CHANNELS_FACTOR \in Int
      BY <2>1 DEF CHANNELS_FACTOR
    <3> QED  BY <3>1, <2>3, DivBounds, CeilBounds
  <2>5. MinChannels(rel[row][col]) \in Int /\ MaxChannels(rel[row][col]) \in Int
    BY <2>4 DEF MinChannels, MaxChannels, AtLeast
  <2>6. PICK x \in Int, y \in Int :
          /\ chAllMin' = [chAllMin EXCEPT ![row][col] = x]
          /\ chAllMax' = [chAllMax EXCEPT ![row][col] = y]
    <3>1. CASE row # col
      BY <1>2, <2>5, <3>1 DEF Distribute
    <3>2. CASE row = col
      BY <1>2, <2>1, <3>2 DEF Distribute
    <3> QED  BY <3>1, <3>2
  <2> QED  BY <1>1, <2>1, <2>6 DEF TypeChannels
<1>3. CASE UNCHANGED channels
  BY <1>1, <1>3 DEF TypeChannels, channels
<1> QED
  BY <1>2, <1>3
     DEF Next, Drop, Retain, Thinned, SkipDiagonal, BeginSearch, Match, GoLower, GoHigher,
         GiveUp, AssignRank, LoopsEnd, AddRank, Finished, vars

(* Together they keep the type invariant. *)
LEMMA TypeStep == IInv /\ [Next]_vars => TypeOK'
<1> SUFFICES ASSUME IInv, [Next]_vars PROVE TypeOK'
  OBVIOUS
<1>1. TypeThin' /\ TypeCell' /\ TypeSearch' /\ TypeRanks' /\ TypeChannels'
  BY ThinTyped, CellTyped, SearchTyped, RanksTyped, ChannelsTyped
<1> QED  BY <1>1 DEF TypeOK, TypeThin, TypeCell, TypeSearch, TypeRanks, TypeChannels

(* Thinning: a removal takes out the element that is too close to prevVal,   *)
(* which stays; an element that is passed is far enough from all before it.  *)
LEMMA ThinStep == IInv /\ [Next]_vars => ThinPlace' /\ ThinInv'
<1> SUFFICES ASSUME IInv, [Next]_vars PROVE ThinPlace' /\ ThinInv'
  OBVIOUS
<1> DEFINE Listed == UNION {Range(br[r]) : r \in DC}
<1>1. /\ TypeThin /\ ThinPlace /\ ThinInv
      /\ N = Len(br_unique_list) /\ N \in Nat /\ DOMAIN br_unique_list = 1 .. N
  BY TypeParts DEF IInv, TypeThin, N
<1>2. CASE Drop
  <2> USE DropIs
  <2>1. /\ pc = "thin" /\ i' = i /\ i \in 1 .. N - 1 /\ N' = N - 1
        /\ DOMAIN br_unique_list' = 1 .. N - 1
    BY <1>1, <1>2 DEF Drop, N
  <2>2. \A k \in 1 .. N : br_unique_list[k] \in Int
    BY <1>1 DEF TypeThin
  <2>3. Ascending(br_unique_list)
    BY <1>1, <2>1 DEF ThinInv
  <2>4. Ascending(br_unique_list)'
    <3> DEFINE was(k) == IF k < i + 1 THEN k ELSE k + 1
    <3>1. ASSUME NEW k \in 1 .. N - 1, NEW l \in 1 .. N - 1, k < l
          PROVE  br_unique_list'[k] < br_unique_list'[l]
      <4>1. was(k) \in 1 .. N /\ was(l) \in 1 .. N /\ was(k) < was(l)
        BY <1>1, <2>1, <3>1
      <4>2. br_unique_list'[k] = br_unique_list[was(k)]
        BY <1>1, <1>2, <2>1
      <4>3. br_unique_list'[l] = br_unique_list[was(l)]
        BY <1>1, <1>2, <2>1
      <4> HIDE DEF was
      <4>4. br_unique_list[was(k)] < br_unique_list[was(l)]
        BY <1>1, <2>3, <4>1 DEF Ascending
      <4> QED  BY <4>2, <4>3, <4>4
    <3> QED  BY <2>1, <3>1 DEF Ascending
  <2>5. ASSUME NEW k \in 1 .. N', NEW l \in 1 .. N', br_unique_list'[k] > 0, k < l, l <= i
        PROVE  br_unique_list'[l] - br_unique_list'[k] >= MIN_DIFF_FOR_INFER_RELATIONSHIP
    <3>1. k \in 1 .. N /\ l \in 1 .. N /\ k < i + 1 /\ l < i + 1
      BY <1>1, <2>1, <2>5
    <3>2. br_unique_list'[k] = br_unique_list[k] /\ br_unique_list'[l] = br_unique_list[l]
      BY <1>1, <1>2, <2>1, <3>1
    <3> QED  BY <1>1, <2>1, <2>5, <3>1, <3>2 DEF ThinInv
  <2>6. ASSUME NEW v \in Listed, v \notin Range(br_unique_list)'
        PROVE  \E k \in 1 .. i : /\ 0 < br_unique_list'[k] /\ br_unique_list'[k] < v
                                /\ v - br_unique_list'[k] < MIN_DIFF_FOR_INFER_RELATIONSHIP
    <3>1. \A k \in 1 .. i : br_unique_list'[k] = br_unique_list[k]
      BY <1>1, <1>2, <2>1
    <3>2. CASE v \notin Range(br_unique_list)
      BY <1>1, <2>1, <2>6, <3>1, <3>2 DEF ThinInv
    <3>3. CASE v \in Range(br_unique_list)
      <4>1. PICK m \in 1 .. N : v = br_unique_list[m]
        BY <1>1, <3>3 DEF Range
      <4>2. m = i + 1
        <5>1. CASE m < i + 1
          <6>1. m \in 1 .. N - 1 /\ br_unique_list'[m] = v
            BY <1>1, <1>2, <2>1, <4>1, <5>1
          <6> QED  BY <6>1, <2>1, <2>6 DEF Range
        <5>2. CASE m > i + 1
          <6>1. m - 1 \in 1 .. N - 1 /\ (m - 1) + 1 = m /\ ~(m - 1 < i + 1)
            BY <1>1, <2>1, <5>2
          <6>2. br_unique_list'[m - 1] = v
            BY <1>1, <1>2, <4>1, <6>1
          <6> QED  BY <6>1, <6>2, <2>1, <2>6 DEF Range
        <5> QED  BY <5>1, <5>2, <2>1, <1>1
      <4>3. At(i) = br_unique_list[i + 1]
        BY <2>1 DEF At
      <4>4. /\ 0 < br_unique_list[i] /\ br_unique_list[i] < v
            /\ v - br_unique_list[i] < MIN_DIFF_FOR_INFER_RELATIONSHIP
        <5>1. prevVal = br_unique_list[i] /\ prevVal > 0 /\ At(i) = v
          BY <1>1, <1>2, <4>1, <4>2, <4>3
        <5>2. At(i) - prevVal < MIN_DIFF_FOR_INFER_RELATIONSHIP
          BY <1>2 DEF Drop, TooClose
        <5>3. br_unique_list[i] < br_unique_list[i + 1]
          BY <1>1, <2>1, <2>3 DEF Ascending
        <5> QED  BY <5>1, <5>2, <5>3, <4>3
      <4> QED  BY <4>4, <3>1, <2>1
    <3> QED  BY <3>2, <3>3
  <2>7. (Listed \ Range(br_unique_list))' = Listed \ Range(br_unique_list)'
    BY <1>2 DEF Drop
  <2>8. ThinInv'
    BY <2>1, <2>4, <2>5, <2>6, <2>7 DEF ThinInv
  <2>9. ThinPlace'
    BY <1>1, <1>2, <2>1 DEF ThinPlace, Drop, search, cell
  <2> QED  BY <2>8, <2>9
<1>3. CASE Retain
  <2>1. /\ pc = "thin" /\ i' = i + 1 /\ i \in 0 .. N - 1 /\ N' = N
        /\ UNCHANGED <<br, br_unique_list>>
        /\ At(i) = br_unique_list[i + 1]
    BY <1>1, <1>3 DEF Retain, TypeThin, At, N
  <2>2. \A k \in 1 .. N : br_unique_list[k] \in Int
    BY <1>1 DEF TypeThin
  <2>3. Ascending(br_unique_list)
    BY <1>1, <2>1 DEF ThinInv
  <2>4. ASSUME NEW k \in 1 .. N, NEW l \in 1 .. N, br_unique_list[k] > 0, k < l, l <= i + 1
        PROVE  br_unique_list[l] - br_unique_list[k] >= MIN_DIFF_FOR_INFER_RELATIONSHIP
    <3>1. CASE l <= i
      BY <1>1, <2>1, <2>4, <3>1 DEF ThinInv
    <3>2. CASE l = i + 1
      <4>1. i \in 1 .. N /\ k <= i /\ prevVal = br_unique_list[i]
        BY <1>1, <2>1, <2>4, <3>2 DEF ThinPlace
      <4>2. br_unique_list[k] <= br_unique_list[i] /\ br_unique_list[i] < br_unique_list[l]
        BY <1>1, <2>1, <2>2, <2>3, <3>2, <4>1 DEF Ascending
      <4> QED
        BY <1>3, <2>1, <2>2, <2>4, <3>2, <4>1, <4>2
           DEF Retain, TooClose, MIN_DIFF_FOR_INFER_RELATIONSHIP
    <3> QED  BY <3>1, <3>2, <2>1, <2>4
  <2>5. ASSUME NEW v \in Listed \ Range(br_unique_list)
        PROVE  \E k \in 1 .. i + 1 :
                 /\ 0 < br_unique_list[k] /\ br_unique_list[k] < v
                 /\ v - br_unique_list[k] < MIN_DIFF_FOR_INFER_RELATIONSHIP
    BY <1>1, <2>1 DEF ThinInv
  <2>6. ThinInv'
    BY <2>1, <2>3, <2>4, <2>5 DEF ThinInv
  <2>7. ThinPlace'
    BY <1>1, <1>3, <2>1 DEF ThinPlace, Retain, search, cell
  <2> QED  BY <2>6, <2>7
<1>4. CASE Finished \/ UNCHANGED vars
  BY <1>1, <1>4 DEF Finished, vars, thinning, cell, search, ThinPlace, ThinInv, N
<1>5. CASE pc' # "thin"
  BY <1>5 DEF ThinPlace, ThinInv
<1> QED
  BY <1>2, <1>3, <1>4, <1>5
     DEF Next, Thinned, SkipDiagonal, BeginSearch, Match, GoLower, GoHigher, GiveUp, Result,
         AssignRank, LoopsEnd, AddRank, Distribute

(* After the thinning the list does not change. *)
LEMMA ThinnedStep == IInv /\ [Next]_vars => ThinnedOut'
<1> SUFFICES ASSUME IInv, [Next]_vars PROVE ThinnedOut'
  OBVIOUS
<1>1. /\ TypeThin /\ ThinInv /\ ThinnedOut
      /\ N = Len(br_unique_list) /\ N \in Nat
  BY TypeParts DEF IInv, TypeThin, N
<1>2. CASE Thinned
  BY <1>1, <1>2 DEF Thinned, ThinInv, ThinnedOut, thinning, N
<1>3. CASE Drop \/ Retain
  BY <1>3 DEF Drop, Retain, ThinnedOut
<1>4. CASE pc # "thin" /\ UNCHANGED <<br, br_unique_list>>
  BY <1>1, <1>4 DEF ThinnedOut, N
<1>5. CASE UNCHANGED vars
  BY <1>1, <1>5 DEF ThinnedOut, N, vars, thinning
<1> QED
  BY <1>2, <1>3, <1>4, <1>5
     DEF Next, SkipDiagonal, BeginSearch, Match, GoLower, GoHigher, GiveUp, Result,
         AssignRank, LoopsEnd, AddRank, Distribute, Finished, vars, thinning

(* Python's index k is the element k + 1; on the thinned list a lower index  *)
(* is a lower bandwidth.                                                     *)
LEMMA Indexed ==
  ASSUME TypeThin, ThinnedOut, pc # "thin"
  PROVE  /\ N \in Nat /\ \A k \in 0 .. N - 1 : At(k) \in Int
         /\ \A k, l \in 0 .. N - 1 : k < l => At(k) < At(l)
<1>1. N = Len(br_unique_list) /\ N \in Nat /\ DOMAIN br_unique_list = 1 .. N
  BY DEF TypeThin, N
<1>2. \A k \in 0 .. N - 1 : At(k) = br_unique_list[k + 1] /\ k + 1 \in 1 .. N
  BY <1>1 DEF At
<1>3. \A k, l \in 1 .. N : k < l => br_unique_list[k] < br_unique_list[l]
  BY <1>1, Zenon DEF ThinnedOut, Ascending
<1>4. \A k \in 1 .. N : br_unique_list[k] \in Int
  BY <1>1 DEF TypeThin
<1> QED  BY <1>1, <1>2, <1>3, <1>4

(* Every step of the search keeps a listed bandwidth in the interval, and it *)
(* returns without a match only when there is none.                          *)
LEMMA SearchStep == IInv /\ [Next]_vars => SearchInv'
<1> SUFFICES ASSUME IInv, [Next]_vars PROVE SearchInv'
  OBVIOUS
<1>1. TypeThin /\ TypeCell /\ TypeSearch /\ SearchInv
  BY TypeParts DEF IInv
<1>2. pc = "search" =>
        /\ N \in Nat /\ \A k \in 0 .. N - 1 : At(k) \in Int
        /\ \A k, l \in 0 .. N - 1 : k < l => At(k) < At(l)
        /\ searchEle \in Int /\ start \in Int /\ end \in Int /\ mid \in Int
        /\ start <= end => 1 <= start /\ start <= mid /\ mid <= end /\ end < N
        /\ \A k \in 1 .. N - 1 : At(k) = searchEle => start <= k /\ k <= end
  <2>1. pc = "search" => searchEle \in Int
    BY <1>1 DEF TypeCell, searchEle, Diagonal
  <2> QED  BY <1>1, <2>1, Indexed DEF IInv, TypeSearch, SearchInv
<1>3. CASE BeginSearch
  <2>1. \A k \in 1 .. N - 1 : 1 <= k /\ k <= N - 1
    BY <1>1 DEF TypeThin, N
  <2> QED  BY <1>3, <2>1 DEF SearchInv, BeginSearch, thinning, cell, N, At, searchEle
<1>4. CASE Match
  <2>1. mid \in 1 .. N - 1
    BY <1>2, <1>4 DEF Match
  <2> QED
    BY <1>4, <2>1 DEF SearchInv, Match, Result, thinning, cell, N, At, searchEle
<1>5. CASE GoLower
  <2>1. \A k \in 1 .. N - 1 : At(k) = searchEle => k <= mid - 1
    BY <1>2, <1>5 DEF GoLower
  <2>2. /\ N' = N /\ searchEle' = searchEle /\ \A k : At(k)' = At(k)
    BY <1>5 DEF GoLower, thinning, cell, N, At, searchEle
  <2>3. CASE mid - 1 = start /\ At(mid - 1) # searchEle
    <3>1. \A k \in 1 .. N - 1 : At(k) # searchEle
      BY <1>2, <1>5, <2>1, <2>3 DEF GoLower
    <3> QED  BY <1>5, <2>2, <2>3, <3>1 DEF SearchInv, GoLower, Result
  <2>4. CASE ~(mid - 1 = start /\ At(mid - 1) # searchEle)
    BY <1>2, <1>5, <2>1, <2>2, <2>4 DEF SearchInv, GoLower
  <2> QED  BY <2>3, <2>4
<1>6. CASE GoHigher
  <2>1. \A k \in 1 .. N - 1 : At(k) = searchEle => k >= mid + 1
    BY <1>2, <1>6 DEF GoHigher
  <2>2. /\ N' = N /\ searchEle' = searchEle /\ \A k : At(k)' = At(k)
    BY <1>6 DEF GoHigher, thinning, cell, N, At, searchEle
  <2>3. CASE mid + 1 = end /\ At(mid + 1) # searchEle
    <3>1. \A k \in 1 .. N - 1 : At(k) # searchEle
      BY <1>2, <1>6, <2>1, <2>3 DEF GoHigher
    <3> QED  BY <1>6, <2>2, <2>3, <3>1 DEF SearchInv, GoHigher, Result
  <2>4. CASE ~(mid + 1 = end /\ At(mid + 1) # searchEle)
    BY <1>2, <1>6, <2>1, <2>2, <2>4 DEF SearchInv, GoHigher
  <2> QED  BY <2>3, <2>4
<1>7. CASE GiveUp
  <2>1. \A k \in 1 .. N - 1 : At(k) # searchEle
    BY <1>2, <1>7 DEF GiveUp
  <2> QED
    BY <1>7, <2>1 DEF SearchInv, GiveUp, Result, thinning, cell, N, At, searchEle
<1>8. CASE Finished \/ UNCHANGED vars
  BY <1>1, <1>8
     DEF SearchInv, Finished, vars, thinning, cell, search, N, At, searchEle
<1>9. CASE pc' \notin {"search", "rank"}
  BY <1>9 DEF SearchInv
<1> QED
  BY <1>3, <1>4, <1>5, <1>6, <1>7, <1>8, <1>9
     DEF Next, Drop, Retain, Thinned, SkipDiagonal, AssignRank, LoopsEnd, AddRank, Distribute

(* A rank that is assigned to a listed bandwidth is its place.               *)
LEMMA RankStep == IInv /\ [Next]_vars => ListedRank'
<1> SUFFICES ASSUME IInv, [Next]_vars PROVE ListedRank'
  OBVIOUS
<1>1. /\ TypeThin /\ ThinPlace /\ TypeCell /\ TypeRanks /\ ThinnedOut
      /\ SearchInv /\ ListedRank
  BY TypeParts DEF IInv
<1>2. /\ DC = 1 .. numDCs /\ numDCs \in Nat
      /\ \A p \in Pairs : p[1] \in DC /\ p[2] \in DC /\ p[1] # p[2]
  BY Centers DEF Pairs
<1>3. CASE AssignRank
  <2>1. /\ pc = "rank" /\ row \in DC /\ col \in DC /\ row # col /\ row <= numDCs
        /\ N' = N /\ UNCHANGED br /\ \A k : At(k)' = At(k)
    BY <1>1, <1>2, <1>3 DEF TypeCell, AssignRank, thinning, N, At
  <2>2. \A r, c \in DC : Before(r, c)' <=> Before(r, c) \/ (r = row /\ c = col)
    BY <1>1, <1>3, <2>1, NextCellIs DEF AssignRank
  <2>3. \A r, c \in DC : <<r, c>> # <<row, col>> => rel'[r][c] = rel[r][c]
    BY <1>1, <1>3, <2>1 DEF TypeRanks, AssignRank
  <2>4. \A k \in 1 .. N - 1 : At(k) = br[row][col] => rel'[row][col] = N - k + 1
    <3>1. CASE retVal[2] > 0
      <4>1. retVal[2] \in 1 .. N - 1 /\ At(retVal[2]) = br[row][col]
        BY <1>1, <2>1, <3>1 DEF SearchInv, searchEle
      <4>2. N \in Nat /\ \A k, l \in 0 .. N - 1 : k < l => At(k) < At(l)
        BY <1>1, <2>1, Indexed
      <4>3. \A k \in 0 .. N - 1 : At(k) \in Int
        BY <1>1, <2>1, Indexed
      <4>4. \A k \in 1 .. N - 1 : At(k) = br[row][col] => k = retVal[2]
        BY <4>1, <4>2, <4>3
      <4>5. rel'[row][col] = N - retVal[2] + 1
        BY <1>1, <1>3, <2>1, <3>1 DEF TypeRanks, AssignRank
      <4> QED  BY <4>4, <4>5
    <3>2. CASE ~(retVal[2] > 0)
      BY <1>1, <2>1, <3>2 DEF SearchInv, searchEle
    <3> QED  BY <3>1, <3>2
  <2>5. ASSUME NEW p \in Pairs, Ranked(p[1], p[2])', NEW k \in 1 .. N - 1,
               At(k) = br[p[1]][p[2]]
        PROVE  rel'[p[1]][p[2]] = N - k + 1
    <3>1. CASE p[1] = row /\ p[2] = col
      BY <2>4, <2>5, <3>1
    <3>2. CASE ~(p[1] = row /\ p[2] = col)
      <4>1. Ranked(p[1], p[2])
        BY <1>2, <1>3, <2>1, <2>2, <2>5, <3>2 DEF Ranked, AssignRank
      <4>2. rel'[p[1]][p[2]] = rel[p[1]][p[2]]
        BY <1>2, <2>3, <3>2
      <4> QED  BY <1>1, <2>5, <4>1, <4>2 DEF ListedRank
    <3> QED  BY <3>1, <3>2
  <2> QED  BY <2>1, <2>5 DEF ListedRank
<1>4. CASE SkipDiagonal
  <2>1. \A r, c \in DC : Before(r, c)' <=> Before(r, c) \/ (r = row /\ c = col)
    BY <1>1, <1>4, NextCellIs DEF SkipDiagonal
  <2>2. \A p \in Pairs : Ranked(p[1], p[2])' => Ranked(p[1], p[2])
    BY <1>2, <1>4, <2>1 DEF SkipDiagonal, Ranked
  <2> QED  BY <1>1, <1>4, <2>2 DEF SkipDiagonal, ListedRank, thinning, N, At
<1>5. CASE Drop \/ Retain \/ Thinned
  <2>1. \A p \in Pairs : ~Ranked(p[1], p[2])'
    BY <1>1, <1>2, <1>5 DEF Drop, Retain, Thinned, ThinPlace, cell, Ranked, Before
  <2> QED  BY <2>1 DEF ListedRank
<1>6. CASE UNCHANGED <<br, br_unique_list, rel>>
           /\ \A p \in Pairs : Ranked(p[1], p[2])' => Ranked(p[1], p[2])
  BY <1>1, <1>6 DEF ListedRank, N, At
<1>7. CASE LoopsEnd("pair", "sum")
  <2>1. \A p \in Pairs : Ranked(p[1], p[2])' => Ranked(p[1], p[2])
    BY <1>1, <1>2, <1>7 DEF LoopsEnd, Ranked, Before, TypeCell
  <2> QED  BY <1>6, <1>7, <2>1 DEF LoopsEnd, thinning
<1>8. CASE \/ BeginSearch \/ Match \/ GoLower \/ GoHigher \/ GiveUp \/ AddRank \/ Distribute
           \/ LoopsEnd("sum", "channels") \/ LoopsEnd("channels", "done")
           \/ Finished \/ UNCHANGED vars
  <2>1. UNCHANGED <<br, br_unique_list, rel>>
    BY <1>8 DEF BeginSearch, Match, GoLower, GoHigher, GiveUp, AddRank, Distribute,
                LoopsEnd, Finished, vars, thinning
  <2>2. \/ pc' \in {"search", "rank", "pair", "thin"} /\ pc \in {"search", "rank", "pair", "thin"}
           /\ UNCHANGED <<row, col>> /\ (pc = "thin" <=> pc' = "thin")
        \/ pc \in {"sum", "channels", "done"}
    BY <1>1, <1>8
       DEF TypeCell, BeginSearch, Match, GoLower, GoHigher, GiveUp, Result, AddRank,
           Distribute, LoopsEnd, Finished, vars, cell
  <2>3. \A p \in Pairs : Ranked(p[1], p[2])' => Ranked(p[1], p[2])
    BY <1>2, <2>2 DEF Ranked, Before
  <2> QED  BY <1>6, <2>1, <2>3
<1> QED  BY <1>3, <1>4, <1>5, <1>7, <1>8 DEF Next

(* Every step of the search takes the way of the bandwidth's place in the    *)
(* list.                                                                     *)
LEMMA WayStep == IInv /\ [Next]_vars => WayInv'
<1> SUFFICES ASSUME IInv, [Next]_vars PROVE WayInv'
  OBVIOUS
<1> DEFINE root == <<1, N - 1>>
<1>1. TypeThin /\ TypeCell /\ TypeSearch /\ WayInv
  BY TypeParts DEF IInv
<1>2. pc = "search" =>
        /\ N \in Nat /\ N >= 1 /\ \A k \in 0 .. N - 1 : At(k) \in Int
        /\ \A k, l \in 0 .. N - 1 : k < l => At(k) < At(l)
        /\ searchEle \in Int /\ start \in Int /\ end \in Int /\ mid \in Int
        /\ start <= end => 1 <= start /\ start <= mid /\ mid <= end /\ end < N
        /\ <<start, end>> \in Within(root) /\ mid = Middle(<<start, end>>)
        /\ \A k \in 1 .. N - 1 : k < start => At(k) < searchEle
        /\ \A k \in 1 .. N - 1 : k > end => At(k) > searchEle
  <2>1. pc = "search" => searchEle \in Int
    BY <1>1 DEF TypeCell, searchEle, Diagonal
  <2>2. TypeThin => N >= 1
    BY DEF TypeThin
  <2> QED  BY <1>1, <2>1, <2>2, Indexed DEF IInv, TypeSearch, WayInv
<1>3. N \in Int /\ root \in Interval
  BY <1>1 DEF TypeThin, N, Interval
<1>4. CASE BeginSearch
  <2>1. root \in Within(root)
    BY <1>3, WithinClosed
  <2>2. (1 + (N - 1)) \div 2 = N \div 2
    BY <1>3
  <2>3. N' = N /\ start' = 1 /\ end' = N - 1 /\ mid' = N \div 2 /\ pc' = "search"
    BY <1>4 DEF BeginSearch, thinning, N
  <2>4. \A k \in 1 .. N - 1 : ~(k < 1) /\ ~(k > N - 1)
    BY <1>3
  <2> QED  BY <2>1, <2>2, <2>3, <2>4 DEF WayInv, Middle
<1>5. CASE Match
  <2>1. mid > 0
    BY <1>2, <1>5 DEF Match
  <2> QED  BY <1>5, <2>1 DEF WayInv, Match, Result
<1>6. CASE GoLower \/ GoHigher
  <2>1. pc = "search" /\ start <= end
    BY <1>6 DEF GoLower, GoHigher
  <2>2. /\ N' = N /\ searchEle' = searchEle /\ \A k : At(k)' = At(k)
    BY <1>6 DEF GoLower, GoHigher, thinning, cell, N, At, searchEle
  <2>4. /\ <<start, end>> \in Interval
        /\ <<start, mid - 1>> \in Within(root) /\ <<mid + 1, end>> \in Within(root)
    <3>1. /\ Lower(<<start, end>>) = <<start, mid - 1>>
          /\ Upper(<<start, end>>) = <<mid + 1, end>>
      BY <1>2, <2>1 DEF Lower, Upper
    <3>2. <<start, end>> \in Within(root) /\ <<start, end>>[1] <= <<start, end>>[2]
      BY <1>2, <2>1
    <3>3. Closed(Within(root))
      BY <1>3, WithinClosed
    <3> QED  BY <1>2, <2>1, <3>1, <3>2, <3>3 DEF Closed, Interval
  <2>5. /\ mid \in 1 .. N - 1 /\ At(mid) \in Int
        /\ \A k \in 1 .. N - 1 : k < mid => At(k) < At(mid)
        /\ \A k \in 1 .. N - 1 : k > mid => At(k) > At(mid)
    BY <1>2, <2>1
  <2>6. CASE GoLower
    <3>1. \A k \in 1 .. N - 1 : k > mid - 1 => At(k) > searchEle
      BY <1>2, <2>1, <2>5, <2>6 DEF GoLower
    <3>2. CASE mid - 1 = start /\ At(mid - 1) # searchEle
      <4> DEFINE g == IF At(start) < searchEle THEN start ELSE start - 1
      <4>1. start \in 1 .. N - 2 /\ At(start) \in Int /\ At(start) # searchEle
        BY <1>2, <2>1, <2>5, <3>2
      <4>2. g \in 0 .. N - 1 /\ g <= start /\ start - 1 <= g /\ g <= end
        BY <1>2, <2>1, <4>1
      <4>3. Gap(g, searchEle)
        <5>1. ASSUME NEW k \in 1 .. N - 1
              PROVE  IF k <= g THEN At(k) < searchEle ELSE At(k) > searchEle
          <6>1. At(k) \in Int /\ searchEle \in Int
            BY <1>2, <2>1
          <6>2. CASE k < start
            BY <1>2, <2>1, <4>1, <4>2, <6>2
          <6>3. CASE k = start
            BY <4>1, <6>1, <6>3
          <6>4. CASE k > start
            BY <3>1, <3>2, <4>1, <4>2, <6>4
          <6> QED  BY <4>1, <6>2, <6>3, <6>4
        <5> QED  BY <4>2, <5>1 DEF Gap
      <4> HIDE DEF g
      <4>4. Covers(<<start, end>>, g) /\ Stops(<<start, end>>, g, start)
        BY <1>2, <2>1, <3>2, <4>2 DEF Covers, Stops
      <4>5. Neighbours(searchEle, start)
        BY <1>2, <2>1, <4>1, <4>2, <4>3, <4>4 DEF Neighbours
      <4>6. retVal' = <<start, -1, mid>> /\ pc' = "rank" /\ mid = start + 1
        BY <1>2, <2>1, <2>6, <3>2 DEF GoLower, Result
      <4>7. /\ retVal'[1] = start /\ retVal'[2] = -1 /\ retVal'[3] = start + 1
            /\ pc' # "search"
        BY <4>6
      <4>8. Neighbours(searchEle, retVal[1])'
        BY <2>2, <4>5, <4>7 DEF Neighbours, Gap
      <4> QED  BY <4>7, <4>8 DEF WayInv
    <3>3. CASE ~(mid - 1 = start /\ At(mid - 1) # searchEle)
      <4>1. /\ end' = mid - 1 /\ mid' = (start + mid - 1) \div 2 /\ start' = start
            /\ pc' = "search"
        BY <2>6, <3>3 DEF GoLower
      <4>2. mid' = Middle(<<start, mid - 1>>)
        BY <1>2, <2>1, <4>1 DEF Middle
      <4> QED  BY <1>2, <2>1, <2>2, <2>4, <3>1, <4>1, <4>2 DEF WayInv
    <3> QED  BY <3>2, <3>3
  <2>7. CASE GoHigher
    <3>1. \A k \in 1 .. N - 1 : k < mid + 1 => At(k) < searchEle
      BY <1>2, <2>1, <2>5, <2>7 DEF GoHigher
    <3>2. CASE mid + 1 = end /\ At(mid + 1) # searchEle
      <4> DEFINE g == IF At(end) < searchEle THEN end ELSE mid
      <4>1. mid \in 1 .. N - 2 /\ end \in 1 .. N - 1 /\ At(end) \in Int /\ At(end) # searchEle
        BY <1>2, <2>1, <2>5, <3>2
      <4>2. g \in 0 .. N - 1 /\ g >= mid /\ g <= end
        BY <1>2, <2>1, <3>2, <4>1
      <4>3. Gap(g, searchEle)
        <5>1. ASSUME NEW k \in 1 .. N - 1
              PROVE  IF k <= g THEN At(k) < searchEle ELSE At(k) > searchEle
          <6>1. At(k) \in Int /\ searchEle \in Int
            BY <1>2, <2>1
          <6>2. CASE k < end
            BY <3>1, <3>2, <4>1, <4>2, <6>2
          <6>3. CASE k = end
            BY <3>2, <4>1, <6>1, <6>3
          <6>4. CASE k > end
            BY <1>2, <2>1, <4>1, <4>2, <6>4
          <6> QED  BY <4>1, <6>2, <6>3, <6>4
        <5> QED  BY <4>2, <5>1 DEF Gap
      <4> HIDE DEF g
      <4>4. Covers(<<start, end>>, g) /\ Stops(<<start, end>>, g, mid)
        BY <1>2, <2>1, <3>2, <4>1, <4>2 DEF Covers, Stops
      <4>5. Neighbours(searchEle, mid)
        BY <1>2, <2>1, <4>1, <4>2, <4>3, <4>4 DEF Neighbours
      <4>6. retVal' = <<mid, -1, end>> /\ pc' = "rank" /\ end = mid + 1
        BY <2>7, <3>2 DEF GoHigher, Result
      <4>7. /\ retVal'[1] = mid /\ retVal'[2] = -1 /\ retVal'[3] = mid + 1
            /\ pc' # "search"
        BY <4>6
      <4>8. Neighbours(searchEle, retVal[1])'
        BY <2>2, <4>5, <4>7 DEF Neighbours, Gap
      <4> QED  BY <4>7, <4>8 DEF WayInv
    <3>3. CASE ~(mid + 1 = end /\ At(mid + 1) # searchEle)
      <4>1. /\ start' = mid + 1 /\ mid' = (mid + 1 + end) \div 2 /\ end' = end
            /\ pc' = "search"
        BY <2>7, <3>3 DEF GoHigher
      <4>2. mid' = Middle(<<mid + 1, end>>)
        BY <4>1 DEF Middle
      <4> QED  BY <1>2, <2>1, <2>2, <2>4, <3>1, <4>1, <4>2 DEF WayInv
    <3> QED  BY <3>2, <3>3
  <2> QED  BY <1>6, <2>6, <2>7
<1>7. CASE GiveUp
  BY <1>7 DEF WayInv, GiveUp, Result
<1>8. CASE Finished \/ UNCHANGED vars
  <2>1. UNCHANGED vars
    BY <1>8 DEF Finished
  <2>2. /\ N' = N /\ searchEle' = searchEle /\ \A k : At(k)' = At(k)
    BY <2>1 DEF vars, thinning, cell, N, At, searchEle
  <2>3. \A b, lo : Neighbours(b, lo)' <=> Neighbours(b, lo)
    BY <2>2 DEF Neighbours, Gap
  <2> QED  BY <1>1, <2>1, <2>2, <2>3 DEF WayInv, vars, search
<1>9. CASE pc' \notin {"search", "rank"}
  BY <1>9 DEF WayInv
<1> QED
  BY <1>4, <1>5, <1>6, <1>7, <1>8, <1>9
     DEF Next, Drop, Retain, Thinned, SkipDiagonal, AssignRank, LoopsEnd, AddRank, Distribute

(* A rank that is assigned, unless the search gave up, counts from the match *)
(* or the closer neighbour.                                                  *)
LEMMA SettledStep == IInv /\ [Next]_vars => SettledInv'
<1> SUFFICES ASSUME IInv, [Next]_vars PROVE SettledInv'
  OBVIOUS
<1>1. /\ TypeThin /\ ThinPlace /\ TypeCell /\ TypeSearch /\ TypeRanks /\ SearchInv
      /\ WayInv /\ SettledInv /\ N \in Nat
  BY TypeParts DEF IInv, TypeThin, N
<1>2. /\ DC = 1 .. numDCs /\ numDCs \in Nat
      /\ \A p \in Pairs : p[1] \in DC /\ p[2] \in DC /\ p[1] # p[2]
  BY Centers DEF Pairs
<1>3. ASSUME UNCHANGED br_unique_list, NEW b, NEW k
      PROVE  Settled(b, k)' <=> Settled(b, k)
  <2>1. N' = N /\ \A m : At(m)' = At(m)
    BY <1>3 DEF N, At
  <2>2. \A lo : Neighbours(b, lo)' <=> Neighbours(b, lo)
    BY <2>1 DEF Neighbours, Gap
  <2>3. \A lo : Closer(b, lo)' = Closer(b, lo)
    BY <2>1 DEF Closer
  <2> QED  BY <2>1, <2>2, <2>3 DEF Settled
<1>4. CASE AssignRank
  <2>1. /\ pc = "rank" /\ row \in DC /\ col \in DC /\ row # col /\ row <= numDCs
        /\ N' = N /\ UNCHANGED <<br, br_unique_list>>
    BY <1>1, <1>2, <1>4 DEF TypeCell, AssignRank, thinning, N
  <2>2. \A r, c \in DC : Before(r, c)' <=> Before(r, c) \/ (r = row /\ c = col)
    BY <1>1, <1>4, <2>1, NextCellIs DEF AssignRank
  <2>3. \A r, c \in DC : <<r, c>> # <<row, col>> => rel'[r][c] = rel[r][c]
    BY <1>1, <1>4, <2>1 DEF TypeRanks, AssignRank
  <2>4. rel'[row][col] = N - (IF retVal[2] > 0 THEN retVal[2] ELSE Nearest) + 1
    BY <1>1, <1>4, <2>1 DEF TypeRanks, AssignRank
  <2>5. rel'[row][col] <= N => Settled(searchEle, N - rel'[row][col] + 1)
    <3>1. CASE retVal[2] > 0
      <4>1. retVal[2] \in 1 .. N - 1 /\ At(retVal[2]) = searchEle
        BY <1>1, <2>1, <3>1 DEF SearchInv
      <4>2. N - rel'[row][col] + 1 = retVal[2]
        BY <1>1, <2>4, <3>1, <4>1
      <4> QED  BY <4>1, <4>2 DEF Settled
    <3>2. CASE retVal[1] = -1 /\ retVal[2] = -1 /\ retVal[3] = -1
      <4>1. Nearest = -1
        BY <3>2 DEF Nearest
      <4> QED  BY <1>1, <2>4, <3>2, <4>1
    <3>3. CASE /\ retVal[2] = -1 /\ Neighbours(searchEle, retVal[1])
               /\ retVal[3] = retVal[1] + 1
      <4>1. retVal[1] \in 1 .. N - 2
        BY <3>3 DEF Neighbours
      <4>2. Nearest = Closer(searchEle, retVal[1])
        BY <3>3 DEF Nearest, Closer
      <4>3. Nearest \in 1 .. N - 1
        BY <1>1, <4>1, <4>2 DEF Closer
      <4>4. N - rel'[row][col] + 1 = Nearest
        BY <1>1, <2>4, <3>3, <4>3
      <4> QED  BY <3>3, <4>1, <4>2, <4>3, <4>4 DEF Settled
    <3> QED  BY <1>1, <2>1, <3>1, <3>2, <3>3 DEF WayInv
  <2>6. ASSUME NEW p \in Pairs, Ranked(p[1], p[2])', rel'[p[1]][p[2]] <= N
        PROVE  Settled(br[p[1]][p[2]], N - rel'[p[1]][p[2]] + 1)
    <3>1. CASE p[1] = row /\ p[2] = col
      BY <2>5, <2>6, <3>1 DEF searchEle
    <3>2. CASE ~(p[1] = row /\ p[2] = col)
      <4>1. Ranked(p[1], p[2])
        BY <1>2, <1>4, <2>1, <2>2, <2>6, <3>2 DEF Ranked, AssignRank
      <4>2. rel'[p[1]][p[2]] = rel[p[1]][p[2]]
        BY <1>2, <2>3, <3>2
      <4> QED  BY <1>1, <2>6, <4>1, <4>2 DEF SettledInv
    <3> QED  BY <3>1, <3>2
  <2> QED  BY <1>3, <2>1, <2>6 DEF SettledInv
<1>5. CASE Drop \/ Retain \/ Thinned
  <2>1. \A p \in Pairs : ~Ranked(p[1], p[2])'
    BY <1>1, <1>2, <1>5 DEF Drop, Retain, Thinned, ThinPlace, cell, Ranked, Before
  <2> QED  BY <2>1 DEF SettledInv
<1>6. CASE /\ UNCHANGED <<br, br_unique_list, rel>>
           /\ \A p \in Pairs : Ranked(p[1], p[2])' => Ranked(p[1], p[2])
  <2>1. N' = N
    BY <1>6 DEF N
  <2> QED  BY <1>1, <1>3, <1>6, <2>1 DEF SettledInv
<1>7. CASE SkipDiagonal
  <2>1. \A r, c \in DC : Before(r, c)' <=> Before(r, c) \/ (r = row /\ c = col)
    BY <1>1, <1>7, NextCellIs DEF SkipDiagonal
  <2>2. \A p \in Pairs : Ranked(p[1], p[2])' => Ranked(p[1], p[2])
    BY <1>2, <1>7, <2>1 DEF SkipDiagonal, Ranked
  <2> QED  BY <1>6, <1>7, <2>2 DEF SkipDiagonal, thinning
<1>8. CASE LoopsEnd("pair", "sum")
  <2>1. \A p \in Pairs : Ranked(p[1], p[2])' => Ranked(p[1], p[2])
    BY <1>1, <1>2, <1>8 DEF LoopsEnd, Ranked, Before, TypeCell
  <2> QED  BY <1>6, <1>8, <2>1 DEF LoopsEnd, thinning
<1>9. CASE \/ BeginSearch \/ Match \/ GoLower \/ GoHigher \/ GiveUp \/ AddRank \/ Distribute
           \/ LoopsEnd("sum", "channels") \/ LoopsEnd("channels", "done")
           \/ Finished \/ UNCHANGED vars
  <2>1. UNCHANGED <<br, br_unique_list, rel>>
    BY <1>9 DEF BeginSearch, Match, GoLower, GoHigher, GiveUp, AddRank, Distribute,
                LoopsEnd, Finished, vars, thinning
  <2>2. \/ pc' \in {"search", "rank", "pair", "thin"} /\ pc \in {"search", "rank", "pair", "thin"}
           /\ UNCHANGED <<row, col>> /\ (pc = "thin" <=> pc' = "thin")
        \/ pc \in {"sum", "channels", "done"}
    BY <1>1, <1>9
       DEF TypeCell, BeginSearch, Match, GoLower, GoHigher, GiveUp, Result, AddRank,
           Distribute, LoopsEnd, Finished, vars, cell
  <2>3. \A p \in Pairs : Ranked(p[1], p[2])' => Ranked(p[1], p[2])
    BY <1>2, <2>2 DEF Ranked, Before
  <2> QED  BY <1>6, <2>1, <2>3
<1> QED  BY <1>4, <1>5, <1>7, <1>8, <1>9 DEF Next

(* No rank is ever assigned on the diagonal. *)
LEMMA DiagonalStep == IInv /\ [Next]_vars => DiagonalOne'
<1> SUFFICES ASSUME IInv, [Next]_vars PROVE DiagonalOne'
  OBVIOUS
<1>1. TypeCell /\ TypeRanks /\ DiagonalOne
  BY TypeParts DEF IInv
<1>2. CASE AssignRank
  <2>1. row # col
    BY <1>1, <1>2 DEF TypeCell, AssignRank
  <2> QED  BY <1>1, <1>2, <2>1 DEF TypeRanks, DiagonalOne, AssignRank
<1>3. CASE UNCHANGED rel
  BY <1>1, <1>3 DEF DiagonalOne
<1> QED
  BY <1>2, <1>3
     DEF Next, Drop, Retain, Thinned, SkipDiagonal, BeginSearch, Match, GoLower, GoHigher,
         GiveUp, LoopsEnd, AddRank, Distribute, Finished, vars

(* A rank is added to the sum of its row and to that of all rows.            *)
LEMMA SumStep == IInv /\ [Next]_vars => SumInv'
<1> SUFFICES ASSUME IInv, [Next]_vars PROVE SumInv'
  OBVIOUS
<1>1. TypeCell /\ TypeRanks /\ SumInv
  BY TypeParts DEF IInv
<1>2. CASE AddRank
  <2>1. /\ row \in DC /\ col \in DC /\ pc = "sum" /\ pc' = "sum" /\ UNCHANGED rel
        /\ row <= numDCs /\ rel[row][col] \in Nat
    BY <1>1, <1>2, Centers DEF TypeCell, TypeRanks, AddRank
  <2>2. \A r, c \in DC : Summed(r, c)' <=> Summed(r, c) \/ (r = row /\ c = col)
    BY <1>1, <1>2, <2>1, NextCellIs DEF AddRank, Summed
  <2>3. /\ resultAll' = resultAll + rel[row][col]
        /\ resultRowWise'[row] = resultRowWise[row] + rel[row][col]
        /\ \A r \in DC : r # row => resultRowWise'[r] = resultRowWise[r]
        /\ resultAll \in Nat /\ \A r \in DC : resultRowWise[r] \in Nat
        /\ \A r, c \in DC : rel[r][c] \in Nat
    BY <1>1, <1>2, <2>1 DEF TypeRanks, AddRank
  <2>4. \A r \in DC : resultRowWise'[r] <= resultAll'
    BY <1>1, <2>1, <2>3 DEF SumInv
  <2>5. ASSUME NEW r \in DC, NEW c \in DC, Summed(r, c)'
        PROVE  rel[r][c] <= resultRowWise'[r]
    BY <1>1, <2>1, <2>2, <2>3, <2>5 DEF SumInv
  <2>6. ASSUME NEW r \in DC, NEW c \in DC, NEW e \in DC, c # e, Summed(r, c)', Summed(r, e)'
        PROVE  rel[r][c] + rel[r][e] <= resultRowWise'[r]
    BY <1>1, <2>1, <2>2, <2>3, <2>6 DEF SumInv
  <2> QED  BY <2>1, <2>4, <2>5, <2>6 DEF SumInv
<1>3. CASE UNCHANGED <<resultRowWise, resultAll>>
           /\ \A r, c \in DC : Summed(r, c)' => Summed(r, c) /\ UNCHANGED rel
  BY <1>1, <1>3 DEF SumInv
<1>4. CASE LoopsEnd("sum", "channels")
  <2>1. \A r, c \in DC : Summed(r, c)
    BY <1>1, <1>4, Centers DEF LoopsEnd, Summed, Before, TypeCell
  <2> QED  BY <1>3, <1>4, <2>1 DEF LoopsEnd, sums
<1>5. CASE LoopsEnd("pair", "sum")
  <2>1. \A r, c \in DC : ~Summed(r, c)'
    BY <1>5, Centers DEF LoopsEnd, Summed, Before
  <2> QED  BY <1>3, <1>5, <2>1 DEF LoopsEnd, sums
<1>6. CASE \/ Drop \/ Retain \/ Thinned \/ SkipDiagonal \/ BeginSearch \/ Match \/ GoLower
           \/ GoHigher \/ GiveUp \/ AssignRank
  <2>1. \A r, c \in DC : ~Summed(r, c)'
    BY <1>6 DEF Drop, Retain, Thinned, SkipDiagonal, BeginSearch, Match, GoLower, GoHigher,
                GiveUp, Result, AssignRank, Summed
  <2> QED
    BY <1>3, <1>6, <2>1
       DEF Drop, Retain, Thinned, SkipDiagonal, BeginSearch, Match, GoLower, GoHigher,
           GiveUp, AssignRank, sums
<1>7. CASE Distribute \/ LoopsEnd("channels", "done") \/ Finished \/ UNCHANGED vars
  BY <1>3, <1>7 DEF Distribute, LoopsEnd, Finished, vars, sums, cell, Summed, Before
<1> QED  BY <1>2, <1>4, <1>5, <1>6, <1>7 DEF Next

(* The channels of a pair that is handled: a rank and the one of the         *)
(* diagonal are both part of the sum of the row, so that MinMax applies.     *)
LEMMA ChannelStep == IInv /\ [Next]_vars => ChannelInv'
<1> SUFFICES ASSUME IInv, [Next]_vars PROVE ChannelInv'
  OBVIOUS
<1>1. TypeCell /\ TypeRanks /\ TypeChannels /\ SumInv /\ DiagonalOne /\ ChannelInv
  BY TypeParts DEF IInv
<1>2. CASE Distribute
  <2>1. /\ row \in DC /\ col \in DC /\ pc = "channels" /\ pc' = "channels"
        /\ row <= numDCs /\ rel[row][col] \in Nat \ {0}
    BY <1>1, <1>2, Centers DEF TypeCell, TypeRanks, Distribute
  <2>2. \A r, c \in DC : Distributed(r, c)' <=> Distributed(r, c) \/ (r = row /\ c = col)
    BY <1>1, <1>2, <2>1, NextCellIs DEF Distribute, Distributed
  <2>3. \A r, c \in DC : ~(r = row /\ c = col) =>
           chAllMin'[r][c] = chAllMin[r][c] /\ chAllMax'[r][c] = chAllMax[r][c]
    BY <1>1, <1>2, <2>1 DEF TypeChannels, Distribute
  <2>4. /\ 1 <= chAllMin'[row][col] /\ chAllMin'[row][col] <= chAllMax'[row][col]
        /\ chAllMax'[row][col] <= 8
    <3>1. CASE row = col
      <4>1. chAllMin'[row][col] = rel[row][col] /\ chAllMax'[row][col] = rel[row][col]
        BY <1>1, <1>2, <2>1, <3>1 DEF TypeChannels, Distribute
      <4>2. rel[row][col] = 1
        BY <1>1, <2>1, <3>1 DEF DiagonalOne
      <4> QED  BY <4>1, <4>2
    <3>2. CASE row # col
      <4> DEFINE x == rel[row][col]
                 r == resultRowWise[row]
                 p == (x * 7) \div resultAll
                 q == Ceil(x * 8, r)
      <4>1. chAllMin'[row][col] = MinChannels(x) /\ chAllMax'[row][col] = MaxChannels(x)
        BY <1>1, <1>2, <2>1, <3>2 DEF TypeChannels, Distribute
      <4>2. x + 1 <= r
        <5>1. rel[row][row] = 1 /\ Summed(row, col) /\ Summed(row, row)
          BY <1>1, <2>1 DEF DiagonalOne, Summed
        <5> QED  BY <1>1, <2>1, <3>2, <5>1 DEF SumInv
      <4>3. r \in Nat \ {0} /\ resultAll \in Nat \ {0} /\ r <= resultAll
        BY <1>1, <2>1, <4>2 DEF TypeRanks, SumInv
      <4>4. 1 <= q /\ q <= 8 /\ p <= q
        BY <2>1, <4>2, <4>3, MinMax
      <4>5. MinChannels(x) = AtLeast(1, p) /\ MaxChannels(x) = q
        <5>1. CHANNELS_FACTOR = 8 /\ CHANNELS_FACTOR - 1 = 7
          BY DEF CHANNELS_FACTOR
        <5> QED  BY <5>1 DEF MinChannels, MaxChannels
      <4>6. p \in Int /\ q \in Int
        <5>1. x * 7 \in Int /\ x * 8 \in Int
          BY <2>1
        <5> QED  BY <5>1, <4>3, DivBounds, CeilBounds
      <4> HIDE DEF p, q, x, r
      <4> QED  BY <4>1, <4>4, <4>5, <4>6 DEF AtLeast
    <3> QED  BY <3>1, <3>2
  <2>5. ASSUME NEW r \in DC, NEW c \in DC, Distributed(r, c)'
        PROVE  /\ 1 <= chAllMin'[r][c] /\ chAllMin'[r][c] <= chAllMax'[r][c]
               /\ chAllMax'[r][c] <= 8
    BY <1>1, <2>2, <2>3, <2>4, <2>5 DEF ChannelInv
  <2> QED  BY <2>5 DEF ChannelInv
<1>3. CASE UNCHANGED channels /\ \A r, c \in DC : Distributed(r, c)' => Distributed(r, c)
  BY <1>1, <1>3 DEF ChannelInv, channels
<1>4. CASE LoopsEnd("channels", "done")
  <2>1. \A r, c \in DC : Distributed(r, c)
    BY <1>1, <1>4, Centers DEF LoopsEnd, Distributed, Before, TypeCell
  <2> QED  BY <1>3, <1>4, <2>1 DEF LoopsEnd
<1>5. CASE LoopsEnd("pair", "sum") \/ LoopsEnd("sum", "channels")
  <2>1. \A r, c \in DC : ~Distributed(r, c)'
    BY <1>5, Centers DEF LoopsEnd, Distributed, Before
  <2> QED  BY <1>3, <1>5, <2>1 DEF LoopsEnd
<1>6. CASE \/ Drop \/ Retain \/ Thinned \/ SkipDiagonal \/ BeginSearch \/ Match \/ GoLower
           \/ GoHigher \/ GiveUp \/ AssignRank \/ AddRank
  <2>1. \A r, c \in DC : ~Distributed(r, c)'
    BY <1>6 DEF Drop, Retain, Thinned, SkipDiagonal, BeginSearch, Match, GoLower, GoHigher,
                GiveUp, Result, AssignRank, AddRank, Distributed
  <2> QED
    BY <1>3, <1>6, <2>1
       DEF Drop, Retain, Thinned, SkipDiagonal, BeginSearch, Match, GoLower, GoHigher,
           GiveUp, AssignRank, AddRank
<1>7. CASE Finished \/ UNCHANGED vars
  BY <1>3, <1>7 DEF Finished, vars, cell, Distributed, Before
<1> QED  BY <1>2, <1>4, <1>5, <1>6, <1>7 DEF Next

(* IInv is inductive. *)
THEOREM StepIInv == IInv /\ [Next]_vars => IInv'
BY TypeStep, ThinStep, ThinnedStep, SearchStep, RankStep, WayStep, SettledStep, DiagonalStep,
   SumStep, ChannelStep DEF IInv

(* The invariant holds in every reachable state. *)
THEOREM AlwaysIInv == Spec => []IInv
BY InitIInv, StepIInv, PTL DEF Spec

-----------------------------------------------------------------------------
(* The results. *)

(* Every variable keeps its type: neither loop ever leaves the list it reads, *)
(* in spite of the removals.                                                  *)
THEOREM TypeCorrect == Spec => []TypeOK
<1>1. IInv => TypeOK
  BY DEF IInv
<1> QED  BY <1>1, AlwaysIInv, PTL

(* Thinning a list while walking over it neither leaves two close bandwidths  *)
(* nor drops one that has no close neighbour, whatever the prediction.        *)
THEOREM Thinning == Spec => []ThinnedOut
<1>1. IInv => ThinnedOut
  BY DEF IInv
<1> QED  BY <1>1, AlwaysIInv, PTL

(* The search is complete for lists of every length: the early returns never  *)
(* pass over a bandwidth that is listed.                                      *)
THEOREM SearchComplete == Spec => []ListedRank
<1>1. IInv => ListedRank
  BY DEF IInv
<1> QED  BY <1>1, AlwaysIInv, PTL

(* Two bandwidths with the same place in the list have the same neighbours.  *)
LEMMA SameNeighbours ==
  ASSUME TypeThin, NEW a \in Int, NEW b \in Int, NEW lo, NEW hi,
         NEW g \in 0 .. N - 1, Gap(g, a), Gap(g, b), Neighbours(a, lo), Neighbours(b, hi),
         \A k \in 1 .. N - 1 : At(k) \in Int
  PROVE  lo = hi
<1>1. N \in Nat /\ N >= 1
  BY DEF TypeThin, N
<1>2. ASSUME NEW c \in Int, Gap(g, c), NEW m, Neighbours(c, m)
      PROVE  \E p \in Within(<<1, N - 1>>) : Covers(p, g) /\ Stops(p, g, m)
  <2>1. PICK h \in 0 .. N - 1 :
          Gap(h, c) /\ \E p \in Within(<<1, N - 1>>) : Covers(p, h) /\ Stops(p, h, m)
    BY <1>2 DEF Neighbours
  <2>2. h = g
    <3>1. CASE h < g
      <4>1. g \in 1 .. N - 1 /\ At(g) \in Int
        BY <1>1, <3>1
      <4> QED  BY <1>2, <2>1, <3>1, <4>1 DEF Gap
    <3>2. CASE g < h
      <4>1. h \in 1 .. N - 1 /\ At(h) \in Int
        BY <1>1, <3>2
      <4> QED  BY <1>2, <2>1, <3>2, <4>1 DEF Gap
    <3> QED  BY <3>1, <3>2, <1>1
  <2> QED  BY <2>1, <2>2
<1>3. PICK p \in Within(<<1, N - 1>>) : Covers(p, g) /\ Stops(p, g, lo)
  BY <1>2
<1>4. PICK q \in Within(<<1, N - 1>>) : Covers(q, g) /\ Stops(q, g, hi)
  BY <1>2
<1> DEFINE root == <<1, N - 1>>
<1>5. root \in Interval /\ root[1] <= root[2] + 1
  BY <1>1 DEF Interval
<1>6. lo \in Int /\ hi \in Int
  BY <1>1 DEF Neighbours
<1> HIDE DEF root
<1>7. /\ p \in Within(root) /\ q \in Within(root)
      /\ p \in Interval /\ p[1] <= p[2] + 1 /\ q \in Interval /\ q[1] <= q[2] + 1
  BY <1>3, <1>4, <1>5, WithinBounds DEF root
<1>8. p \in Within(q) \/ q \in Within(p)
  BY <1>3, <1>4, <1>5, <1>7, OneWay
<1> QED  BY <1>3, <1>4, <1>6, <1>7, <1>8, OneStop

(* A settled position is at the bandwidth or next to it.                     *)
LEMMA SettledNext ==
  ASSUME TypeThin, ThinnedOut, pc # "thin", NEW b \in Int, NEW k, Settled(b, k), At(k) # b
  PROVE  /\ k \in 1 .. N - 1
         /\ \E g \in 0 .. N - 1, lo \in 1 .. N - 2 :
              Gap(g, b) /\ Neighbours(b, lo) /\ k = Closer(b, lo) /\ k \in {g, g + 1}
<1>1. /\ N \in Nat /\ \A m \in 0 .. N - 1 : At(m) \in Int
      /\ \A m, l \in 0 .. N - 1 : m < l => At(m) < At(l)
  BY Indexed
<1>2. PICK lo \in 1 .. N - 2 : Neighbours(b, lo) /\ k = Closer(b, lo)
  BY DEF Settled
<1>3. PICK g \in 0 .. N - 1 :
        Gap(g, b) /\ \E p \in Within(<<1, N - 1>>) : Covers(p, g) /\ Stops(p, g, lo)
  BY <1>2 DEF Neighbours
<1>4. lo \in {g - 1, g, g + 1}
  <2>1. PICK p \in Within(<<1, N - 1>>) : Covers(p, g) /\ Stops(p, g, lo)
    BY <1>3
  <2>2. p \in Interval /\ p[1] \in Int /\ p[2] \in Int
    BY <2>1 DEF Within, Interval
  <2> QED  BY <1>1, <2>1, <2>2 DEF Covers, Stops
<1>5. /\ At(lo) \in Int /\ At(lo + 1) \in Int /\ At(lo) < At(lo + 1)
      /\ lo \in 1 .. N - 1 /\ lo + 1 \in 1 .. N - 1
  BY <1>1
<1>6. k \in {g, g + 1}
  <2>1. CASE lo = g
    BY <1>1, <1>2, <2>1 DEF Closer
  <2>2. CASE lo = g + 1
    <3>1. At(lo) > b
      BY <1>1, <1>3, <1>5, <2>2 DEF Gap
    <3>2. k = lo
      BY <1>2, <1>5, <3>1 DEF Closer, Distance
    <3> QED  BY <2>2, <3>2
  <2>3. CASE lo = g - 1
    <3>1. At(lo + 1) < b
      BY <1>1, <1>3, <1>5, <2>3 DEF Gap
    <3>2. k = lo + 1
      BY <1>2, <1>5, <3>1 DEF Closer, Distance
    <3> QED  BY <1>1, <2>3, <3>2
  <2> QED  BY <1>4, <2>1, <2>2, <2>3
<1> QED  BY <1>2, <1>3, <1>6 DEF Settled

(* A higher bandwidth settles no lower.                                      *)
LEMMA SettledOrder ==
  ASSUME TypeThin, ThinnedOut, pc # "thin", NEW a \in Int, NEW b \in Int,
         NEW k, NEW l, Settled(a, k), Settled(b, l), a >= b
  PROVE  k >= l
<1>1. /\ N \in Nat /\ \A m \in 0 .. N - 1 : At(m) \in Int
      /\ \A m, n \in 0 .. N - 1 : m < n => At(m) < At(n)
  BY Indexed
<1>2. k \in 1 .. N - 1 /\ l \in 1 .. N - 1
  BY DEF Settled
<1>3. k \in Int /\ l \in Int /\ At(k) \in Int /\ At(l) \in Int
  BY <1>1, <1>2
<1> SUFFICES ASSUME k < l PROVE FALSE
  BY <1>3
<1>4. At(k) < At(l)
  BY <1>1, <1>2
<1>5. CASE At(k) = a /\ At(l) = b
  BY <1>3, <1>4, <1>5
<1>6. CASE At(k) = a /\ At(l) # b
  <2>1. PICK g \in 0 .. N - 1 : Gap(g, b) /\ l \in {g, g + 1}
    BY <1>6, SettledNext
  <2>2. k <= g
    BY <1>1, <1>3, <2>1
  <2> QED  BY <1>2, <1>3, <1>6, <2>1, <2>2 DEF Gap
<1>7. CASE At(k) # a /\ At(l) = b
  <2>1. PICK g \in 0 .. N - 1 : Gap(g, a) /\ k \in {g, g + 1}
    BY <1>7, SettledNext
  <2>2. l > g
    BY <1>1, <1>3, <2>1
  <2> QED  BY <1>2, <1>3, <1>7, <2>1, <2>2 DEF Gap
<1>8. CASE At(k) # a /\ At(l) # b
  <2>1. PICK g \in 0 .. N - 1, lo \in 1 .. N - 2 :
          Gap(g, a) /\ Neighbours(a, lo) /\ k = Closer(a, lo) /\ k \in {g, g + 1}
    BY <1>8, SettledNext
  <2>2. PICK h \in 0 .. N - 1, hi \in 1 .. N - 2 :
          Gap(h, b) /\ Neighbours(b, hi) /\ l = Closer(b, hi) /\ l \in {h, h + 1}
    BY <1>8, SettledNext
  <2>3. h <= g
    <3> SUFFICES ASSUME g < h PROVE FALSE
      BY <1>1
    <3>1. h \in 1 .. N - 1 /\ At(h) \in Int
      BY <1>1
    <3>2. At(h) > a /\ At(h) < b
      BY <1>1, <2>1, <2>2, <3>1 DEF Gap
    <3> QED  BY <3>1, <3>2
  <2>4. h = g /\ k = g /\ l = g + 1
    BY <1>1, <1>3, <2>1, <2>2, <2>3
  <2>5. lo = hi
    BY <1>1, <2>1, <2>2, <2>4, SameNeighbours
  <2>6. lo = g /\ At(g) < b /\ a < At(g + 1) /\ At(g) \in Int /\ At(g + 1) \in Int
    <3>1. lo = k /\ l = lo + 1
      BY <1>1, <2>1, <2>2, <2>4, <2>5 DEF Closer
    <3> QED  BY <1>1, <1>2, <2>1, <2>2, <2>4, <3>1 DEF Gap
  <2>7. At(g + 1) - b < b - At(g)
    BY <1>1, <2>2, <2>4, <2>5, <2>6 DEF Closer, Distance
  <2>8. ~(At(g + 1) - a < a - At(g))
    BY <1>1, <2>1, <2>4, <2>6 DEF Closer, Distance
  <2> QED  BY <2>6, <2>7, <2>8
<1> QED  BY <1>5, <1>6, <1>7, <1>8

(* Of two pairs whose search did not give up the one with the higher          *)
(* bandwidth is never ranked farther, for lists of every length: bandwidths   *)
(* between the same two elements are searched for along the same way, so that *)
(* they are compared with the same two neighbours.                            *)
THEOREM InferenceOrdered == Spec => []InferredOrder
<1>1. IInv => InferredOrder
  <2> SUFFICES ASSUME IInv, NEW p \in Pairs, NEW q \in Pairs,
                      Ranked(p[1], p[2]), Ranked(q[1], q[2]),
                      rel[p[1]][p[2]] <= N, rel[q[1]][q[2]] <= N,
                      br[p[1]][p[2]] >= br[q[1]][q[2]]
               PROVE  rel[p[1]][p[2]] <= rel[q[1]][q[2]]
    BY DEF InferredOrder
  <2>1. /\ TypeThin /\ TypeCell /\ TypeRanks /\ ThinnedOut /\ SettledInv
        /\ pc # "thin" /\ N \in Nat
    BY TypeParts DEF IInv, Ranked, TypeThin, N
  <2>2. /\ p[1] \in DC /\ p[2] \in DC /\ q[1] \in DC /\ q[2] \in DC
    BY DEF Pairs
  <2>3. /\ br[p[1]][p[2]] \in Int /\ br[q[1]][q[2]] \in Int
        /\ rel[p[1]][p[2]] \in Int /\ rel[q[1]][q[2]] \in Int
    BY <2>1, <2>2 DEF TypeCell, TypeRanks, Diagonal
  <2>4. /\ Settled(br[p[1]][p[2]], N - rel[p[1]][p[2]] + 1)
        /\ Settled(br[q[1]][q[2]], N - rel[q[1]][q[2]] + 1)
    BY <2>1 DEF SettledInv
  <2>5. N - rel[p[1]][p[2]] + 1 >= N - rel[q[1]][q[2]] + 1
    BY <2>1, <2>3, <2>4, SettledOrder
  <2> QED  BY <2>1, <2>3, <2>5
<1> QED  BY <1>1, AlwaysIInv, PTL

(* Every node receives a usable range of channels, for every prediction and   *)
(* however many nodes share it.                                               *)
THEOREM ChannelsInRange == Spec => []ChannelsUsable
<1>1. IInv => ChannelsUsable
  <2> SUFFICES ASSUME IInv, pc = "done", NEW r \in DC, NEW c \in DC
               PROVE  /\ 1 <= minChannel(r)[c] /\ minChannel(r)[c] <= maxChannel(r)[c]
                      /\ maxChannel(r)[c] <= 8
    BY DEF ChannelsUsable, CHANNELS_FACTOR
  <2>1. /\ 1 <= chAllMin[r][c] /\ chAllMin[r][c] <= chAllMax[r][c] /\ chAllMax[r][c] <= 8
        /\ chAllMin[r][c] \in Int /\ chAllMax[r][c] \in Int
    BY TypeParts DEF IInv, ChannelInv, Distributed, TypeChannels
  <2>2. regionCounts[r] \in Nat \ {0}
    BY DataAssumption
  <2>3. /\ minChannel(r)[c] = Ceil(chAllMin[r][c], regionCounts[r])
        /\ maxChannel(r)[c] = Ceil(chAllMax[r][c], regionCounts[r])
    BY DEF minChannel, maxChannel, Shared
  <2> QED  BY <2>1, <2>2, <2>3, SharedBounds
<1> QED  BY <1>1, AlwaysIInv, PTL
=============================================================================
