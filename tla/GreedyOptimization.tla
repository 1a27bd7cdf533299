------------------------- MODULE GreedyOptimization -------------------------
(***************************************************************************)
(* How many channels a sender may open to each data center, from the       *)
(* predicted bandwidths: src/optimization/greedyOptimization.py.           *)
(*                                                                         *)
(* inferDCPairRelationship thins out the sorted bandwidths, then looks up  *)
(* every pair's bandwidth in what is left with a binary search and turns   *)
(* its position, or that of a neighbour, into a rank ("one denotes closest *)
(* and higher values denote farther away").  greedyApp distributes the     *)
(* channels in proportion to the ranks and shares them among the nodes.    *)
(*                                                                         *)
(* Python's lists are sequences here, with Python's indices: At(k) is      *)
(* br_unique_list[k], and At(-1) is the last element.  Bandwidths are      *)
(* integers.  The quotients the code takes in floating point are exact     *)
(* here; for all ranks and sums up to 70 and 700 the floors and ceilings   *)
(* agree.  Left out: the target bandwidths (a product of two matrices),    *)
(* the statistics that are printed and the copying of the result.          *)
(***************************************************************************)
EXTENDS Integers, Sequences, SequencesExt

CONSTANTS
    numDCs,       \* NUM_DATACENTERS
    Predictions,  \* the predictions considered, a bandwidth for every pair
    regionCounts  \* nodes of each data center

DC == 1 .. numDCs
Pairs == {p \in DC \X DC : p[1] # p[2]}

ASSUME DataAssumption ==
    /\ numDCs \in Nat \ {0, 1}
    /\ Predictions \subseteq [Pairs -> Nat]
    /\ regionCounts \in [DC -> Nat \ {0}]

\* The diagonal that livePredictor.py puts into the matrix.
Diagonal == -1000
CHANNELS_FACTOR == 8
MIN_DIFF_FOR_INFER_RELATIONSHIP == 30

\* The matrix of a prediction, and its bandwidths, each once, in order.
Matrix(f) == [r \in DC |-> [c \in DC |-> IF r = c THEN Diagonal ELSE f[<<r, c>>]]]
Values(f) == Range(f) \union {Diagonal}
sort(S) == [k \in 1 .. Cardinality(S) |->
              CHOOSE x \in S : Cardinality({y \in S : y < x}) = k - 1]
sorted(f) == sort(Values(f))

Ascending(s) == \A k, l \in DOMAIN s : k < l => s[k] < s[l]

\* What list.sort() does.
ASSUME SortAssumption ==
    \A f \in Predictions : /\ sorted(f) \in Seq(Values(f))
                           /\ Range(sorted(f)) = Values(f)
                           /\ Ascending(sorted(f))

VARIABLES
    br,              \* br[i][j]: the bandwidth predicted between i and j
    pc,              \* "thin", "pair", "search", "rank", "sum", "channels", "done"
    br_unique_list, i, prevVal, \* the loop that thins out the list
    row, col,        \* the cell that the loops over the matrices are at
    start, end, mid, retVal, \* the binary search and its result
    rel,             \* the ranks
    resultRowWise, resultAll, \* sums of ranks
    chAllMin, chAllMax \* the channels of each pair

thinning == <<br_unique_list, i, prevVal>>
cell == <<row, col>>
search == <<start, end, mid, retVal>>
sums == <<resultRowWise, resultAll>>
channels == <<chAllMin, chAllMax>>
vars == <<br, pc, thinning, cell, search, rel, sums, channels>>

-----------------------------------------------------------------------------
Ones == [r \in DC |-> [c \in DC |-> 1]]

Init ==
    /\ \E f \in Predictions : br = Matrix(f) /\ br_unique_list = sorted(f)
    /\ pc = "thin"
    /\ i = 0 /\ prevVal = -1
    /\ row = 1 /\ col = 1
    /\ start = 0 /\ end = 0 /\ mid = 0 /\ retVal = <<-1, -1, -1>>
    /\ rel = Ones
    /\ resultRowWise = [r \in DC |-> 0] /\ resultAll = 0
    /\ chAllMin = Ones /\ chAllMax = Ones

N == Len(br_unique_list)
At(k) == IF k >= 0 THEN br_unique_list[k + 1] ELSE br_unique_list[N + 1 + k]

(* inferDCPairRelationship. *)

TooClose == /\ At(i) > 0 /\ prevVal > 0
            /\ At(i) - prevVal < MIN_DIFF_FOR_INFER_RELATIONSHIP

\* A mutant of Drop: the index is not set back after a removal.
DropSkips ==
    /\ pc = "thin" /\ i < N /\ TooClose
    /\ br_unique_list' = RemoveAt(br_unique_list, i + 1)
    /\ prevVal' = At(i - 1)
    /\ i' = i + 1
    /\ UNCHANGED <<br, pc, cell, search, rel, sums, channels>>

\* The loop removes a bandwidth that is less than 30 above the one before it
\* and stays where it is.
Drop ==
    /\ pc = "thin" /\ i < N /\ TooClose
    /\ br_unique_list' = RemoveAt(br_unique_list, i + 1)
    /\ prevVal' = At(i - 1)
    /\ UNCHANGED <<br, pc, i, cell, search, rel, sums, channels>>

Retain ==
    /\ pc = "thin" /\ i < N /\ ~TooClose
    /\ prevVal' = At(i)
    /\ i' = i + 1
    /\ UNCHANGED <<br, pc, br_unique_list, cell, search, rel, sums, channels>>

Thinned ==
    /\ pc = "thin" /\ i = N
    /\ pc' = "pair"
    /\ UNCHANGED <<br, thinning, cell, search, rel, sums, channels>>

\* The next cell of a matrix, row by row; behind the last row none is left.
NextCell == IF col < numDCs THEN col' = col + 1 /\ UNCHANGED row
            ELSE row' = row + 1 /\ col' = 1

\* The loops over a matrix are through and the next ones begin.
LoopsEnd(here, next) ==
    /\ pc = here /\ row > numDCs
    /\ pc' = next
    /\ row' = 1 /\ col' = 1
    /\ UNCHANGED <<br, thinning, search, rel, sums, channels>>

SkipDiagonal ==
    /\ pc = "pair" /\ row <= numDCs /\ row = col
    /\ NextCell
    /\ UNCHANGED <<br, pc, thinning, search, rel, sums, channels>>

(* binarySearch. *)

\* A mutant of BeginSearch: the interval ends behind the list.
BeginSearchLong ==
    /\ pc = "pair" /\ row <= numDCs /\ row # col
    /\ start' = 1 /\ end' = N /\ mid' = (N + 1) \div 2
    /\ pc' = "search"
    /\ UNCHANGED <<br, thinning, cell, retVal, rel, sums, channels>>

\* A mutant of BeginSearch: the interval leaves out the last element.
BeginSearchShort ==
    /\ pc = "pair" /\ row <= numDCs /\ row # col
    /\ start' = 1 /\ end' = N - 2 /\ mid' = (N - 1) \div 2
    /\ pc' = "search"
    /\ UNCHANGED <<br, thinning, cell, retVal, rel, sums, channels>>

BeginSearch ==
    /\ pc = "pair" /\ row <= numDCs /\ row # col
    /\ start' = 1 /\ end' = N - 1 /\ mid' = N \div 2
    /\ pc' = "search"
    /\ UNCHANGED <<br, thinning, cell, retVal, rel, sums, channels>>

searchEle == br[row][col]

Result(lower, match, upper) ==
    /\ retVal' = <<lower, match, upper>>
    /\ pc' = "rank"
    /\ UNCHANGED <<start, end, mid>>

Match ==
    /\ pc = "search" /\ start <= end /\ At(mid) = searchEle
    /\ Result(-1, mid, -1)
    /\ UNCHANGED <<br, thinning, cell, rel, sums, channels>>

\* The middle is above: the answer lies between start and mid, or the search
\* goes on below.
GoLower ==
    /\ pc = "search" /\ start <= end /\ At(mid) > searchEle
    /\ IF mid - 1 = start /\ At(mid - 1) # searchEle
       THEN Result(start, -1, mid)
       ELSE /\ end' = mid - 1
            /\ mid' = (start + mid - 1) \div 2
            /\ UNCHANGED <<start, retVal, pc>>
    /\ UNCHANGED <<br, thinning, cell, rel, sums, channels>>

\* A mutant of GoHigher: the middle stays in the interval.
GoHigherStays ==
    /\ pc = "search" /\ start <= end /\ At(mid) < searchEle
    /\ IF mid + 1 = end /\ At(mid + 1) # searchEle
       THEN Result(mid, -1, end)
       ELSE /\ start' = mid
            /\ mid' = (mid + end) \div 2
            /\ UNCHANGED <<end, retVal, pc>>
    /\ UNCHANGED <<br, thinning, cell, rel, sums, channels>>

GoHigher ==
    /\ pc = "search" /\ start <= end /\ At(mid) < searchEle
    /\ IF mid + 1 = end /\ At(mid + 1) # searchEle
       THEN Result(mid, -1, end)
       ELSE /\ start' = mid + 1
            /\ mid' = (mid + 1 + end) \div 2
            /\ UNCHANGED <<end, retVal, pc>>
    /\ UNCHANGED <<br, thinning, cell, rel, sums, channels>>

\* The interval is empty and neither a match nor two neighbours were met.
GiveUp ==
    /\ pc = "search" /\ start > end
    /\ Result(-1, -1, -1)
    /\ UNCHANGED <<br, thinning, cell, rel, sums, channels>>

Distance(a, b) == IF a < b THEN b - a ELSE a - b

\* A mutant of Nearest: the farther neighbour.
NearestSwapped ==
    IF Distance(At(retVal[1]), searchEle) > Distance(At(retVal[3]), searchEle)
    THEN retVal[1] ELSE retVal[3]

\* The closer neighbour, both of them -1 when the search gave up.
Nearest ==
    IF Distance(At(retVal[1]), searchEle) > Distance(At(retVal[3]), searchEle)
    THEN retVal[3] ELSE retVal[1]

AssignRank ==
    /\ pc = "rank"
    /\ rel' = [rel EXCEPT ![row][col] =
                  N - (IF retVal[2] > 0 THEN retVal[2] ELSE Nearest) + 1]
    /\ NextCell
    /\ pc' = "pair"
    /\ UNCHANGED <<br, thinning, search, sums, channels>>

(* greedyApp. *)

AddRank ==
    /\ pc = "sum" /\ row <= numDCs
    /\ resultRowWise' = [resultRowWise EXCEPT ![row] = @ + rel[row][col]]
    /\ resultAll' = resultAll + rel[row][col]
    /\ NextCell
    /\ UNCHANGED <<br, pc, thinning, search, rel, channels>>

Ceil(a, b) == (a + b - 1) \div b
AtLeast(least, a) == IF a < least THEN least ELSE a

\* A mutant of MinChannels: no lower bound.
MinChannelsUnbounded(rank) == (rank * (CHANNELS_FACTOR - 1)) \div resultAll

MinChannels(rank) == AtLeast(1, (rank * (CHANNELS_FACTOR - 1)) \div resultAll)
MaxChannels(rank) == Ceil(rank * CHANNELS_FACTOR, resultRowWise[row])

Distribute ==
    /\ pc = "channels" /\ row <= numDCs
    /\ IF row # col
       THEN /\ chAllMin' = [chAllMin EXCEPT ![row][col] = MinChannels(rel[row][col])]
            /\ chAllMax' = [chAllMax EXCEPT ![row][col] = MaxChannels(rel[row][col])]
       ELSE /\ chAllMin' = [chAllMin EXCEPT ![row][col] = rel[row][col]]
            /\ chAllMax' = [chAllMax EXCEPT ![row][col] = rel[row][col]]
    /\ NextCell
    /\ UNCHANGED <<br, pc, thinning, search, rel, sums>>

\* minChannel.pkl and maxChannel.pkl of the nodes of data center r: its row,
\* divided among them.
Shared(channel, r) == [c \in DC |-> Ceil(channel[r][c], regionCounts[r])]
minChannel(r) == Shared(chAllMin, r)
maxChannel(r) == Shared(chAllMax, r)

Finished == pc = "done" /\ UNCHANGED vars

Next == \/ Drop \/ Retain \/ Thinned
        \/ SkipDiagonal \/ BeginSearch \/ Match \/ GoLower \/ GoHigher \/ GiveUp
        \/ AssignRank \/ LoopsEnd("pair", "sum")
        \/ AddRank \/ LoopsEnd("sum", "channels")
        \/ Distribute \/ LoopsEnd("channels", "done")
        \/ Finished

Spec == Init /\ [][Next]_vars

\* A function that is called and runs.
FairSpec == Spec /\ WF_vars(Next)

-----------------------------------------------------------------------------
(* Properties. *)

\* Every variable has its type: in particular the search never reads the list
\* outside its bounds, nor the diagonal's -1000 at index 0.
TypeOK ==
    /\ br \in [DC -> [DC -> Nat \union {Diagonal}]]
    /\ pc \in {"thin", "pair", "search", "rank", "sum", "channels", "done"}
    /\ br_unique_list \in Seq(Int) /\ N >= 1
    /\ i \in 0 .. N /\ prevVal \in Int
    /\ row \in 1 .. numDCs + 1 /\ col \in DC
    /\ pc \in {"search", "rank"} => row # col /\ row \in DC
    /\ start \in Int /\ end \in Int /\ mid \in Int
    /\ pc = "search" /\ start <= end => 1 <= start /\ start <= mid /\ mid <= end /\ end < N
    /\ retVal \in [1 .. 3 -> {-1} \union 1 .. N]
    /\ rel \in [DC -> [DC -> Nat \ {0}]]
    /\ resultRowWise \in [DC -> Nat] /\ resultAll \in Nat
    /\ chAllMin \in [DC -> [DC -> Int]] /\ chAllMax \in [DC -> [DC -> Int]]

\* The cells the current loops have been through.
Before(r, c) == r < row \/ (r = row /\ c < col)

\* Ranks that are final.
Ranked(r, c) == /\ r # c
                /\ \/ pc \in {"sum", "channels", "done"}
                   \/ pc \in {"pair", "search", "rank"} /\ Before(r, c)

\* Thinning keeps the order, leaves no two positive bandwidths less than 30
\* apart, and drops one only for another that is less than 30 below it,
\* although the loop shortens the list it walks over.
ThinnedOut ==
    pc # "thin" =>
        /\ Ascending(br_unique_list)
        /\ \A k, l \in 1 .. N : br_unique_list[k] > 0 /\ k < l =>
              br_unique_list[l] - br_unique_list[k] >= MIN_DIFF_FOR_INFER_RELATIONSHIP
        /\ \A v \in (UNION {Range(br[r]) : r \in DC}) \ Range(br_unique_list) :
              \E k \in 1 .. N : /\ 0 < br_unique_list[k] /\ br_unique_list[k] < v
                               /\ v - br_unique_list[k] < MIN_DIFF_FOR_INFER_RELATIONSHIP

\* The search is complete: a bandwidth that is on the list is found whatever
\* its place, its early return with two neighbours never passes over it, and
\* its rank counts the bandwidths from the top down, the highest having 2.
ListedRank ==
    \A p \in Pairs : Ranked(p[1], p[2]) =>
        \A k \in 1 .. N - 1 : At(k) = br[p[1]][p[2]] => rel[p[1]][p[2]] = N - k + 1

\* Inference keeps the order: of two pairs whose search ended with a match or
\* with neighbours, the one with the higher bandwidth is never ranked farther.
\* (A search that gives up ranks the pair N + 2, farther than all others.)
InferredOrder ==
    \A p, q \in Pairs :
        /\ Ranked(p[1], p[2]) /\ Ranked(q[1], q[2])
        /\ rel[p[1]][p[2]] <= N /\ rel[q[1]][q[2]] <= N
        /\ br[p[1]][p[2]] >= br[q[1]][q[2]]
        => rel[p[1]][p[2]] <= rel[q[1]][q[2]]

\* What the nodes receive is a range they can use: at least one channel, at
\* most the eight that the port control of the transfer service counts with,
\* and a minimum that is not above the maximum.
ChannelsUsable ==
    pc = "done" =>
        \A r, c \in DC : /\ 1 <= minChannel(r)[c]
                         /\ minChannel(r)[c] <= maxChannel(r)[c]
                         /\ maxChannel(r)[c] <= CHANNELS_FACTOR

\* All loops end, the one that shortens its list and the search that has no
\* interval left included.
Terminates == <>(pc = "done")

\* "one denotes closest and higher values denote farther away": of two pairs
\* the one with the higher bandwidth is never ranked farther.
ClosenessOrder ==
    \A p, q \in Pairs :
        /\ Ranked(p[1], p[2]) /\ Ranked(q[1], q[2])
        /\ br[p[1]][p[2]] >= br[q[1]][q[2]]
        => rel[p[1]][p[2]] <= rel[q[1]][q[2]]
=============================================================================
