------------------------ MODULE MCGreedyOptimization ------------------------
(* Four data centers, one of them with two nodes. *)
EXTENDS GreedyOptimization

\* Bandwidths less than 30 apart, exactly 30 apart and farther apart, in the
\* middle and at both ends; 0 is a pair without a prediction.
MCBandwidths == {0, 20, 100, 115, 140, 150, 180, 240, 300, 310, 345}

\* The position of a pair when the matrix is read row by row.
Position(p) == 3 * (p[1] - 1) + (IF p[2] > p[1] THEN p[2] - 1 ELSE p[2])

\* Every set of these bandwidths, laid out in ascending order; and matrices
\* with a bandwidth for each row.
MCPredictions ==
    {[p \in Pairs |->
        LET n == Cardinality(S) IN sort(S)[IF Position(p) < n THEN Position(p) ELSE n]] :
     S \in SUBSET MCBandwidths \ {{}}}
    \union {[p \in Pairs |-> f[p[1]]] : f \in [1 .. 4 -> {100, 115, 300}]}

MCRegionCounts == <<1, 2, 1, 1>>
=============================================================================
