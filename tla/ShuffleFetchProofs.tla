--------------------------- MODULE ShuffleFetchProofs --------------------------
(***************************************************************************)
(* The safety properties of ShuffleFetch for every value of its constants, *)
(* after facts about the operators it is built from: the size of a set of  *)
(* blocks, how the blocks are split into requests and local ones, and how  *)
(* the fetches of a request are numbered.                                  *)
(***************************************************************************)
EXTENDS ShuffleFetch, FoldTheorems, SequenceTheorems

--------------------------------------------------------------------------------
Sized(S)  == IsFiniteSet(S) /\ \A b \in S : b.size \in Nat

--------------------------------------------------------------------------------
(* SizeOf.                                                                 *)

First(T) == CHOOSE x \in T : TRUE
Sums(f, S) ==
  f = [T \in SUBSET S |-> IF T = {} THEN 0 ELSE First(T).size + f[T \ {First(T)}]]

(* SizeOf is the fold of MapThenSumSet.                                    *)
LEMMA SizeOfExpand == ASSUME NEW S PROVE SizeOf(S) = (CHOOSE f : Sums(f, S))[S]
BY DEF SizeOf, MapThenSumSet, MapThenFoldSet, Sums, First

(* The fold exists.                                                        *)
LEMMA SumsExist ==
  ASSUME NEW S, Sized(S)
  PROVE  \E f : f \in [SUBSET S -> Nat] /\ Sums(f, S)
<1> DEFINE pick == [T \in SUBSET S |-> First(T)]
           op == [p \in S \X Nat |-> p[1].size + p[2]]
<1>1. \A T \in SUBSET S : T # {} => pick[T] \in T
  BY DEF First
<1>2. \A x \in S, a \in Nat : op[<<x, a>>] = x.size + a /\ op[<<x, a>>] \in Nat
  BY DEF Sized
<1>3. PICK f \in [SUBSET S -> Nat] : Folds(f, op, 0, pick, S)
  <2>1. Combines(op, S, Nat) /\ Picks(pick, S)
    BY <1>1, <1>2 DEF Combines, Picks
  <2> HIDE DEF pick, op
  <2> QED BY <2>1, SetRecursion DEF Sized
<1>4. \A T \in SUBSET S : T # {} => /\ First(T) \in S /\ T \ {First(T)} \in SUBSET S
                                    /\ f[T \ {First(T)}] \in Nat
  BY <1>1
<1>5. \A T \in SUBSET S : f[T] = IF T = {} THEN 0 ELSE First(T).size + f[T \ {First(T)}]
  <2> TAKE T \in SUBSET S
  <2>1. CASE T = {} BY <1>3, <2>1 DEF Folds
  <2>2. CASE T # {}
    <3>1. f[T] = op[<<First(T), f[T \ {First(T)}]>>] BY <1>3, <2>2 DEF Folds
    <3> QED BY <3>1, <1>4, <1>2, <2>2
  <2> QED BY <2>1, <2>2
<1>6. Sums(f, S)
  BY <1>5 DEF Sums
<1> QED BY <1>6

(* It is what SizeOf gives for every subset.                               *)
LEMMA SumsUnique ==
  ASSUME NEW S, Sized(S), NEW f, Sums(f, S), NEW g, NEW T \in SUBSET S, Sums(g, T)
  PROVE  f[T] = g[T]
<1> DEFINE Bad == {V \in SUBSET T : f[V] # g[V]}
<1>1. SUFFICES ASSUME Bad # {} PROVE FALSE
  OBVIOUS
<1>2. PICK V \in Bad : \A U \in Bad : U \subseteq V => U = V
  <2>1. IsFiniteSet(T) /\ Bad \in SUBSET (SUBSET T)
    BY FS_Subset DEF Sized
  <2> HIDE DEF Bad
  <2> QED BY <1>1, <2>1, SmallestSubset
<1>3. V # {} /\ V \in SUBSET S
  BY <1>2 DEF Sums
<1> DEFINE U == V \ {First(V)}
<1>4. First(V) \in V
  BY <1>3 DEF First
<1>5. U \in SUBSET T /\ U \subseteq V /\ U # V /\ U \in SUBSET S
  BY <1>4, <1>2
<1>6. f[U] = g[U]
  BY <1>2, <1>5
<1>7. f[V] = First(V).size + f[U] /\ g[V] = First(V).size + g[U]
  BY <1>2, <1>3 DEF Sums
<1> QED BY <1>2, <1>6, <1>7

(* The size of no blocks is 0, and blocks are summed one by one.           *)
LEMMA SizeOfStep ==
  ASSUME NEW S, Sized(S)
  PROVE  /\ SizeOf(S) \in Nat
         /\ S = {} => SizeOf(S) = 0
         /\ S # {} => /\ First(S) \in S
                      /\ SizeOf(S) = First(S).size + SizeOf(S \ {First(S)})
<1> DEFINE f == CHOOSE h : Sums(h, S)
           T == S \ {First(S)}
           g == CHOOSE h : Sums(h, T)
<1>1. PICK h : h \in [SUBSET S -> Nat] /\ Sums(h, S)
  BY SumsExist
<1>2. Sums(f, S)
  BY <1>1
<1>3. Sized(T)
  BY FS_Subset DEF Sized
<1>4. Sums(g, T)
  <2>1. \E k : Sums(k, T)
    BY <1>3, SumsExist
  <2> QED BY <2>1
<1>5. SizeOf(S) = f[S] /\ SizeOf(T) = g[T]
  BY SizeOfExpand
<1> HIDE DEF f, g
<1>6. f[S] = h[S]
  BY <1>1, <1>2, SumsUnique
<1>7. f[T] = g[T]
  BY <1>2, <1>4, SumsUnique
<1>8. S # {} => First(S) \in S
  BY DEF First
<1>9. f[S] = IF S = {} THEN 0 ELSE First(S).size + f[T]
  BY <1>2 DEF Sums
<1> QED BY <1>1, <1>5, <1>6, <1>7, <1>8, <1>9

(* The order does not matter.                                              *)
LEMMA SizeOfRemove ==
  ASSUME NEW S, Sized(S), NEW x \in S
  PROVE  SizeOf(S) = x.size + SizeOf(S \ {x})
<1> DEFINE Bad == {V \in SUBSET S : \E y \in V : SizeOf(V) # y.size + SizeOf(V \ {y})}
<1>1. SUFFICES ASSUME Bad # {} PROVE FALSE
  OBVIOUS
<1>2. PICK V \in Bad : \A U \in Bad : U \subseteq V => U = V
  <2>1. IsFiniteSet(S) /\ Bad \in SUBSET (SUBSET S)
    BY DEF Sized
  <2> HIDE DEF Bad
  <2> QED BY <1>1, <2>1, SmallestSubset
<1>3. PICK y \in V : SizeOf(V) # y.size + SizeOf(V \ {y})
  BY <1>2
<1> DEFINE c == First(V)
<1>4. \A U \in SUBSET S : Sized(U)
  BY FS_Subset DEF Sized
<1>5. c \in V /\ SizeOf(V) = c.size + SizeOf(V \ {c})
  BY <1>2, <1>4, SizeOfStep
<1> HIDE DEF c
<1>6. y # c
  BY <1>3, <1>5
<1>7. SizeOf(V \ {c}) = y.size + SizeOf((V \ {c}) \ {y})
  <2>1. V \ {c} \in SUBSET S /\ V \ {c} \notin Bad /\ y \in V \ {c}
    BY <1>2, <1>5, <1>6
  <2> QED BY <2>1
<1>8. SizeOf(V \ {y}) = c.size + SizeOf((V \ {y}) \ {c})
  <2>1. V \ {y} \in SUBSET S /\ V \ {y} \notin Bad /\ c \in V \ {y}
    BY <1>2, <1>3, <1>5, <1>6
  <2> QED BY <2>1
<1> DEFINE W == V \ {c, y}
<1>9. (V \ {c}) \ {y} = W /\ (V \ {y}) \ {c} = W
  OBVIOUS
<1>10. SizeOf(W) \in Nat /\ c.size \in Nat /\ y.size \in Nat
  BY <1>4, <1>5, SizeOfStep DEF Sized
<1>11. SizeOf(V) = c.size + (y.size + SizeOf(W))
  BY <1>5, <1>7, <1>9
<1>12. y.size + SizeOf(V \ {y}) = y.size + (c.size + SizeOf(W))
  BY <1>8, <1>9
<1> HIDE DEF W
<1>13. SizeOf(V) = y.size + SizeOf(V \ {y})
  BY <1>10, <1>11, <1>12
<1> QED BY <1>13, <1>3

(* A block more.                                                           *)
LEMMA SizeOfAdd ==
  ASSUME NEW S, Sized(S), NEW x, x \notin S, x.size \in Nat
  PROVE  Sized(S \cup {x}) /\ SizeOf(S \cup {x}) = SizeOf(S) + x.size
<1>1. Sized(S \cup {x})
  BY FS_AddElement DEF Sized
<1>2. (S \cup {x}) \ {x} = S
  OBVIOUS
<1>3. SizeOf(S \cup {x}) = x.size + SizeOf(S)
  BY <1>1, <1>2, SizeOfRemove
<1>4. SizeOf(S) \in Nat
  BY SizeOfStep
<1> QED BY <1>1, <1>3, <1>4

(* No blocks.                                                              *)
LEMMA SizeOfEmpty == Sized({}) /\ SizeOf({}) = 0
BY FS_EmptySet, SizeOfStep DEF Sized

(* Blocks of a positive size have one.                                     *)
LEMMA SizeOfPositive ==
  ASSUME NEW S, Sized(S), NEW x \in S
  PROVE  SizeOf(S) >= x.size
<1>1. Sized(S \ {x})
  BY FS_Subset DEF Sized
<1>2. SizeOf(S \ {x}) \in Nat /\ x.size \in Nat
  BY <1>1, SizeOfStep DEF Sized
<1> QED BY <1>2, SizeOfRemove

(* Two sets apart.                                                         *)
LEMMA SizeOfUnion ==
  ASSUME NEW S, Sized(S), NEW T, Sized(T), S \cap T = {}
  PROVE  Sized(S \cup T) /\ SizeOf(S \cup T) = SizeOf(S) + SizeOf(T)
<1> DEFINE G == {U \in SUBSET T : Sized(S \cup U) /\ SizeOf(S \cup U) = SizeOf(S) + SizeOf(U)}
<1>1. \A U \in SUBSET T : Sized(U) /\ SizeOf(U) \in Nat
  BY FS_Subset, SizeOfStep DEF Sized
<1>2. SizeOf(S) \in Nat
  BY SizeOfStep
<1>3. {} \in G
  <2>1. S \cup {} = S
    OBVIOUS
  <2> QED BY <2>1, <1>2, SizeOfEmpty
<1>4. ASSUME NEW U \in SUBSET T, U \in G, NEW x \in T \ U PROVE U \cup {x} \in G
  <2>1. x \notin S \cup U /\ x.size \in Nat /\ x \notin U
    BY <1>4 DEF Sized
  <2>2. Sized((S \cup U) \cup {x}) /\ SizeOf((S \cup U) \cup {x}) = SizeOf(S \cup U) + x.size
    BY <2>1, <1>4, SizeOfAdd
  <2>3. SizeOf(U \cup {x}) = SizeOf(U) + x.size
    BY <2>1, <1>1, SizeOfAdd
  <2>4. (S \cup U) \cup {x} = S \cup (U \cup {x})
    OBVIOUS
  <2> QED BY <2>1, <2>2, <2>3, <2>4, <1>1, <1>2, <1>4
<1>5. T \in G
  <2>1. IsFiniteSet(T)
    BY DEF Sized
  <2> HIDE DEF G
  <2> QED BY <2>1, <1>3, <1>4, SetInduction
<1> QED BY <1>5

(* Two sets that correspond one to one with equal sizes.                   *)
LEMMA SizeOfImage ==
  ASSUME NEW S, Sized(S), NEW g, DOMAIN g = S,
         \A x \in S : g[x].size = x.size,
         \A x, y \in S : g[x] = g[y] => x = y
  PROVE  LET I == {g[x] : x \in S}
         IN /\ Sized(I) /\ SizeOf(I) = SizeOf(S)
            /\ Cardinality(I) = Cardinality(S)
<1> DEFINE I(U) == {g[x] : x \in U}
           G == {U \in SUBSET S : /\ Sized(I(U)) /\ SizeOf(I(U)) = SizeOf(U)
                                  /\ Cardinality(I(U)) = Cardinality(U)}
<1>1. \A U \in SUBSET S : Sized(U) /\ SizeOf(U) \in Nat
  BY FS_Subset, SizeOfStep DEF Sized
<1>2. {} \in G
  <2>1. I({}) = {}
    OBVIOUS
  <2> QED BY <2>1, SizeOfEmpty
<1>3. ASSUME NEW U \in SUBSET S, U \in G, NEW x \in S \ U PROVE U \cup {x} \in G
  <2>1. g[x] \notin I(U) /\ g[x].size = x.size /\ x.size \in Nat /\ x \notin U
    BY <1>3 DEF Sized
  <2>2. I(U \cup {x}) = I(U) \cup {g[x]}
    OBVIOUS
  <2> HIDE DEF I
  <2>3. Sized(I(U) \cup {g[x]}) /\ SizeOf(I(U) \cup {g[x]}) = SizeOf(I(U)) + x.size
    BY <2>1, <1>3, SizeOfAdd
  <2>4. SizeOf(U \cup {x}) = SizeOf(U) + x.size
    BY <2>1, <1>1, SizeOfAdd
  <2>5. /\ Cardinality(I(U) \cup {g[x]}) = Cardinality(I(U)) + 1
        /\ Cardinality(U \cup {x}) = Cardinality(U) + 1
    BY <2>1, <1>1, <1>3, FS_AddElement DEF Sized
  <2> QED BY <2>2, <2>3, <2>4, <2>5, <1>3
<1>4. S \in G
  <2>1. IsFiniteSet(S)
    BY DEF Sized
  <2> HIDE DEF G
  <2> QED BY <2>1, <1>2, <1>3, SetInduction
<1> QED BY <1>4

--------------------------------------------------------------------------------
(* splitLocalRemoteBlocks.                                                 *)

BlockRecord == [id : {b.id : b \in Blocks}, size : Nat]
Wanted      == [id : ToFetch, size : Nat \ {0}]     \* the blocks that are not empty

DistinctIds(infos) ==
  \A i, j \in DOMAIN infos : infos[i].id = infos[j].id => i = j

(* The non-empty ones of the first k. *)
Prefix(infos, k) == {infos[i] : i \in {i \in 1 .. k : infos[i].size # 0}}

(* What the iterator is given.                                             *)
LEMMA EntryFacts ==
  /\ \A e \in Entries :
       /\ e[1] \in Addresses /\ e[2] \in Seq(BlockRecord) /\ DistinctIds(e[2])
       /\ Prefix(e[2], Len(e[2])) \subseteq Wanted
  /\ \A d, e \in Entries : d[1] = e[1] => d = e
  /\ \A d, e \in Entries :
       \A b \in Prefix(d[2], Len(d[2])), c \in Prefix(e[2], Len(e[2])) :
         b.id = c.id => d = e /\ b = c
  /\ IsFiniteSet(Entries)
<1>1. BlocksByAddress \in Seq(Addresses \X Seq(BlockRecord))
  BY BlocksAssumption DEF BlockRecord
<1>2. \A e \in Entries : e \in Addresses \X Seq(BlockRecord)
  BY <1>1 DEF Entries, ToSet
<1>3. ASSUME NEW e \in Entries, NEW i \in 1 .. Len(e[2]) PROVE e[2][i] \in Blocks
  BY <1>2 DEF Blocks, ToSet
<1>4. ASSUME NEW e \in Entries, NEW b \in Prefix(e[2], Len(e[2])) PROVE b \in Wanted
  <2>1. PICK i \in 1 .. Len(e[2]) : b = e[2][i] /\ b.size # 0
    BY DEF Prefix
  <2>2. b \in Blocks /\ b \in BlockRecord
    BY <1>2, <1>3, <2>1
  <2> QED BY <2>1, <2>2 DEF Wanted, BlockRecord, ToFetch
<1>5. \A e \in Entries : DistinctIds(e[2])
  BY <1>2, BlocksAssumption DEF DistinctIds
<1>6. \A d, e \in Entries : d[1] = e[1] => d = e
  BY BlocksAssumption DEF Entries, ToSet
<1>7. ASSUME NEW d \in Entries, NEW e \in Entries, NEW b \in Prefix(d[2], Len(d[2])),
             NEW c \in Prefix(e[2], Len(e[2])), b.id = c.id
      PROVE  d = e /\ b = c
  <2>1. PICK i \in DOMAIN d[2] : b = d[2][i]
    BY <1>2 DEF Prefix
  <2>2. PICK j \in DOMAIN e[2] : c = e[2][j]
    BY <1>2 DEF Prefix
  <2> QED BY <2>1, <2>2, <1>7, BlocksAssumption
<1>8. IsFiniteSet(Entries)
  <2>1. IsFiniteSet(DOMAIN BlocksByAddress)
    BY <1>1, FS_Interval
  <2>2. BlocksByAddress \in Surjection(DOMAIN BlocksByAddress, Entries)
    BY <1>1 DEF Entries, ToSet, Surjection
  <2> QED BY <2>1, <2>2, FS_Surjection
<1> QED BY <1>2, <1>4, <1>5, <1>6, <1>7, <1>8

Keeps(f, infos) ==
  f = [k \in 0 .. Len(infos) |->
         IF k = 0 THEN <<>>
         ELSE IF infos[k].size = 0 THEN f[k - 1] ELSE Append(f[k - 1], infos[k])]

(* NonEmpty keeps the blocks that are not empty, each once.                *)
LEMMA NonEmptyFacts ==
  ASSUME NEW infos \in Seq(BlockRecord), DistinctIds(infos)
  PROVE  /\ NonEmpty(infos) \in Seq(Prefix(infos, Len(infos)))
         /\ DistinctIds(NonEmpty(infos))
<1> DEFINE n == Len(infos)
           A == Seq(BlockRecord)
           op == [p \in (1 .. n) \X A |->
                    IF infos[p[1]].size = 0 THEN p[2] ELSE Append(p[2], infos[p[1]])]
           kept == CHOOSE f : Keeps(f, infos)
<1>1. n \in Nat /\ \A k \in 1 .. n : infos[k] \in BlockRecord
  OBVIOUS
<1>2. Keeps(kept, infos)
  <2>1. Steps(op, n, A)
    BY <1>1 DEF Steps
  <2>2. <<>> \in A
    OBVIOUS
  <2>3. PICK f \in [0 .. n -> A] : Iterates(f, op, <<>>, n)
    <3> HIDE DEF op, n, A
    <3> QED BY <1>1, <2>1, <2>2, CountRecursion
  <2>4. ASSUME NEW k \in 0 .. n
        PROVE  f[k] = IF k = 0 THEN <<>>
                      ELSE IF infos[k].size = 0 THEN f[k - 1]
                      ELSE Append(f[k - 1], infos[k])
    <3>1. CASE k = 0
      BY <3>1, <2>3 DEF Iterates
    <3>2. CASE k # 0
      <4>1. k \in 1 .. n /\ k - 1 \in 0 .. n
        BY <3>2, <1>1
      <4>2. f[k - 1] \in A
        BY <4>1, <2>3
      <4>3. f[k] = op[<<k, f[k - 1]>>]
        <5> HIDE DEF op
        <5> QED BY <3>2, <2>3 DEF Iterates
      <4> QED BY <4>1, <4>2, <4>3, <3>2
    <3> QED BY <3>1, <3>2
  <2>5. Keeps(f, infos)
    BY <2>3, <2>4 DEF Keeps
  <2> HIDE DEF op
  <2> QED BY <2>5
<1>3. NonEmpty(infos) = kept[n]
  BY DEF NonEmpty, Keeps
<1> HIDE DEF kept
<1> DEFINE G == {k \in Nat : kept[k] \in Seq(Prefix(infos, k)) /\ DistinctIds(kept[k])}
<1>4. 0 \in G
  <2>1. kept[0] = <<>>
    BY <1>1, <1>2 DEF Keeps
  <2>2. <<>> \in Seq(Prefix(infos, 0)) /\ DistinctIds(<<>>)
    BY DEF DistinctIds
  <2> QED BY <2>1, <2>2
<1>5. ASSUME NEW k \in 1 .. n, k - 1 \in G PROVE k \in G
  <2> DEFINE old == kept[k - 1]
  <2>1. old \in Seq(Prefix(infos, k - 1)) /\ DistinctIds(old) /\ k \in Nat
    BY <1>5
  <2>2. kept[k] = IF infos[k].size = 0 THEN old ELSE Append(old, infos[k])
    <3>1. k \in 0 .. Len(infos) /\ k # 0
      BY <1>1
    <3> QED BY <3>1, <1>2 DEF Keeps
  <2> HIDE DEF old
  <2>3. Prefix(infos, k - 1) \subseteq Prefix(infos, k)
    BY DEF Prefix
  <2>4. old \in Seq(Prefix(infos, k))
    BY <2>1, <2>3
  <2>5. CASE infos[k].size = 0
    BY <2>1, <2>2, <2>4, <2>5
  <2>6. CASE infos[k].size # 0
    <3>1. infos[k] \in Prefix(infos, k)
      BY <2>6 DEF Prefix
    <3>2. \A b \in Prefix(infos, k - 1) : b.id # infos[k].id
      BY <1>1 DEF Prefix, DistinctIds
    <3>3. kept[k] = Append(old, infos[k])
      BY <2>2, <2>6
    <3>4. kept[k] \in Seq(Prefix(infos, k))
      BY <3>1, <3>3, <2>4
    <3>5. DistinctIds(kept[k])
      BY <3>2, <3>3, <2>1 DEF DistinctIds
    <3> QED BY <3>4, <3>5, <2>1
  <2> QED BY <2>5, <2>6
<1>6. n \in G
  <2> HIDE DEF G, n
  <2> QED BY <1>1, <1>4, <1>5, SegmentInduction
<1> QED BY <1>3, <1>6

Request(addr, blocks) == [addr |-> addr, blocks |-> blocks]
Full(blocks) == SizeOf(blocks) >= TargetRequestSize \/ Cardinality(blocks) >= MaxBlocks
CutStep(addr, c, b) ==
  LET blocks == c.cur \cup {b}
  IN IF Full(blocks)
     THEN [made |-> c.made \cup {Request(addr, blocks)}, cur |-> {}]
     ELSE [made |-> c.made, cur |-> blocks]
Cuts(f, addr, infos) ==
  f = [k \in 0 .. Len(infos) |->
         IF k = 0 THEN [made |-> {}, cur |-> {}]
         ELSE IF infos[k].size = 0 THEN f[k - 1] ELSE CutStep(addr, f[k - 1], infos[k])]

(* Requests made of the blocks in P, none of them in two. *)
Partition(reqs, addr, P) ==
  /\ IsFiniteSet(reqs)
  /\ \A r \in reqs : /\ r = Request(addr, r.blocks)
                     /\ r.blocks \subseteq P /\ r.blocks # {} /\ IsFiniteSet(r.blocks)
  /\ \A q, r \in reqs : \A b \in q.blocks : b \in r.blocks => q = r

(* A request of blocks that are in none yet.                               *)
LEMMA PartitionAdd ==
  ASSUME NEW reqs, NEW addr, NEW P, Partition(reqs, addr, P), NEW blocks \in SUBSET P,
         blocks # {}, IsFiniteSet(blocks), \A r \in reqs : \A b \in r.blocks : b \notin blocks
  PROVE  Partition(reqs \cup {Request(addr, blocks)}, addr, P)
<1>1. Request(addr, blocks).blocks = blocks
  BY DEF Request
<1>2. IsFiniteSet(reqs \cup {Request(addr, blocks)})
  BY FS_AddElement DEF Partition
<1> QED BY <1>1, <1>2 DEF Partition

(* CutRequests puts every non-empty block in one request.                  *)
LEMMA CutFacts ==
  ASSUME NEW infos \in Seq(BlockRecord), DistinctIds(infos), NEW addr
  PROVE  Partition(CutRequests(addr, infos), addr, Prefix(infos, Len(infos)))
<1> DEFINE n == Len(infos)
           P == Prefix(infos, n)
           A == [made : SUBSET [addr : {addr}, blocks : SUBSET P], cur : SUBSET P]
           first == [made |-> {}, cur |-> {}]
           op == [p \in (1 .. n) \X A |->
                    IF infos[p[1]].size = 0 THEN p[2] ELSE CutStep(addr, p[2], infos[p[1]])]
           cut == CHOOSE f : Cuts(f, addr, infos)
<1>1. n \in Nat /\ \A k \in 1 .. n : infos[k] \in BlockRecord
  OBVIOUS
<1>2. ASSUME NEW k \in 1 .. n, infos[k].size # 0, NEW c \in A
      PROVE  CutStep(addr, c, infos[k]) \in A
  <2>1. infos[k] \in P
    BY <1>2 DEF Prefix
  <2> QED BY <2>1 DEF CutStep, Request
<1>3. Cuts(cut, addr, infos)
  <2>1. Steps(op, n, A)
    <3> HIDE DEF A
    <3> QED BY <1>2 DEF Steps
  <2>2. first \in A
    OBVIOUS
  <2>3. PICK f \in [0 .. n -> A] : Iterates(f, op, first, n)
    <3> HIDE DEF op, n, A, first
    <3> QED BY <1>1, <2>1, <2>2, CountRecursion
  <2>4. ASSUME NEW k \in 0 .. n
        PROVE  f[k] = IF k = 0 THEN first
                      ELSE IF infos[k].size = 0 THEN f[k - 1]
                      ELSE CutStep(addr, f[k - 1], infos[k])
    <3>1. CASE k = 0
      BY <3>1, <2>3 DEF Iterates
    <3>2. CASE k # 0
      <4>1. k \in 1 .. n /\ k - 1 \in 0 .. n
        BY <3>2, <1>1
      <4>2. f[k - 1] \in A
        BY <4>1, <2>3
      <4>3. f[k] = op[<<k, f[k - 1]>>]
        <5> HIDE DEF op
        <5> QED BY <3>2, <2>3 DEF Iterates
      <4> HIDE DEF A
      <4> QED BY <4>1, <4>2, <4>3, <3>2
    <3> QED BY <3>1, <3>2
  <2>5. Cuts(f, addr, infos)
    BY <2>3, <2>4 DEF Cuts
  <2> HIDE DEF op
  <2> QED BY <2>5
<1>4. CutRequests(addr, infos) =
        IF cut[n].cur = {} THEN cut[n].made ELSE cut[n].made \cup {Request(addr, cut[n].cur)}
  BY DEF CutRequests, Cuts, CutStep, Full, Request
<1> HIDE DEF cut
<1> DEFINE Good(c, k) ==
             /\ Partition(c.made, addr, Prefix(infos, k))
             /\ c.cur \subseteq Prefix(infos, k) /\ IsFiniteSet(c.cur)
             /\ \A r \in c.made : \A b \in r.blocks : b \notin c.cur
           G == {k \in Nat : Good(cut[k], k)}
<1>5. 0 \in G
  <2>1. cut[0] = first
    BY <1>1, <1>3 DEF Cuts
  <2>2. Partition({}, addr, Prefix(infos, 0)) /\ IsFiniteSet({})
    BY FS_EmptySet DEF Partition
  <2>3. Good(first, 0)
    BY <2>2
  <2> HIDE DEF Good
  <2> QED BY <2>1, <2>3
<1>6. ASSUME NEW k \in 1 .. n, k - 1 \in G PROVE k \in G
  <2> DEFINE old == cut[k - 1]
             now == Prefix(infos, k)
  <2>1. Good(old, k - 1) /\ k \in Nat
    BY <1>6
  <2>2. cut[k] = IF infos[k].size = 0 THEN old ELSE CutStep(addr, old, infos[k])
    <3>1. k \in 0 .. Len(infos) /\ k # 0
      BY <1>1
    <3> QED BY <3>1, <1>3 DEF Cuts
  <2> HIDE DEF old
  <2>3. Prefix(infos, k - 1) \subseteq now
    BY DEF Prefix
  <2>4. Good(old, k)
    BY <2>1, <2>3 DEF Partition
  <2>5. CASE infos[k].size = 0
    BY <2>1, <2>2, <2>4, <2>5
  <2>6. CASE infos[k].size # 0
    <3> DEFINE blocks == old.cur \cup {infos[k]}
    <3>1. infos[k] \in now
      BY <2>6 DEF Prefix
    <3>2. infos[k] \notin Prefix(infos, k - 1)
      BY <1>1 DEF Prefix, DistinctIds
    <3>3. blocks \subseteq now /\ blocks # {} /\ IsFiniteSet(blocks)
      BY <3>1, <2>4, FS_AddElement
    <3>4. \A r \in old.made : \A b \in r.blocks : b \notin blocks
      BY <3>2, <2>1 DEF Partition
    <3>5. cut[k] = IF Full(blocks)
                   THEN [made |-> old.made \cup {Request(addr, blocks)}, cur |-> {}]
                   ELSE [made |-> old.made, cur |-> blocks]
      BY <2>2, <2>6 DEF CutStep
    <3> HIDE DEF blocks
    <3>6. Partition(old.made \cup {Request(addr, blocks)}, addr, now)
      <4>1. Partition(old.made, addr, now)
        BY <2>4
      <4> HIDE DEF now
      <4> QED BY <4>1, <3>3, <3>4, PartitionAdd
    <3>7. Good(cut[k], k)
      BY <3>3, <3>4, <3>5, <3>6, <2>4, FS_EmptySet
    <3> QED BY <3>7, <2>1
  <2> QED BY <2>5, <2>6
<1>7. n \in G
  <2> HIDE DEF G, n
  <2> QED BY <1>1, <1>5, <1>6, SegmentInduction
<1>8. Good(cut[n], n)
  BY <1>7
<1>9. cut[n].cur # {} => Partition(cut[n].made \cup {Request(addr, cut[n].cur)}, addr, P)
  <2> HIDE DEF n
  <2> QED BY <1>8, PartitionAdd
<1> QED BY <1>4, <1>8, <1>9

(* Blocks, and requests for them, as the iterator keeps them: the retry of *)
(* a block of the external storage has size 0.                             *)
Block   == [id : ToFetch, size : Nat]
Requests ==
  {r \in [addr : Addresses, blocks : SUBSET Block] :
     /\ r.blocks # {} /\ IsFiniteSet(r.blocks)
     /\ \A b, c \in r.blocks : b.id = c.id => b = c}

(* The requests made of the remote blocks: finitely many, of non-empty     *)
(* blocks at other addresses than this executor's, no block in two.        *)
LEMMA RequestFacts ==
  /\ IsFiniteSet(RemoteRequests)
  /\ \A r \in RemoteRequests : r \in Requests /\ r.addr # Local /\ r.blocks \subseteq Wanted
  /\ \A q, r \in RemoteRequests : \A b \in q.blocks, c \in r.blocks :
       b.id = c.id => q = r /\ b = c
<1> DEFINE Remote == {e \in Entries : ~IsLocal(e)}
           P(e) == Prefix(e[2], Len(e[2]))
           cuts == [e \in Remote |-> CutRequests(e[1], e[2])]
           S == {CutRequests(e[1], e[2]) : e \in Remote}
<1>1. ASSUME NEW e \in Remote PROVE Partition(CutRequests(e[1], e[2]), e[1], P(e))
  BY EntryFacts, CutFacts
<1>2. IsFiniteSet(S)
  <2>1. IsFiniteSet(Remote)
    BY EntryFacts, FS_Subset
  <2>2. cuts \in Surjection(Remote, S)
    BY DEF Surjection
  <2> HIDE DEF cuts, S, Remote
  <2> QED BY <2>1, <2>2, FS_Surjection
<1>3. IsFiniteSet(RemoteRequests)
  <2>1. \A T \in S : IsFiniteSet(T)
    BY <1>1 DEF Partition
  <2> HIDE DEF S
  <2>2. IsFiniteSet(UNION S)
    BY <1>2, <2>1, FS_UNION
  <2> QED BY <2>2 DEF RemoteRequests, S
<1>4. ASSUME NEW r \in RemoteRequests
      PROVE  \E e \in Remote : /\ r = Request(e[1], r.blocks) /\ r.blocks \subseteq P(e)
                               /\ r \in CutRequests(e[1], e[2])
                               /\ r.blocks # {} /\ IsFiniteSet(r.blocks)
  BY <1>1 DEF RemoteRequests, Partition
<1>5. ASSUME NEW r \in RemoteRequests
      PROVE  r \in Requests /\ r.addr # Local /\ r.blocks \subseteq Wanted
  <2>1. PICK e \in Remote : /\ r = Request(e[1], r.blocks) /\ r.blocks \subseteq P(e)
                            /\ r.blocks # {} /\ IsFiniteSet(r.blocks)
    BY <1>4
  <2>2. e[1] \in Addresses /\ e[1] # Local /\ P(e) \subseteq Wanted
    BY EntryFacts DEF IsLocal
  <2>3. Wanted \subseteq Block
    BY DEF Wanted, Block
  <2>4. r \in [addr : Addresses, blocks : SUBSET Block] /\ r.addr # Local
    BY <2>1, <2>2, <2>3 DEF Request
  <2>5. \A b, c \in r.blocks : b.id = c.id => b = c
    BY <2>1, EntryFacts
  <2> QED BY <2>1, <2>2, <2>4, <2>5 DEF Requests
<1>6. ASSUME NEW q \in RemoteRequests, NEW r \in RemoteRequests,
             NEW b \in q.blocks, NEW c \in r.blocks, b.id = c.id
      PROVE  q = r /\ b = c
  <2>1. PICK d \in Remote : q.blocks \subseteq P(d) /\ q \in CutRequests(d[1], d[2])
    BY <1>4
  <2>2. PICK e \in Remote : r.blocks \subseteq P(e) /\ r \in CutRequests(e[1], e[2])
    BY <1>4
  <2>3. d = e /\ b = c
    BY <2>1, <2>2, <1>6, EntryFacts
  <2> QED BY <2>1, <2>2, <2>3, <1>1 DEF Partition
<1> QED BY <1>3, <1>5, <1>6

(* The local blocks: non-empty, each once, none of them in a request.      *)
LEMMA LocalFacts ==
  /\ LocalBlocks \in Seq(Wanted) /\ DistinctIds(LocalBlocks)
  /\ \A i \in DOMAIN LocalBlocks : \A r \in RemoteRequests : \A b \in r.blocks :
       LocalBlocks[i].id # b.id
<1>1. CASE ~(\E e \in Entries : IsLocal(e))
  <2>1. LocalBlocks = <<>>
    BY <1>1 DEF LocalBlocks
  <2> QED BY <2>1 DEF DistinctIds
<1>2. CASE \E e \in Entries : IsLocal(e)
  <2> DEFINE l == CHOOSE e \in Entries : IsLocal(e)
             P == Prefix(l[2], Len(l[2]))
  <2>1. l \in Entries /\ IsLocal(l) /\ LocalBlocks = NonEmpty(l[2])
    BY <1>2 DEF LocalBlocks
  <2> HIDE DEF l
  <2>2. LocalBlocks \in Seq(P) /\ DistinctIds(LocalBlocks) /\ P \subseteq Wanted
    BY <2>1, EntryFacts, NonEmptyFacts
  <2>3. LocalBlocks \in Seq(Wanted)
    <3> HIDE DEF P
    <3> QED BY <2>2, SeqMonotonic
  <2>4. ASSUME NEW i \in DOMAIN LocalBlocks, NEW r \in RemoteRequests, NEW b \in r.blocks,
               LocalBlocks[i].id = b.id
        PROVE  FALSE
    <3>1. PICK e \in Entries : /\ ~IsLocal(e)
                               /\ r \in CutRequests(e[1], e[2])
      BY DEF RemoteRequests
    <3>2. r.blocks \subseteq Prefix(e[2], Len(e[2]))
      <4>1. Partition(CutRequests(e[1], e[2]), e[1], Prefix(e[2], Len(e[2])))
        BY EntryFacts, CutFacts
      <4> QED BY <4>1, <3>1 DEF Partition
    <3>3. LocalBlocks[i] \in P
      <4> HIDE DEF P
      <4> QED BY <2>2
    <3> QED BY <3>1, <3>2, <3>3, <2>1, <2>4, EntryFacts
  <2> QED BY <2>2, <2>3, <2>4
<1> QED BY <1>1, <1>2

(* There are finitely many blocks to fetch.                                *)
LEMMA ToFetchFinite == IsFiniteSet(ToFetch) /\ NumBlocksToFetch \in Nat
<1> DEFINE S == {ToSet(e[2]) : e \in Entries}
           sets == [e \in Entries |-> ToSet(e[2])]
           Kept == {b \in Blocks : b.size # 0}
           ids == [b \in Kept |-> b.id]
<1>1. ASSUME NEW e \in Entries PROVE IsFiniteSet(ToSet(e[2]))
  <2>1. e[2] \in Seq(BlockRecord)
    BY EntryFacts
  <2>2. e[2] \in Surjection(1 .. Len(e[2]), ToSet(e[2]))
    BY <2>1 DEF Surjection, ToSet
  <2>3. IsFiniteSet(1 .. Len(e[2]))
    BY <2>1, FS_Interval
  <2> QED BY <2>2, <2>3, FS_Surjection
<1>2. IsFiniteSet(S) /\ \A T \in S : IsFiniteSet(T)
  <2>1. sets \in Surjection(Entries, S)
    BY DEF Surjection
  <2>2. IsFiniteSet(S)
    <3> HIDE DEF sets, S
    <3> QED BY <2>1, EntryFacts, FS_Surjection
  <2> QED BY <2>2, <1>1
<1>3. IsFiniteSet(Blocks)
  <2> HIDE DEF S
  <2>1. IsFiniteSet(UNION S)
    BY <1>2, FS_UNION
  <2> QED BY <2>1 DEF Blocks, S
<1>4. IsFiniteSet(Kept)
  BY <1>3, FS_Subset
<1>5. ids \in Surjection(Kept, ToFetch)
  BY DEF Surjection, ToFetch
<1>6. IsFiniteSet(ToFetch)
  <2> HIDE DEF ids, Kept
  <2> QED BY <1>4, <1>5, FS_Surjection
<1> QED BY <1>6, FS_CardinalityType DEF NumBlocksToFetch

--------------------------------------------------------------------------------
(* Fetches.                                                                *)

(* SetToSeq lists a finite set, SetToSeqs all its lists.                   *)
LEMMA SetToSeqFacts ==
  ASSUME NEW S, IsFiniteSet(S)
  PROVE  LET s == SetToSeq(S)
         IN /\ s \in Seq(S) /\ Len(s) = Cardinality(S) /\ Len(s) \in Nat
            /\ \A i, j \in 1 .. Len(s) : s[i] = s[j] => i = j
            /\ \A x \in S : \E i \in 1 .. Len(s) : s[i] = x
<1> DEFINE n == Cardinality(S)
           s == SetToSeq(S)
<1>1. n \in Nat /\ ExistsBijection(1 .. n, S)
  BY FS_CardinalityType
<1>2. PICK f \in [1 .. n -> S] : IsInjective(f)
  BY <1>1 DEF ExistsBijection, Bijection, Injection
<1>3. s \in [1 .. n -> S] /\ IsInjective(s)
  BY <1>2 DEF SetToSeq
<1> HIDE DEF s
<1>4. s \in Seq(S) /\ Len(s) = n
  BY <1>1, <1>3
<1>5. s \in Surjection(1 .. n, S)
  <2>1. s \in Injection(1 .. n, S)
    BY <1>3 DEF Injection
  <2>2. Cardinality(1 .. n) = n /\ IsFiniteSet(1 .. n)
    BY <1>1, FS_Interval
  <2> HIDE DEF n
  <2>3. Cardinality(1 .. n) = Cardinality(S)
    BY <2>2 DEF n
  <2> QED BY <2>1, <2>2, <2>3, FS_Injection
<1> QED BY <1>1, <1>3, <1>4, <1>5 DEF IsInjective, Surjection, s

(* NewCalls makes one fetch of each block, with numbers of their own.      *)
LEMMA NewCallsFacts ==
  ASSUME NEW kind, NEW n \in Nat, NEW req, NEW addr, NEW blocks \in SUBSET Block,
         IsFiniteSet(blocks), \A b, c \in blocks : b.id = c.id => b = c
  PROVE  LET C == NewCalls(kind, n, req, addr, blocks)
         IN /\ \A c \in C :
                 /\ c \in [num : n + 1 .. n + Cardinality(blocks), kind : {kind},
                           req : {req}, addr : {addr}, id : ToFetch, size : Nat]
                 /\ [id |-> c.id, size |-> c.size] \in blocks
            /\ \A b \in blocks : \E c \in C : c.id = b.id
            /\ \A c, d \in C : c.num = d.num \/ c.id = d.id => c = d
            /\ Sized(C) /\ SizeOf(C) = SizeOf(blocks)
            /\ Cardinality(C) = Cardinality(blocks)
<1> DEFINE C == NewCalls(kind, n, req, addr, blocks)
           s == SetToSeq(blocks)
           call(i) == [num |-> n + i, kind |-> kind, req |-> req, addr |-> addr,
                       id |-> s[i].id, size |-> s[i].size]
           pos(b) == CHOOSE i \in 1 .. Len(s) : s[i] = b
           g == [b \in blocks |-> call(pos(b))]
<1>1. /\ s \in Seq(blocks) /\ Len(s) = Cardinality(blocks) /\ Len(s) \in Nat
      /\ \A i, j \in 1 .. Len(s) : s[i] = s[j] => i = j
      /\ \A b \in blocks : \E i \in 1 .. Len(s) : s[i] = b
  BY SetToSeqFacts
<1>2. C = {call(i) : i \in 1 .. Len(s)}
  BY DEF NewCalls
<1> HIDE DEF s
<1>3. \A b \in blocks : b \in Block /\ b = [id |-> b.id, size |-> b.size]
  BY DEF Block
<1>4. \A i \in 1 .. Len(s) :
         /\ s[i] \in blocks
         /\ call(i) \in [num : n + 1 .. n + Cardinality(blocks), kind : {kind},
                         req : {req}, addr : {addr}, id : ToFetch, size : Nat]
         /\ [id |-> call(i).id, size |-> call(i).size] = s[i]
  BY <1>1, <1>3 DEF Block
<1>5. \A b \in blocks : pos(b) \in 1 .. Len(s) /\ s[pos(b)] = b
  BY <1>1
<1>6. \A i \in 1 .. Len(s) : pos(s[i]) = i
  BY <1>1, <1>4, <1>5
<1> HIDE DEF pos
<1>7. C = {g[b] : b \in blocks}
  <2>1. \A b \in blocks : g[b] = call(pos(b))
    OBVIOUS
  <2>2. \A i \in 1 .. Len(s) : g[s[i]] = call(i)
    BY <2>1, <1>4, <1>6
  <2>5. \A i \in 1 .. Len(s) : s[i] \in blocks
    BY <1>4
  <2> HIDE DEF g, call, C
  <2>3. ASSUME NEW c \in C PROVE c \in {g[b] : b \in blocks}
    <3>1. PICK i \in 1 .. Len(s) : c = call(i)
      BY <1>2
    <3>2. c = g[s[i]] /\ s[i] \in blocks
      BY <3>1, <2>2, <2>5
    <3> QED BY <3>2
  <2>4. {g[b] : b \in blocks} \subseteq C
    BY <1>2, <1>5, <2>1
  <2> QED BY <2>3, <2>4
<1>8. \A b \in blocks : g[b].size = b.size /\ g[b].id = b.id /\ g[b].num = n + pos(b)
  BY <1>5
<1>9. \A b, c \in blocks : pos(b) = pos(c) => b = c
  BY <1>5
<1>10. \A b, c \in blocks : g[b].num = g[c].num \/ g[b].id = g[c].id => b = c
  <2>1. ASSUME NEW b \in blocks, NEW c \in blocks, n + pos(b) = n + pos(c) PROVE pos(b) = pos(c)
    <3>1. pos(b) \in Nat /\ pos(c) \in Nat
      BY <1>1, <1>5
    <3> QED BY <2>1, <3>1
  <2> HIDE DEF g
  <2> QED BY <1>8, <1>9, <2>1
<1>11. Sized(blocks)
  BY DEF Sized, Block
<1>12. DOMAIN g = blocks
  OBVIOUS
<1>13. \A c \in C :
         /\ c \in [num : n + 1 .. n + Cardinality(blocks), kind : {kind},
                   req : {req}, addr : {addr}, id : ToFetch, size : Nat]
         /\ [id |-> c.id, size |-> c.size] \in blocks
  BY <1>2, <1>4
<1> HIDE DEF C, g
<1>14. Sized(C) /\ SizeOf(C) = SizeOf(blocks) /\ Cardinality(C) = Cardinality(blocks)
  <2>1. \A b, c \in blocks : g[b] = g[c] => b = c
    BY <1>10
  <2>2. \A b \in blocks : g[b].size = b.size
    BY <1>8
  <2> QED BY <1>7, <1>11, <1>12, <2>1, <2>2, SizeOfImage
<1>15. \A c, d \in C : c.num = d.num \/ c.id = d.id => c = d
  BY <1>7, <1>10
<1>16. \A b \in blocks : \E c \in C : c.id = b.id
  BY <1>7, <1>8
<1> QED BY <1>13, <1>14, <1>15, <1>16 DEF C

--------------------------------------------------------------------------------
(* The types.                                                              *)

Calls ==
  [num : Nat \ {0}, kind : {"network", "storage"}, req : Nat, addr : Addresses,
   id : ToFetch, size : Nat]
Results ==
  [ok : BOOLEAN, id : ToFetch, addr : Addresses, size : Nat, buf : Nat, req : Nat,
   done : BOOLEAN, kind : {"network", "storage", "local"}]

(* next has a result in hand that it has not returned yet. *)
Holding == pc = "deliver" \/ (pc \in {"deferred", "regular"} /\ then = "deliver")

(* The type of every variable: of the control and counters of the task, of *)
(* its queues, of what it handed out, of what it shares with the callbacks.*)
TaskType ==
  /\ pc \in {"deferred", "regular", "local", "caller", "take", "deliver",
             "cleanup", "release", "done"}
  /\ then \in {"local", "take", "deliver"}
  /\ scan \subseteq Addresses /\ at \in Addresses \cup {None}
  /\ corrupted \subseteq ToFetch
  /\ numProcessed \in 0 .. NumBlocksToFetch
  /\ Holding => taken \in Results
  /\ isZombie \in BOOLEAN /\ (isZombie <=> pc \in {"release", "done"})
FlightType ==
  bytesInFlight \in Int /\ reqsInFlight \in Int /\ nipa \in [Addresses -> Int]
QueueType ==
  /\ fetchRequests \in Seq(Requests)
  /\ deferred \in [Addresses -> Seq(Requests)]
  /\ localTodo \in Seq(Wanted)
HandedType ==
  /\ current \in Nat
  /\ delivered \in Seq([id : ToFetch, buf : Nat])
  /\ open \subseteq 1 .. Len(delivered)
SharedType ==
  /\ results \in Seq(Results)
  /\ remaining \in Seq(SUBSET ToFetch)
  /\ refs \in Seq(Int)
  /\ IsFiniteSet(calls) /\ calls \subseteq Calls
  /\ \A c \in calls : /\ c.num <= Len(refs)
                      /\ c.kind = "network" => c.req \in 1 .. Len(remaining)
TypeInv == TaskType /\ FlightType /\ QueueType /\ HandedType /\ SharedType

--------------------------------------------------------------------------------
(* What a request being sent adds, whatever fails. *)
Zeros(n) == [i \in 1 .. n |-> 0]
Added(K, n) ==
  /\ IsFiniteSet(K) /\ K \subseteq Calls
  /\ \A c \in K : c.num \in Len(refs) + 1 .. Len(refs) + n
  /\ \A c, d \in K : c.num = d.num => c = d
  /\ \A c \in K : c.kind = "network" => c.req = Len(remaining) + 1

(* Fetches of the blocks in S, numbered behind those in K.                 *)
LEMMA AddedMore ==
  ASSUME SharedType, NEW K, NEW n \in Nat, Added(K, n),
         NEW kind \in {"network", "storage"}, NEW req \in Nat, NEW addr \in Addresses,
         kind = "network" => req = Len(remaining) + 1,
         NEW S \in SUBSET Block, IsFiniteSet(S), \A b, c \in S : b.id = c.id => b = c
  PROVE  /\ Added(K \cup NewCalls(kind, Len(refs) + n, req, addr, S), n + Cardinality(S))
         /\ Cardinality(S) \in Nat
<1> DEFINE N == NewCalls(kind, Len(refs) + n, req, addr, S)
           l == Len(refs)
<1>1. Cardinality(S) \in Nat /\ l \in Nat /\ l + n \in Nat
  BY FS_CardinalityType DEF SharedType
<1>2. /\ \A c \in N : c \in [num : l + n + 1 .. l + n + Cardinality(S), kind : {kind},
                             req : {req}, addr : {addr}, id : ToFetch, size : Nat]
      /\ \A c, d \in N : c.num = d.num => c = d
      /\ IsFiniteSet(N)
  <2> HIDE DEF N
  <2> QED BY <1>1, NewCallsFacts DEF N, Sized
<1> HIDE DEF N, l
<1>3. \A c \in N : /\ c \in Calls
                   /\ c.num \in l + n + 1 .. l + (n + Cardinality(S))
                   /\ c.num \in l + 1 .. l + (n + Cardinality(S))
                   /\ c.kind = kind /\ c.req = req
  BY <1>1, <1>2 DEF Calls
<1>4. \A c \in K : c.num \in l + 1 .. l + n /\ c.num \in l + 1 .. l + (n + Cardinality(S))
  BY <1>1 DEF Added, l
<1>5. IsFiniteSet(K \cup N)
  BY <1>2, FS_Union DEF Added
<1>6. \A c \in K, d \in N : c.num # d.num
  BY <1>1, <1>3, <1>4
<1> QED BY <1>1, <1>2, <1>3, <1>4, <1>5, <1>6 DEF Added, N, l

(* Part of the blocks of a request can be asked for like a request.        *)
LEMMA PartOfRequest ==
  ASSUME NEW r \in Requests, NEW S \in SUBSET r.blocks
  PROVE  /\ S \in SUBSET Block /\ IsFiniteSet(S) /\ \A b, c \in S : b.id = c.id => b = c
         /\ {b.id : b \in S} \in SUBSET ToFetch
         /\ Sized(S) /\ Cardinality(S) \in Nat /\ SizeOf(S) \in Nat
<1>1. r.blocks \in SUBSET Block /\ IsFiniteSet(r.blocks)
      /\ \A b, c \in r.blocks : b.id = c.id => b = c
  BY DEF Requests
<1>2. IsFiniteSet(S) /\ Sized(S)
  BY <1>1, FS_Subset DEF Sized, Block
<1>3. Cardinality(S) \in Nat /\ SizeOf(S) \in Nat
  BY <1>2, FS_CardinalityType, SizeOfStep
<1>4. {b.id : b \in S} \in SUBSET ToFetch
  BY <1>1 DEF Block
<1> QED BY <1>1, <1>2, <1>3, <1>4

(* What Send does to the calls and the buffers.                            *)
LEMMA SendAdds ==
  ASSUME SharedType, NEW r \in Requests, Send(r)
  PROVE  \E K : \E n \in Nat :
           /\ Added(K, n) /\ calls' = calls \cup K /\ refs' = refs \o Zeros(n)
           /\ \/ remaining' = remaining /\ \A c \in K : c.kind = "storage"
              \/ \E ids \in SUBSET ToFetch : remaining' = Append(remaining, ids)
<1> DEFINE l == Len(refs)
           k == Len(remaining)
           stored(hits) == NewCalls("storage", l, 0, Local, hits)
<1>0. l \in Nat /\ k \in Nat
  BY DEF SharedType
<1>1. PICK hits \in Hits(r) :
        LET rest == r.blocks \ hits
            n    == l + Cardinality(hits)
        IN IF rest = {}
           THEN /\ calls' = calls \cup stored(hits)
                /\ refs' = refs \o Zeros(Cardinality(hits))
                /\ remaining' = remaining
           ELSE \E s \in Submissions(rest) :
                  /\ calls' = calls \cup stored(hits)
                        \cup NewCalls("network", n, k + 1, r.addr, s[1])
                        \cup NewCalls("network", n + Cardinality(s[1]), k + 1, r.addr, s[2])
                  /\ refs' = refs \o Zeros(Cardinality(hits) + Cardinality(s[1])
                                           + Cardinality(s[2]))
                  /\ remaining' = Append(remaining, {b.id : b \in rest})
  BY DEF Send, Answered, Zeros
<1> DEFINE rest == r.blocks \ hits
           h == Cardinality(hits)
           N0 == {} \cup NewCalls("storage", l + 0, 0, Local, hits)
<1>2. hits \in SUBSET r.blocks /\ rest \in SUBSET r.blocks
  BY DEF Hits
<1>3. Local \in Addresses /\ r.addr \in Addresses
  BY DEF Addresses, Requests
<1>4. Added({}, 0)
  BY FS_EmptySet DEF Added
<1>5. Added(N0, 0 + h) /\ h \in Nat
  BY <1>2, <1>3, <1>4, PartOfRequest, AddedMore
<1>6. N0 = stored(hits) /\ 0 + h = h
  BY <1>0, <1>5
<1> HIDE DEF h
<1>7. Added(stored(hits), h)
  BY <1>5, <1>6
<1>8. \A c \in stored(hits) : c.kind = "storage"
  BY DEF NewCalls
<1> HIDE DEF stored
<1>9. CASE rest = {}
  BY <1>1, <1>5, <1>7, <1>8, <1>9 DEF h
<1>10. CASE rest # {}
  <2>1. PICK s \in Submissions(rest) :
          /\ calls' = calls \cup stored(hits)
                \cup NewCalls("network", l + h, k + 1, r.addr, s[1])
                \cup NewCalls("network", l + h + Cardinality(s[1]), k + 1, r.addr, s[2])
          /\ refs' = refs \o Zeros(h + Cardinality(s[1]) + Cardinality(s[2]))
          /\ remaining' = Append(remaining, {b.id : b \in rest})
    BY <1>1, <1>10 DEF h
  <2> DEFINE N1 == stored(hits) \cup NewCalls("network", l + h, k + 1, r.addr, s[1])
             c1 == Cardinality(s[1])
             N2 == N1 \cup NewCalls("network", l + (h + c1), k + 1, r.addr, s[2])
             c2 == Cardinality(s[2])
  <2>2. s[1] \in SUBSET r.blocks /\ s[2] \in SUBSET r.blocks
    BY <1>2 DEF Submissions
  <2>3. Added(N1, h + c1) /\ c1 \in Nat
    BY <2>2, <1>0, <1>3, <1>5, <1>6, <1>7, PartOfRequest, AddedMore
  <2> HIDE DEF N1, c1
  <2>4. Added(N2, (h + c1) + c2) /\ c2 \in Nat /\ h + c1 \in Nat
    <3>1. /\ s[2] \in SUBSET Block /\ IsFiniteSet(s[2])
          /\ \A b, c \in s[2] : b.id = c.id => b = c
      BY <2>2, PartOfRequest
    <3>2. k + 1 \in Nat /\ h + c1 \in Nat
      BY <2>3, <1>0, <1>5, <1>6
    <3> QED BY <2>3, <3>1, <3>2, <1>3, AddedMore
  <2>5. l + (h + c1) = l + h + c1
    BY <2>3, <1>0, <1>5, <1>6
  <2>6. calls' = calls \cup N2
    BY <2>1, <2>5 DEF N1, c1
  <2>7. refs' = refs \o Zeros((h + c1) + c2)
    BY <2>1 DEF c1
  <2>8. (h + c1) + c2 \in Nat
    BY <2>4
  <2>9. \A b \in rest : b.id \in ToFetch
    BY <1>2 DEF Requests, Block
  <2>10. {b.id : b \in rest} \in SUBSET ToFetch
    BY <2>9
  <2> HIDE DEF N2, c2
  <2> QED BY <2>1, <2>4, <2>6, <2>7, <2>8, <2>10
<1> QED BY <1>9, <1>10

--------------------------------------------------------------------------------
(* TypeInv.                                                                *)

(* The iterator starts with every variable in its type.                    *)
LEMMA TypeInit == Init => TypeInv
<1> SUFFICES ASSUME Init PROVE TypeInv
  OBVIOUS
<1>1. fetchRequests \in Seq(Requests)
  <2>1. fetchRequests \in SetToSeqs(RemoteRequests) /\ RemoteRequests \subseteq Requests
    BY RequestFacts DEF Init
  <2>2. Cardinality(RemoteRequests) \in Nat
    BY RequestFacts, FS_CardinalityType
  <2>3. fetchRequests \in Seq(RemoteRequests)
    BY <2>1, <2>2 DEF SetToSeqs
  <2> QED BY <2>1, <2>3, SeqMonotonic
<1>2. QueueType
  BY <1>1, LocalFacts DEF Init, QueueType
<1>3. TaskType
  <2>1. 0 \in 0 .. NumBlocksToFetch
    BY ToFetchFinite
  <2>2. ~Holding
    BY DEF Init, Holding
  <2> QED BY <2>1, <2>2 DEF Init, TaskType
<1>4. FlightType /\ HandedType
  BY DEF Init, FlightType, HandedType
<1>5. SharedType
  BY FS_EmptySet DEF Init, SharedType
<1> QED BY <1>2, <1>3, <1>4, <1>5 DEF TypeInv

(* What is shared keeps its type when calls are made.                      *)
LEMMA TypeAdds ==
  ASSUME SharedType, UNCHANGED results, NEW K, NEW n \in Nat,
         Added(K, n), calls' = calls \cup K, refs' = refs \o Zeros(n),
         \/ remaining' = remaining /\ \A c \in K : c.kind = "storage"
         \/ \E ids \in SUBSET ToFetch : remaining' = Append(remaining, ids)
  PROVE  SharedType' /\ Len(refs) <= Len(refs')
<1>1. Zeros(n) \in Seq(Int) /\ Len(Zeros(n)) = n
  BY DEF Zeros
<1>2. refs' \in Seq(Int) /\ Len(refs') = Len(refs) + n /\ Len(refs) \in Nat
  <2>1. refs \in Seq(Int) /\ Len(refs) \in Nat
    BY DEF SharedType
  <2>2. refs' = refs \o Zeros(n)
    OBVIOUS
  <2> QED BY <1>1, <2>1, <2>2, ConcatProperties
<1>3. /\ remaining' \in Seq(SUBSET ToFetch) /\ Len(remaining) \in Nat
      /\ \/ remaining' = remaining /\ \A c \in K : c.kind = "storage"
         \/ Len(remaining') = Len(remaining) + 1
  <2>1. remaining \in Seq(SUBSET ToFetch) /\ Len(remaining) \in Nat
    BY DEF SharedType
  <2>2. CASE remaining' = remaining /\ \A c \in K : c.kind = "storage"
    BY <2>1, <2>2
  <2>3. CASE \E ids \in SUBSET ToFetch : remaining' = Append(remaining, ids)
    <3>1. PICK ids \in SUBSET ToFetch : remaining' = Append(remaining, ids)
      BY <2>3
    <3>2. /\ Append(remaining, ids) \in Seq(SUBSET ToFetch)
          /\ Len(Append(remaining, ids)) = Len(remaining) + 1
      BY <2>1, AppendProperties
    <3> QED BY <2>1, <3>1, <3>2
  <2> QED BY <2>2, <2>3
<1>4. IsFiniteSet(calls')
  BY FS_Union DEF SharedType, Added
<1>5. calls' \subseteq Calls
  BY DEF SharedType, Added
<1>6. \A c \in calls' : c.num <= Len(refs')
  BY <1>2 DEF SharedType, Added, Calls
<1>7. \A c \in calls' : c.kind = "network" => c.req \in 1 .. Len(remaining')
  <2>1. \A c \in calls : c.kind = "network" => c.req \in 1 .. Len(remaining')
    BY <1>3 DEF SharedType
  <2>2. \A c \in K : c.kind = "network" => c.req \in 1 .. Len(remaining')
    BY <1>3 DEF Added
  <2> QED BY <2>1, <2>2
<1>8. SharedType'
  BY <1>2, <1>3, <1>4, <1>5, <1>6, <1>7 DEF SharedType
<1> QED BY <1>2, <1>2, <1>8

(* The counters and what is shared keep their types when a request goes    *)
(* out.                                                                    *)
LEMMA TypeSend ==
  ASSUME SharedType, FlightType, NEW r \in Requests, Send(r), UNCHANGED results
  PROVE  FlightType' /\ SharedType' /\ Len(refs) <= Len(refs')
<1>0. PICK K : \E n \in Nat :
        /\ Added(K, n) /\ calls' = calls \cup K /\ refs' = refs \o Zeros(n)
        /\ \/ remaining' = remaining /\ \A c \in K : c.kind = "storage"
           \/ \E ids \in SUBSET ToFetch : remaining' = Append(remaining, ids)
  BY SendAdds
<1>1. PICK n \in Nat :
        /\ Added(K, n) /\ calls' = calls \cup K /\ refs' = refs \o Zeros(n)
        /\ \/ remaining' = remaining /\ \A c \in K : c.kind = "storage"
           \/ \E ids \in SUBSET ToFetch : remaining' = Append(remaining, ids)
  BY <1>0
<1>2. SharedType' /\ Len(refs) <= Len(refs')
  BY <1>1, TypeAdds
<1>3. FlightType'
  <2>1. CASE UNCHANGED flight
    BY <2>1 DEF flight, FlightType
  <2>2. CASE \E S \in SUBSET r.blocks :
               /\ bytesInFlight' = bytesInFlight + SizeOf(S)
               /\ reqsInFlight' = reqsInFlight + 1
               /\ nipa' = [nipa EXCEPT ![r.addr] = @ + Cardinality(r.blocks)]
    <3>1. PICK S \in SUBSET r.blocks :
               /\ bytesInFlight' = bytesInFlight + SizeOf(S)
               /\ reqsInFlight' = reqsInFlight + 1
               /\ nipa' = [nipa EXCEPT ![r.addr] = @ + Cardinality(r.blocks)]
      BY <2>2
    <3>2. Cardinality(r.blocks) \in Nat /\ SizeOf(S) \in Nat
      BY PartOfRequest
    <3>3. \A a \in Addresses : nipa'[a] \in Int
      BY <3>1, <3>2 DEF FlightType
    <3>4. nipa' \in [Addresses -> Int]
      BY <3>1, <3>3 DEF FlightType
    <3>5. bytesInFlight' \in Int /\ reqsInFlight' \in Int
      BY <3>1, <3>2 DEF FlightType
    <3> QED BY <3>4, <3>5 DEF FlightType
  <2>3. UNCHANGED flight \/ \E S \in SUBSET r.blocks :
               /\ bytesInFlight' = bytesInFlight + SizeOf(S)
               /\ reqsInFlight' = reqsInFlight + 1
               /\ nipa' = [nipa EXCEPT ![r.addr] = @ + Cardinality(r.blocks)]
    BY DEF Send
  <2> QED BY <2>1, <2>2, <2>3
<1> QED BY <1>2, <1>3

(* The requests fetchUpToMaxBytes looks at.                                *)
LEMMA HeadRequest ==
  ASSUME QueueType, TaskType
  PROVE  /\ fetchRequests # <<>> => /\ Head(fetchRequests) \in Requests
                                   /\ Tail(fetchRequests) \in Seq(Requests)
         /\ at # None => /\ at \in Addresses
                         /\ deferred[at] \in Seq(Requests)
                         /\ deferred[at] # <<>> => /\ Head(deferred[at]) \in Requests
                                                  /\ Tail(deferred[at]) \in Seq(Requests)
<1>1. \A s \in Seq(Requests) : s # <<>> => Head(s) \in Requests /\ Tail(s) \in Seq(Requests)
  OBVIOUS
<1> QED BY <1>1 DEF QueueType, TaskType

(* Requests are what fetchUpToMaxBytes sends.                              *)
LEMMA SentRequest ==
  ASSUME QueueType, TaskType, SendDeferred \/ SendRegular
  PROVE  \E r \in Requests : Send(r)
<1>1. CASE SendDeferred
  BY <1>1, HeadRequest DEF SendDeferred, DeferredReady, Fetchable
<1>2. CASE SendRegular
  BY <1>2, HeadRequest DEF SendRegular, Fetchable
<1> QED BY <1>1, <1>2

(* A request in Sending is one.                                            *)
LEMMA SendingRequest == ASSUME QueueType, TaskType, NEW r \in Sending PROVE r \in Requests
BY HeadRequest DEF Sending, DeferredReady, Fetchable

(* What a call to the storage that throws leaves behind.                   *)
LEMMA ThrowAdds ==
  ASSUME TypeInv, StorageThrows
  PROVE  \E K : \E n \in Nat :
           /\ Added(K, n) /\ calls' = calls \cup K /\ refs' = refs \o Zeros(n)
           /\ remaining' = remaining /\ \A c \in K : c.kind = "storage"
<1>0. TaskType /\ QueueType /\ SharedType
  BY DEF TypeInv
<1>1. PICK r \in Sending : \E hits \in Hits(r) :
        /\ calls' = calls \cup NewCalls("storage", Len(refs), 0, Local, hits)
        /\ refs' = refs \o Zeros(Cardinality(hits))
  BY DEF StorageThrows, Answered, Zeros
<1>2. PICK hits \in Hits(r) :
        /\ calls' = calls \cup NewCalls("storage", Len(refs), 0, Local, hits)
        /\ refs' = refs \o Zeros(Cardinality(hits))
  BY <1>1
<1>3. r \in Requests /\ hits \in SUBSET r.blocks
  BY <1>0, SendingRequest DEF Hits
<1> DEFINE h == Cardinality(hits)
           N == {} \cup NewCalls("storage", Len(refs) + 0, 0, Local, hits)
<1>4. Added(N, 0 + h) /\ h \in Nat
  <2>1. Added({}, 0) /\ Local \in Addresses
    BY FS_EmptySet DEF Added, Addresses
  <2>2. /\ hits \in SUBSET Block /\ IsFiniteSet(hits)
        /\ \A b, c \in hits : b.id = c.id => b = c
    BY <1>3, PartOfRequest
  <2> QED BY <1>0, <2>1, <2>2, AddedMore
<1>5. Len(refs) \in Nat /\ refs \in Seq(Int)
  BY <1>0 DEF SharedType
<1> HIDE DEF h
<1>6. Added(N, h) /\ Len(refs) + 0 = Len(refs)
  BY <1>4, <1>5
<1>7. calls' = calls \cup N /\ \A c \in N : c.kind = "storage"
  BY <1>2, <1>6 DEF NewCalls
<1> HIDE DEF N
<1>8. refs' = refs \o Zeros(h) /\ remaining' = remaining
  BY <1>2 DEF StorageThrows, h
<1> QED BY <1>4, <1>6, <1>7, <1>8

(* fetchUpToMaxBytes keeps the types.                                      *)
LEMMA TypeFetch == ASSUME TypeInv, FetchStep PROVE TypeInv'
<1> USE DEF taskQueues, loops, flight, caller, shared
<1>0. TaskType /\ FlightType /\ QueueType /\ HandedType /\ SharedType
  BY DEF TypeInv
<1>1. CASE VisitDeferred \/ LeaveDeferred \/ EndDeferred \/ EndFetch
  <2>1. TaskType'
    BY <1>0, <1>1 DEF VisitDeferred, LeaveDeferred, EndDeferred, EndFetch, TaskType, Holding
  <2>2. UNCHANGED <<taskQueues, flight, localTodo, current, delivered, open, shared>>
    BY <1>1 DEF VisitDeferred, LeaveDeferred, EndDeferred, EndFetch
  <2>3. FlightType' /\ QueueType' /\ HandedType' /\ SharedType'
    BY <1>0, <2>2 DEF FlightType, QueueType, HandedType, SharedType
  <2> QED BY <2>1, <2>3 DEF TypeInv
<1>2. CASE SendDeferred
  <2>1. /\ at \in Addresses /\ Head(deferred[at]) \in Requests
        /\ Tail(deferred[at]) \in Seq(Requests)
    BY <1>0, <1>2, HeadRequest DEF SendDeferred, DeferredReady, Fetchable
  <2>2. FlightType' /\ SharedType' /\ Len(refs) <= Len(refs')
    BY <1>0, <1>2, <2>1, TypeSend DEF SendDeferred
  <2>3. QueueType'
    BY <1>0, <1>2, <2>1 DEF SendDeferred, QueueType
  <2>4. TaskType'
    BY <1>0, <1>2 DEF SendDeferred, TaskType, Holding
  <2>5. HandedType'
    BY <1>0, <1>2, <2>2 DEF SendDeferred, HandedType, SharedType
  <2> QED BY <2>2, <2>3, <2>4, <2>5 DEF TypeInv
<1>3. CASE SendRegular
  <2>1. Head(fetchRequests) \in Requests /\ Tail(fetchRequests) \in Seq(Requests)
    BY <1>0, <1>3, HeadRequest DEF SendRegular, Fetchable
  <2>2. FlightType' /\ SharedType' /\ Len(refs) <= Len(refs')
    BY <1>0, <1>3, <2>1, TypeSend DEF SendRegular
  <2>3. QueueType'
    BY <1>0, <1>3, <2>1 DEF SendRegular, QueueType
  <2>4. TaskType'
    BY <1>0, <1>3 DEF SendRegular, TaskType, Holding
  <2>5. HandedType'
    BY <1>0, <1>3, <2>2 DEF SendRegular, HandedType, SharedType
  <2> QED BY <2>2, <2>3, <2>4, <2>5 DEF TypeInv
<1>4. CASE DeferRegular
  <2>1. /\ Head(fetchRequests) \in Requests /\ Tail(fetchRequests) \in Seq(Requests)
        /\ Head(fetchRequests).addr \in Addresses
    BY <1>0, <1>4, HeadRequest DEF DeferRegular, Fetchable, Requests
  <2>2. QueueType'
    BY <1>0, <1>4, <2>1 DEF DeferRegular, QueueType
  <2>3. TaskType'
    BY <1>0, <1>4 DEF DeferRegular, TaskType, Holding
  <2>4. FlightType' /\ HandedType' /\ SharedType'
    BY <1>0, <1>4 DEF DeferRegular, FlightType, HandedType, SharedType
  <2> QED BY <2>2, <2>3, <2>4 DEF TypeInv
<1>5. CASE StorageThrows
  <2>1. PICK K : \E n \in Nat :
          /\ Added(K, n) /\ calls' = calls \cup K /\ refs' = refs \o Zeros(n)
          /\ remaining' = remaining /\ \A c \in K : c.kind = "storage"
    BY <1>5, ThrowAdds
  <2>2. UNCHANGED <<results, current, delivered, open>>
    BY <1>5 DEF StorageThrows
  <2>3. SharedType'
    BY <1>0, <2>1, <2>2, TypeAdds
  <2>4. HandedType'
    BY <1>0, <2>2 DEF HandedType
  <2>5. TaskType'
    <3>1. pc \in {"deferred", "regular"}
      BY <1>5 DEF StorageThrows, Sending
    <3>2. pc' = "cleanup" /\ UNCHANGED <<then, loops, corrupted, taken, numProcessed, isZombie>>
      BY <1>5 DEF StorageThrows
    <3> QED BY <1>0, <3>1, <3>2 DEF TaskType, Holding
  <2>6. FlightType' /\ QueueType'
    BY <1>0, <1>5 DEF StorageThrows, FlightType, QueueType
  <2> QED BY <2>3, <2>4, <2>5, <2>6 DEF TypeInv
<1> QED BY <1>1, <1>2, <1>3, <1>4, <1>5 DEF FetchStep

(* A result made of a typed fetch is one.                                  *)
LEMMA ResultTypes ==
  /\ \A c \in Calls, done \in BOOLEAN :
       /\ Success(c.id, c.addr, c.size, c.num, c.req, done, "network") \in Results
       /\ Success(c.id, Local, 0, 0, 0, FALSE, "storage") \in Results
       /\ Failure(c.id, c.addr, c.size, c.req, c.kind) \in Results
  /\ \A b \in Wanted, n \in Nat :
       /\ Success(b.id, Local, 0, n, 0, FALSE, "local") \in Results
       /\ Failure(b.id, Local, 0, 0, "local") \in Results
BY DEF Calls, Results, Wanted, Success, Failure, Addresses

(* fetchLocalBlocks keeps the types.                                       *)
LEMMA TypeLocal == ASSUME TypeInv, LocalStep PROVE TypeInv'
<1> USE DEF taskQueues, loops, flight, caller, shared
<1>0. TaskType /\ FlightType /\ QueueType /\ HandedType /\ SharedType
  BY DEF TypeInv
<1>1. CASE FetchLocal
  <2> DEFINE b == Head(localTodo)
             r == Success(b.id, Local, 0, Answered + 1, 0, FALSE, "local")
  <2>1. b \in Wanted /\ Tail(localTodo) \in Seq(Wanted)
    BY <1>0, <1>1 DEF FetchLocal, QueueType
  <2>2. Answered + 1 \in Nat /\ refs \in Seq(Int) /\ results \in Seq(Results)
    BY <1>0 DEF SharedType, Answered
  <2>3. r \in Results
    BY <2>1, <2>2, ResultTypes
  <2>4. results' = Append(results, r) /\ refs' = Append(refs, 1) /\ localTodo' = Tail(localTodo)
        /\ UNCHANGED <<pc, then, fetchRequests, deferred, loops, flight, corrupted, taken,
                       current, caller, isZombie, remaining, calls>>
    BY <1>1 DEF FetchLocal
  <2> HIDE DEF r
  <2>5. results' \in Seq(Results) /\ refs' \in Seq(Int) /\ Len(refs') = Len(refs) + 1
        /\ Len(refs) \in Nat
    BY <2>2, <2>3, <2>4
  <2>6. SharedType'
    BY <1>0, <2>4, <2>5 DEF SharedType, Calls
  <2>7. HandedType' /\ QueueType'
    BY <1>0, <2>1, <2>4, <2>5 DEF HandedType, QueueType
  <2>8. TaskType' /\ FlightType'
    BY <1>0, <2>4 DEF TaskType, Holding, FlightType
  <2> QED BY <2>6, <2>7, <2>8 DEF TypeInv
<1>2. CASE LocalFails
  <2>1. Head(localTodo) \in Wanted
    BY <1>0, <1>2 DEF LocalFails, QueueType
  <2>2. Failure(Head(localTodo).id, Local, 0, 0, "local") \in Results
    BY <2>1, ResultTypes
  <2>3. results' \in Seq(Results)
    BY <1>0, <1>2, <2>2 DEF LocalFails, SharedType
  <2>4. localTodo' \in Seq(Wanted)
        /\ UNCHANGED <<pc, then, fetchRequests, deferred, loops, flight, corrupted, taken,
                       current, caller, isZombie, remaining, calls, refs>>
    BY <1>2 DEF LocalFails
  <2>5. SharedType' /\ QueueType' /\ HandedType'
    BY <1>0, <2>3, <2>4 DEF SharedType, QueueType, HandedType
  <2>6. TaskType' /\ FlightType'
    BY <1>0, <2>4 DEF TaskType, Holding, FlightType
  <2> QED BY <2>5, <2>6 DEF TypeInv
<1>3. CASE EndLocal
  <2>1. TaskType'
    BY <1>0, <1>3 DEF EndLocal, TaskType, Holding
  <2>2. FlightType' /\ QueueType' /\ HandedType' /\ SharedType'
    BY <1>0, <1>3 DEF EndLocal, FlightType, QueueType, HandedType, SharedType
  <2> QED BY <2>1, <2>2 DEF TypeInv
<1> QED BY <1>1, <1>2, <1>3 DEF LocalStep

(* The callbacks keep the types.                                           *)
LEMMA TypeCallback == ASSUME TypeInv, Callback PROVE TypeInv'
<1> USE DEF taskQueues, loops, flight, caller, shared
<1>0. TaskType /\ FlightType /\ QueueType /\ HandedType /\ SharedType
  BY DEF TypeInv
<1>1. PICK c \in calls :
        /\ NetworkSuccess(c) \/ StorageSuccess(c) \/ FetchFails(c)
        /\ calls' = calls \ {c}
        /\ UNCHANGED <<pc, then, taskQueues, loops, flight, corrupted, localTodo, taken,
                       current, caller, isZombie>>
  BY DEF Callback
<1>2. c \in Calls /\ c.num \in 1 .. Len(refs)
      /\ results \in Seq(Results) /\ remaining \in Seq(SUBSET ToFetch) /\ refs \in Seq(Int)
  BY <1>0 DEF SharedType, Calls
<1>3. /\ results' \in Seq(Results) /\ remaining' \in Seq(SUBSET ToFetch)
      /\ refs' \in Seq(Int)
      /\ Len(remaining') = Len(remaining) /\ Len(refs') = Len(refs)
  <2>1. CASE NetworkSuccess(c) /\ isZombie
    BY <1>2, <2>1 DEF NetworkSuccess
  <2>2. CASE NetworkSuccess(c) /\ ~isZombie
    <3> DEFINE left == remaining[c.req] \ {c.id}
               r == Success(c.id, c.addr, c.size, c.num, c.req, left = {}, "network")
    <3>1. r \in Results
      BY <1>2, ResultTypes
    <3>2. /\ refs' = [refs EXCEPT ![c.num] = @ + 1]
          /\ remaining' = [remaining EXCEPT ![c.req] = left]
          /\ results' = Append(results, r)
      BY <2>2 DEF NetworkSuccess
    <3>3. c.req \in 1 .. Len(remaining)
      BY <1>0, <2>2 DEF NetworkSuccess, SharedType
    <3> HIDE DEF r
    <3>4. left \in SUBSET ToFetch
      BY <1>2, <3>3
    <3> HIDE DEF left
    <3> QED BY <1>2, <3>1, <3>2, <3>3, <3>4
  <2>3. CASE StorageSuccess(c)
    <3> DEFINE r == Success(c.id, Local, 0, 0, 0, FALSE, "storage")
    <3>1. r \in Results
      BY <1>2, ResultTypes
    <3>2. results' = Append(results, r) /\ remaining' = remaining /\ refs' = refs
      BY <2>3 DEF StorageSuccess
    <3> HIDE DEF r
    <3> QED BY <1>2, <3>1, <3>2
  <2>4. CASE FetchFails(c)
    <3>1. Failure(c.id, c.addr, c.size, c.req, c.kind) \in Results
      BY <1>2, ResultTypes
    <3> QED BY <1>2, <2>4, <3>1 DEF FetchFails
  <2> QED BY <1>1, <2>1, <2>2, <2>3, <2>4
<1>4. IsFiniteSet(calls') /\ calls' \subseteq calls
  BY <1>0, <1>1, FS_RemoveElement DEF SharedType
<1>5. SharedType'
  BY <1>0, <1>3, <1>4 DEF SharedType
<1>6. HandedType' /\ QueueType' /\ FlightType'
  BY <1>0, <1>1, <1>3 DEF HandedType, QueueType, FlightType
<1>7. TaskType'
  BY <1>0, <1>1 DEF TaskType, Holding
<1> QED BY <1>5, <1>6, <1>7 DEF TypeInv

(* Release takes a reference from one buffer.                              *)
LEMMA ReleaseFacts ==
  ASSUME SharedType, NEW buf
  PROVE  /\ Release(buf) \in Seq(Int) /\ Len(Release(buf)) = Len(refs) /\ Len(refs) \in Nat
         /\ \A i \in 1 .. Len(refs) :
              Release(buf)[i] = IF buf # 0 /\ i = buf THEN refs[i] - 1 ELSE refs[i]
<1>1. refs \in Seq(Int) /\ Len(refs) \in Nat
  BY DEF SharedType
<1>2. CASE buf = 0
  BY <1>1, <1>2 DEF Release
<1>3. CASE buf # 0
  <2> DEFINE f == [refs EXCEPT ![buf] = refs[buf] - 1]
  <2>1. f = [i \in 1 .. Len(refs) |-> IF i = buf THEN refs[i] - 1 ELSE refs[i]]
    BY <1>1
  <2>2. Release(buf) = f
    BY <1>3 DEF Release
  <2> HIDE DEF f
  <2>3. \A i \in 1 .. Len(refs) : f[i] = (IF i = buf THEN refs[i] - 1 ELSE refs[i]) /\ f[i] \in Int
    BY <1>1, <2>1
  <2>4. f \in Seq(Int) /\ Len(f) = Len(refs)
    BY <1>1, <2>1, <2>3
  <2> QED BY <1>1, <1>3, <2>2, <2>3, <2>4
<1> QED BY <1>2, <1>3

(* The retry of a corrupt block is a request.                              *)
LEMMA RetryRequest ==
  ASSUME NEW r \in Results
  PROVE  [addr |-> r.addr, blocks |-> {[id |-> r.id, size |-> r.size]}] \in Requests
<1> DEFINE b == [id |-> r.id, size |-> r.size]
<1>1. b \in Block /\ r.addr \in Addresses
  BY DEF Results, Block
<1>2. IsFiniteSet({b})
  BY FS_Singleton
<1> HIDE DEF b
<1>3. [addr |-> r.addr, blocks |-> {b}] \in Requests
  BY <1>1, <1>2 DEF Requests
<1> QED BY <1>3 DEF b

(* next keeps the types when it takes a good result.                       *)
LEMMA TypeTake == ASSUME TypeInv, TakeSuccess PROVE TypeInv'
<1> USE DEF taskQueues, loops, flight, caller, shared
<1>0. TaskType /\ FlightType /\ QueueType /\ HandedType /\ SharedType
  BY DEF TypeInv
<1> DEFINE r == Head(results)
<1>1. r \in Results /\ Tail(results) \in Seq(Results) /\ pc = "take" /\ results' = Tail(results)
  BY <1>0 DEF TakeSuccess, SharedType
<1>2. Account(r) /\ UNCHANGED <<deferred, localTodo, current, caller, isZombie, remaining, calls>>
  BY DEF TakeSuccess
<1>3. TakeGood(r) \/ TakeCorruptAgain(r) \/ TakeCorrupt(r) \/ StreamThrows(r) \/ WrapThrows(r)
  BY DEF TakeSuccess
<1> HIDE DEF r
<1>4. FlightType'
  <2>1. r.addr \in Addresses /\ r.size \in Int
    BY <1>1 DEF Results
  <2>2. nipa' \in [Addresses -> Int]
    BY <1>0, <1>2, <2>1 DEF Account, FlightType
  <2> QED BY <1>0, <1>2, <2>1, <2>2 DEF Account, FlightType
<1>5. refs' \in Seq(Int) /\ Len(refs') = Len(refs)
  <2>1. refs \in Seq(Int)
    BY <1>0 DEF SharedType
  <2>2. Release(r.buf) \in Seq(Int) /\ Len(Release(r.buf)) = Len(refs)
    BY <1>0, ReleaseFacts
  <2>3. refs' = refs \/ refs' = Release(r.buf)
    BY <1>3 DEF TakeGood, TakeCorruptAgain, TakeCorrupt, StreamThrows, WrapThrows
  <2> QED BY <2>1, <2>2, <2>3
<1>6. SharedType'
  <2>1. UNCHANGED <<remaining, calls>> /\ results' \in Seq(Results)
    BY <1>1, <1>2
  <2> QED BY <1>0, <1>5, <2>1 DEF SharedType
<1>7. HandedType'
  <2>1. UNCHANGED <<current, delivered, open>>
    BY <1>2
  <2> QED BY <1>0, <1>5, <2>1 DEF HandedType
<1>8. QueueType'
  <2>1. fetchRequests' \in Seq(Requests)
    <3> DEFINE q == [addr |-> r.addr, blocks |-> {[id |-> r.id, size |-> r.size]}]
    <3>1. q \in Requests
      BY <1>1, RetryRequest
    <3>2. fetchRequests' = fetchRequests \/ fetchRequests' = Append(fetchRequests, q)
      BY <1>3 DEF TakeGood, TakeCorruptAgain, TakeCorrupt, StreamThrows, WrapThrows
    <3> HIDE DEF q
    <3> QED BY <1>0, <3>1, <3>2 DEF QueueType
  <2> QED BY <1>0, <1>2, <2>1 DEF QueueType
<1>9. TaskType'
  <2>1. UNCHANGED <<numProcessed, isZombie>>
    BY <1>2
  <2>2. {a \in Addresses : deferred[a] # <<>>} \subseteq Addresses
    OBVIOUS
  <2>3. r.id \in ToFetch
    BY <1>1 DEF Results
  <2>4. CASE TakeGood(r)
    BY <1>0, <1>1, <2>1, <2>2, <2>4 DEF TakeGood, EnterFetch, TaskType, Holding
  <2>5. CASE TakeCorrupt(r)
    BY <1>0, <1>1, <2>1, <2>2, <2>3, <2>5 DEF TakeCorrupt, EnterFetch, TaskType, Holding
  <2>6. CASE TakeCorruptAgain(r) \/ StreamThrows(r) \/ WrapThrows(r)
    <3>1. pc' = "cleanup" /\ UNCHANGED <<then, scan, at, corrupted, taken>>
      BY <2>6 DEF TakeCorruptAgain, StreamThrows, WrapThrows
    <3> QED BY <1>0, <1>1, <2>1, <3>1 DEF TaskType, Holding
  <2> QED BY <1>3, <2>4, <2>5, <2>6
<1> QED BY <1>4, <1>6, <1>7, <1>8, <1>9 DEF TypeInv

(* The other steps of next, of the caller and of cleanup keep the types.   *)
LEMMA TypeNext ==
  ASSUME TypeInv,
         \/ CallNext \/ TakeFailure \/ Deliver \/ CloseStream
         \/ CompleteTask \/ MarkZombie \/ ReleaseAll \/ Finished
  PROVE  TypeInv'
<1> USE DEF taskQueues, loops, flight, caller, shared
<1>0. TaskType /\ FlightType /\ QueueType /\ HandedType /\ SharedType
  BY DEF TypeInv
<1>1. CASE CallNext
  <2>1. numProcessed + 1 \in 0 .. NumBlocksToFetch
    BY <1>0, <1>1, ToFetchFinite DEF CallNext, HasNext, TaskType
  <2>2. TaskType'
    BY <1>0, <1>1, <2>1 DEF CallNext, TaskType, Holding
  <2>3. FlightType' /\ QueueType' /\ HandedType' /\ SharedType'
    BY <1>0, <1>1 DEF CallNext, FlightType, QueueType, HandedType, SharedType
  <2> QED BY <2>2, <2>3 DEF TypeInv
<1>2. CASE TakeFailure
  <2>1. results' \in Seq(Results)
    BY <1>0, <1>2 DEF TakeFailure, SharedType
  <2>2. TaskType'
    BY <1>0, <1>2 DEF TakeFailure, TaskType, Holding
  <2>3. FlightType' /\ QueueType' /\ HandedType' /\ SharedType'
    BY <1>0, <1>2, <2>1 DEF TakeFailure, FlightType, QueueType, HandedType, SharedType
  <2> QED BY <2>2, <2>3 DEF TypeInv
<1>3. CASE Deliver
  <2>1. taken \in Results
    BY <1>0, <1>3 DEF Deliver, TaskType, Holding
  <2>2. TaskType' /\ FlightType' /\ QueueType'
    BY <1>0, <1>3 DEF Deliver, TaskType, Holding, FlightType, QueueType
  <2>3. SharedType'
    BY <1>0, <1>3 DEF Deliver, SharedType
  <2> DEFINE d == [id |-> taken.id, buf |-> taken.buf]
  <2>4. d \in [id : ToFetch, buf : Nat] /\ taken.buf \in Nat
    BY <2>1 DEF Results
  <2>5. /\ current' = taken.buf /\ delivered' = Append(delivered, d)
        /\ open' = open \cup {Len(delivered) + 1}
    BY <1>3 DEF Deliver
  <2> HIDE DEF d
  <2>7. delivered' \in Seq([id : ToFetch, buf : Nat]) /\ Len(delivered') = Len(delivered) + 1
        /\ Len(delivered) \in Nat
    <3>1. delivered \in Seq([id : ToFetch, buf : Nat])
      BY <1>0 DEF HandedType
    <3>2. delivered' = Append(delivered, d)
      BY <2>5
    <3> QED BY <2>4, <3>1, <3>2
  <2>8. open' \subseteq 1 .. Len(delivered')
    <3>1. open \subseteq 1 .. Len(delivered)
      BY <1>0 DEF HandedType
    <3>2. open' = open \cup {Len(delivered) + 1}
      BY <2>5
    <3>3. \A i \in 1 .. Len(delivered) + 1 : i \in 1 .. Len(delivered')
      BY <2>7
    <3>4. \A i \in 1 .. Len(delivered) : i \in 1 .. Len(delivered) + 1
      BY <2>7
    <3>5. Len(delivered) + 1 \in 1 .. Len(delivered) + 1
      BY <2>7
    <3> QED BY <3>1, <3>2, <3>3, <3>4, <3>5
  <2>6. HandedType'
    BY <2>4, <2>5, <2>7, <2>8 DEF HandedType
  <2> QED BY <2>2, <2>3, <2>6 DEF TypeInv
<1>4. CASE CloseStream
  <2>1. refs' \in Seq(Int) /\ Len(refs') = Len(refs) /\ current' = 0 /\ Len(refs) \in Nat
    BY <1>0, <1>4, ReleaseFacts DEF CloseStream
  <2>2. open' \subseteq open /\ delivered' = delivered
    BY <1>4 DEF CloseStream
  <2>3. TaskType' /\ FlightType' /\ QueueType'
    BY <1>0, <1>4 DEF CloseStream, TaskType, Holding, FlightType, QueueType
  <2>4. HandedType'
    BY <1>0, <2>1, <2>2 DEF HandedType
  <2>5. UNCHANGED <<results, remaining, calls>>
    BY <1>4 DEF CloseStream
  <2>6. SharedType'
    BY <1>0, <2>1, <2>5 DEF SharedType
  <2> QED BY <2>3, <2>4, <2>6 DEF TypeInv
<1>5. CASE CompleteTask
  <2>1. TaskType'
    BY <1>0, <1>5 DEF CompleteTask, TaskType, Holding
  <2>2. FlightType' /\ QueueType' /\ HandedType' /\ SharedType'
    BY <1>0, <1>5 DEF CompleteTask, FlightType, QueueType, HandedType, SharedType
  <2> QED BY <2>1, <2>2 DEF TypeInv
<1>6. CASE MarkZombie
  <2>1. TaskType'
    BY <1>0, <1>6 DEF MarkZombie, TaskType, Holding
  <2>2. FlightType' /\ QueueType' /\ HandedType' /\ SharedType'
    BY <1>0, <1>6 DEF MarkZombie, FlightType, QueueType, HandedType, SharedType
  <2> QED BY <2>1, <2>2 DEF TypeInv
<1>7. CASE ReleaseAll
  <2>1. ASSUME NEW i \in 1 .. Len(refs) PROVE Release(current)[i] - Queued(i) \in Int
    <3>1. Release(current)[i] \in Int
      BY <1>0, ReleaseFacts
    <3>2. Len(results) \in Nat
      BY <1>0 DEF SharedType
    <3>3. Queued(i) \in Nat
      <4> DEFINE Q == {k \in 1 .. Len(results) : results[k].ok /\ results[k].buf = i}
      <4>1. IsFiniteSet(1 .. Len(results)) /\ Q \in SUBSET (1 .. Len(results))
        BY <3>2, FS_Interval
      <4> HIDE DEF Q
      <4>2. Cardinality(Q) \in Nat
        BY <4>1, FS_Subset, FS_CardinalityType
      <4> QED BY <4>2 DEF Queued, Q
    <3> QED BY <3>1, <3>3
  <2>2. Len(refs) \in Nat
    BY <1>0 DEF SharedType
  <2>3. refs' \in Seq(Int) /\ Len(refs') = Len(refs)
    BY <1>7, <2>1, <2>2 DEF ReleaseAll
  <2>4. current' = 0 /\ UNCHANGED <<delivered, open, results, remaining, calls>>
    BY <1>7 DEF ReleaseAll
  <2>5. HandedType' /\ SharedType'
    BY <1>0, <2>3, <2>4 DEF HandedType, SharedType
  <2>6. TaskType' /\ FlightType' /\ QueueType'
    BY <1>0, <1>7 DEF ReleaseAll, TaskType, Holding, FlightType, QueueType
  <2> QED BY <2>5, <2>6 DEF TypeInv
<1>8. CASE Finished
  <2>1. UNCHANGED vars
    BY <1>8 DEF Finished
  <2> QED BY <1>0, <2>1 DEF vars, TypeInv, TaskType, Holding, FlightType, QueueType, HandedType,
                           SharedType
<1> QED BY <1>1, <1>2, <1>3, <1>4, <1>5, <1>6, <1>7, <1>8

(* Every step keeps the types.                                             *)
LEMMA TypeStep == ASSUME TypeInv, [Next]_vars PROVE TypeInv'
<1>1. CASE UNCHANGED vars
  BY <1>1 DEF vars, taskQueues, loops, flight, caller, shared, TypeInv, TaskType, Holding,
              FlightType, QueueType, HandedType, SharedType
<1>2. CASE Next
  BY <1>2, TypeFetch, TypeLocal, TypeCallback, TypeTake, TypeNext DEF Next, TaskStep
<1> QED BY <1>1, <1>2

(* The types hold in every state.                                          *)
LEMMA TypeCorrect == Spec => []TypeInv
BY TypeInit, TypeStep, PTL DEF Spec

--------------------------------------------------------------------------------
(* Buffers.                                                                *)

(* A buffer that may still be released is referenced once, by one of the   *)
(* result being handed out, the current buffer and the queue; a fetch that *)
(* is not answered has none yet.                                           *)
CallsInv ==
  /\ \A i \in 1 .. Len(refs) : refs[i] \in {0, 1}
  /\ \A c \in calls : refs[c.num] = 0
  /\ \A c, d \in calls : c.num = d.num => c = d
HoldsInv ==
  /\ current <= Len(refs)
  /\ Holding => taken.buf <= Len(refs)
  /\ pc # "done" => /\ current # 0 => refs[current] = 1
                    /\ Holding /\ taken.buf # 0 => refs[taken.buf] = 1 /\ taken.buf # current
  /\ pc = "done" => current = 0
QueueInv ==
  /\ \A k \in 1 .. Len(results) : /\ results[k].buf <= Len(refs)
                                  /\ ~results[k].ok => results[k].buf = 0
  /\ \A j, k \in 1 .. Len(results) :
       results[j].buf = results[k].buf /\ results[j].buf # 0 => j = k
  /\ \A k \in 1 .. Len(results) : results[k].buf # 0 =>
       /\ pc = "done" => refs[results[k].buf] = 0
       /\ pc # "done" => /\ refs[results[k].buf] = 1 /\ results[k].buf # current
                         /\ Holding => results[k].buf # taken.buf
BufferInv == CallsInv /\ HoldsInv /\ QueueInv

(* A sequence with an element more.                                        *)
LEMMA AppendFacts ==
  ASSUME NEW T, NEW s \in Seq(T), NEW e \in T
  PROVE  /\ Append(s, e) \in Seq(T) /\ Len(s) \in Nat /\ Len(Append(s, e)) = Len(s) + 1
         /\ \A k \in 1 .. Len(s) : k \in 1 .. Len(s) + 1 /\ Append(s, e)[k] = s[k] /\ s[k] \in T
         /\ Append(s, e)[Len(s) + 1] = e
         /\ \A k \in 1 .. Len(s) + 1 : k \in 1 .. Len(s) \/ k = Len(s) + 1
BY AppendProperties

(* A sequence without its first element.                                   *)
LEMMA TailFacts ==
  ASSUME NEW T, NEW s \in Seq(T), s # <<>>
  PROVE  /\ Len(s) \in Nat /\ 1 \in 1 .. Len(s) /\ Head(s) = s[1] /\ Head(s) \in T
         /\ Tail(s) \in Seq(T) /\ Len(Tail(s)) = Len(s) - 1
         /\ \A k \in 1 .. Len(Tail(s)) : /\ k + 1 \in 1 .. Len(s) /\ Tail(s)[k] = s[k + 1]
                                         /\ k + 1 # 1 /\ k \in Nat
<1>1. Len(s) \in Nat /\ Len(s) # 0
  OBVIOUS
<1>2. Tail(s) \in Seq(T) /\ Len(Tail(s)) = Len(s) - 1
  OBVIOUS
<1> QED BY <1>1, <1>2

(* What the types say of the buffers.                                      *)
LEMMA BufferTypes ==
  ASSUME TypeInv
  PROVE  /\ results \in Seq(Results) /\ Len(results) \in Nat
         /\ \A k \in 1 .. Len(results) : results[k] \in Results /\ results[k].buf \in Nat
         /\ Holding => taken \in Results /\ taken.buf \in Nat
         /\ current \in Nat /\ refs \in Seq(Int) /\ Len(refs) \in Nat
         /\ \A c \in calls : c \in Calls /\ c.num \in 1 .. Len(refs)
<1>1. TaskType /\ HandedType /\ SharedType
  BY DEF TypeInv
<1>2. results \in Seq(Results) /\ Len(results) \in Nat /\ refs \in Seq(Int) /\ Len(refs) \in Nat
  BY <1>1 DEF SharedType
<1>3. \A k \in 1 .. Len(results) : results[k] \in Results
  BY <1>2
<1>4. (Holding => taken \in Results) /\ current \in Nat
  BY <1>1 DEF TaskType, HandedType
<1>5. \A r \in Results : r.buf \in Nat
  BY DEF Results
<1>6. \A c \in calls : c \in Calls /\ c.num \in 1 .. Len(refs)
  BY <1>1, <1>2 DEF SharedType, Calls
<1> QED BY <1>2, <1>3, <1>4, <1>5, <1>6

(* Buffers are left alone by a step that changes no result, current or     *)
(* taken buffer, and gives none of the old buffers another count.          *)
LEMMA BufferFrame ==
  ASSUME TypeInv, BufferInv, TypeInv', UNCHANGED <<current, taken, results>>,
         Holding' => Holding, pc' = "done" <=> pc = "done",
         Len(refs) <= Len(refs'), \A i \in 1 .. Len(refs) : refs'[i] = refs[i]
  PROVE  HoldsInv' /\ QueueInv'
<1>1. /\ results \in Seq(Results) /\ Len(results) \in Nat
      /\ \A k \in 1 .. Len(results) : results[k].buf \in Nat
      /\ Holding => taken.buf \in Nat
      /\ current \in Nat /\ Len(refs) \in Nat /\ Len(refs') \in Nat
  <2>1. Len(refs') \in Nat
    BY DEF TypeInv, SharedType
  <2> QED BY <2>1, BufferTypes
<1>2. \A n \in Nat : n <= Len(refs) => n <= Len(refs') /\ (n # 0 => refs'[n] = refs[n])
  BY <1>1
<1>3. HoldsInv'
  BY <1>1, <1>2 DEF BufferInv, HoldsInv
<1>4. QueueInv'
  <2>1. \A k \in 1 .. Len(results) : /\ results[k].buf <= Len(refs')
                                     /\ ~results[k].ok => results[k].buf = 0
    BY <1>1, <1>2 DEF BufferInv, QueueInv
  <2>2. \A k \in 1 .. Len(results) : results[k].buf # 0 =>
          refs'[results[k].buf] = refs[results[k].buf]
    BY <1>1, <1>2 DEF BufferInv, QueueInv
  <2>3. \A k \in 1 .. Len(results) : results[k].buf # 0 =>
          /\ pc' = "done" => refs'[results[k].buf] = 0
          /\ pc' # "done" => /\ refs'[results[k].buf] = 1 /\ results[k].buf # current
                             /\ Holding' => results[k].buf # taken.buf
    BY <2>2 DEF BufferInv, QueueInv
  <2>4. \A j, k \in 1 .. Len(results) :
          results[j].buf = results[k].buf /\ results[j].buf # 0 => j = k
    BY DEF BufferInv, QueueInv
  <2> QED BY <2>1, <2>3, <2>4 DEF QueueInv
<1> QED BY <1>3, <1>4

(* The buffers of fetches just made have no reference yet.                 *)
LEMMA MoreRefs ==
  ASSUME SharedType, NEW n \in Nat, refs' = refs \o Zeros(n)
  PROVE  /\ Len(refs) \in Nat /\ Len(refs') = Len(refs) + n
         /\ \A i \in 1 .. Len(refs) : refs'[i] = refs[i]
         /\ \A i \in Len(refs) + 1 .. Len(refs) + n : refs'[i] = 0
         /\ \A i \in 1 .. Len(refs') : i \in 1 .. Len(refs) \/ i \in Len(refs) + 1 .. Len(refs) + n
<1>1. /\ refs \in Seq(Int) /\ Len(refs) \in Nat
      /\ Zeros(n) \in Seq(Int) /\ Len(Zeros(n)) = n
      /\ \A i \in 1 .. n : Zeros(n)[i] = 0
  BY DEF SharedType, Zeros
<1>2. Len(refs \o Zeros(n)) = Len(refs) + n
  BY <1>1, ConcatProperties
<1>3. \A i \in 1 .. Len(refs) + n :
        (refs \o Zeros(n))[i] = IF i <= Len(refs) THEN refs[i] ELSE Zeros(n)[i - Len(refs)]
  BY <1>1, ConcatProperties
<1>4. \A i \in Len(refs) + 1 .. Len(refs) + n :
        i - Len(refs) \in 1 .. n /\ ~(i <= Len(refs)) /\ i \in 1 .. Len(refs) + n
  BY <1>1
<1>5. \A i \in 1 .. Len(refs) : i <= Len(refs) /\ i \in 1 .. Len(refs) + n
  BY <1>1
<1>6. \A i \in 1 .. Len(refs) + n : i \in 1 .. Len(refs) \/ i \in Len(refs) + 1 .. Len(refs) + n
  BY <1>1
<1> QED BY <1>1, <1>2, <1>3, <1>4, <1>5, <1>6

(* Sending keeps the buffers.                                              *)
LEMMA BufferAdds ==
  ASSUME TypeInv, BufferInv, TypeInv', UNCHANGED <<current, taken, results>>,
         Holding' => Holding, pc' = "done" <=> pc = "done",
         NEW K, NEW n \in Nat, Added(K, n), calls' = calls \cup K, refs' = refs \o Zeros(n)
  PROVE  BufferInv'
<1>1. \A c \in calls : c.num \in 1 .. Len(refs)
  BY BufferTypes
<1>2. /\ Len(refs) \in Nat /\ Len(refs') = Len(refs) + n
      /\ \A i \in 1 .. Len(refs) : refs'[i] = refs[i]
      /\ \A i \in Len(refs) + 1 .. Len(refs) + n : refs'[i] = 0
      /\ \A i \in 1 .. Len(refs') : i \in 1 .. Len(refs) \/ i \in Len(refs) + 1 .. Len(refs) + n
  BY MoreRefs DEF TypeInv
<1>3. HoldsInv' /\ QueueInv'
  <2>1. Len(refs) <= Len(refs')
    BY <1>1, <1>2
  <2> QED BY <1>2, <2>1, BufferFrame
<1>4. CallsInv'
  <2>1. \A i \in 1 .. Len(refs') : refs'[i] \in {0, 1}
    BY <1>2 DEF BufferInv, CallsInv
  <2>2. \A c \in calls' : refs'[c.num] = 0
    BY <1>1, <1>2 DEF BufferInv, CallsInv, Added
  <2>3. \A c \in calls, d \in K : c.num # d.num
    BY <1>1, <1>2 DEF Added
  <2>4. \A c, d \in calls' : c.num = d.num => c = d
    BY <2>3 DEF BufferInv, CallsInv, Added
  <2> QED BY <2>1, <2>2, <2>4 DEF CallsInv
<1> QED BY <1>3, <1>4 DEF BufferInv

(* fetchUpToMaxBytes.                                                      *)
LEMMA BufferFetch == ASSUME TypeInv, BufferInv, TypeInv', FetchStep PROVE BufferInv'
<1> USE DEF taskQueues, loops, flight, caller, shared
<1>1. CASE VisitDeferred \/ LeaveDeferred \/ EndDeferred \/ EndFetch \/ DeferRegular
  <2>1. UNCHANGED <<current, taken, shared>>
    BY <1>1 DEF VisitDeferred, LeaveDeferred, EndDeferred, EndFetch, DeferRegular
  <2>2. (Holding' => Holding) /\ pc # "done" /\ pc' # "done"
    BY <1>1 DEF VisitDeferred, LeaveDeferred, EndDeferred, EndFetch, DeferRegular, Holding,
                TypeInv, TaskType
  <2>3. Len(refs) \in Nat
    BY DEF TypeInv, SharedType
  <2>4. HoldsInv' /\ QueueInv'
    BY <2>1, <2>2, <2>3, BufferFrame
  <2>5. CallsInv'
    BY <2>1 DEF BufferInv, CallsInv
  <2> QED BY <2>4, <2>5 DEF BufferInv
<1>2. CASE SendDeferred \/ SendRegular
  <2>1. PICK r \in Requests : Send(r)
    BY <1>2, SentRequest DEF TypeInv
  <2>2. PICK K : \E n \in Nat : Added(K, n) /\ calls' = calls \cup K /\ refs' = refs \o Zeros(n)
    BY <2>1, SendAdds DEF TypeInv
  <2>3. PICK n \in Nat : Added(K, n) /\ calls' = calls \cup K /\ refs' = refs \o Zeros(n)
    BY <2>2
  <2>4. UNCHANGED <<pc, then, current, taken, results>>
    BY <1>2 DEF SendDeferred, SendRegular
  <2>5. Holding' <=> Holding
    BY <2>4 DEF Holding
  <2> QED BY <2>3, <2>4, <2>5, BufferAdds
<1>3. CASE StorageThrows
  <2>1. PICK K : \E n \in Nat : Added(K, n) /\ calls' = calls \cup K /\ refs' = refs \o Zeros(n)
    BY <1>3, ThrowAdds
  <2>2. PICK n \in Nat : Added(K, n) /\ calls' = calls \cup K /\ refs' = refs \o Zeros(n)
    BY <2>1
  <2>3. UNCHANGED <<current, taken, results>> /\ pc' = "cleanup" /\ pc # "done"
    BY <1>3 DEF StorageThrows, Sending
  <2>4. ~Holding'
    BY <2>3 DEF Holding
  <2> QED BY <2>2, <2>3, <2>4, BufferAdds
<1> QED BY <1>1, <1>2, <1>3 DEF FetchStep

(* A result that joins the queue: without a buffer, or with one that was   *)
(* counted for it in this step.                                            *)
LEMMA BufferQueue ==
  ASSUME TypeInv, BufferInv, TypeInv', NEW r \in Results, results' = Append(results, r),
         UNCHANGED <<pc, then, current, taken>>, pc # "done" \/ r.buf = 0,
         Len(refs) <= Len(refs'), r.buf <= Len(refs'), ~r.ok => r.buf = 0,
         \A i \in 1 .. Len(refs) : i # r.buf => refs'[i] = refs[i],
         r.buf # 0 => refs'[r.buf] = 1 /\ (r.buf <= Len(refs) => refs[r.buf] = 0)
  PROVE  HoldsInv' /\ QueueInv'
<1>1. /\ results \in Seq(Results) /\ Len(results) \in Nat
      /\ \A k \in 1 .. Len(results) : results[k].buf \in Nat
      /\ Holding => taken.buf \in Nat
      /\ current \in Nat /\ Len(refs) \in Nat /\ Len(refs') \in Nat /\ r.buf \in Nat
  <2>1. Len(refs') \in Nat
    BY DEF TypeInv, SharedType
  <2>2. r.buf \in Nat
    BY DEF Results
  <2> QED BY <2>1, <2>2, BufferTypes
<1>2. \A n \in Nat : n <= Len(refs) /\ n # 0 /\ refs[n] = 1 => refs'[n] = 1 /\ n # r.buf
  BY <1>1
<1>3. \A n \in Nat : n <= Len(refs) => n <= Len(refs')
  BY <1>1
<1>4. Holding' <=> Holding
  BY DEF Holding
<1>5. HoldsInv'
  BY <1>1, <1>2, <1>3, <1>4 DEF BufferInv, HoldsInv
<1>6. /\ Len(results') = Len(results) + 1
      /\ \A k \in 1 .. Len(results) : results'[k] = results[k]
      /\ results'[Len(results) + 1] = r
      /\ \A k \in 1 .. Len(results') : k \in 1 .. Len(results) \/ k = Len(results) + 1
  BY <1>1, AppendFacts
<1>7. ASSUME NEW k \in 1 .. Len(results)
      PROVE  /\ results[k].buf <= Len(refs) /\ (~results[k].ok => results[k].buf = 0)
             /\ results[k].buf # 0 =>
                  IF pc = "done" THEN refs[results[k].buf] = 0
                  ELSE /\ refs[results[k].buf] = 1 /\ results[k].buf # current
                       /\ Holding => results[k].buf # taken.buf
  BY DEF BufferInv, QueueInv
<1>8. ASSUME NEW k \in 1 .. Len(results)
      PROVE  /\ results[k].buf <= Len(refs') /\ (~results[k].ok => results[k].buf = 0)
             /\ r.buf # 0 => results[k].buf # r.buf
             /\ results[k].buf # 0 =>
                  /\ pc = "done" => refs'[results[k].buf] = 0
                  /\ pc # "done" => /\ refs'[results[k].buf] = 1 /\ results[k].buf # current
                                    /\ Holding => results[k].buf # taken.buf
  <2>1. results[k].buf \in Nat /\ results[k].buf <= Len(refs) /\ results[k].buf <= Len(refs')
    BY <1>1, <1>3, <1>7
  <2>2. CASE pc # "done"
    BY <1>1, <1>2, <1>7, <2>1, <2>2
  <2>3. CASE pc = "done"
    <3>1. r.buf = 0
      BY <2>3
    <3>2. results[k].buf # 0 => results[k].buf \in 1 .. Len(refs) /\ results[k].buf # r.buf
      BY <1>1, <2>1, <3>1
    <3> QED BY <1>7, <2>1, <2>3, <3>1, <3>2
  <2> QED BY <2>2, <2>3
<1>9. /\ r.buf <= Len(refs') /\ (~r.ok => r.buf = 0)
      /\ r.buf # 0 => /\ pc # "done" /\ refs'[r.buf] = 1 /\ r.buf # current
                      /\ Holding => r.buf # taken.buf
  <2>1. r.buf # 0 /\ current # 0 => current # r.buf
    BY <1>1, <1>2 DEF BufferInv, HoldsInv
  <2>2. r.buf # 0 /\ Holding /\ taken.buf # 0 => taken.buf # r.buf
    BY <1>1, <1>2 DEF BufferInv, HoldsInv
  <2> QED BY <2>1, <2>2
<1>10. QueueInv'
  <2>1. \A j, k \in 1 .. Len(results) :
          results[j].buf = results[k].buf /\ results[j].buf # 0 => j = k
    BY DEF BufferInv, QueueInv
  <2>2. \A j, k \in 1 .. Len(results') :
          results'[j].buf = results'[k].buf /\ results'[j].buf # 0 => j = k
    BY <1>6, <1>8, <2>1
  <2>3. \A k \in 1 .. Len(results') : /\ results'[k].buf <= Len(refs')
                                      /\ ~results'[k].ok => results'[k].buf = 0
    BY <1>6, <1>8, <1>9
  <2>4. \A k \in 1 .. Len(results') : results'[k].buf # 0 =>
          /\ pc = "done" => refs'[results'[k].buf] = 0
          /\ pc # "done" => /\ refs'[results'[k].buf] = 1 /\ results'[k].buf # current
                            /\ Holding => results'[k].buf # taken.buf
    BY <1>6, <1>8, <1>9
  <2> QED BY <1>4, <2>2, <2>3, <2>4 DEF QueueInv
<1> QED BY <1>5, <1>10

(* fetchLocalBlocks.                                                       *)
LEMMA BufferLocal == ASSUME TypeInv, BufferInv, TypeInv', LocalStep PROVE BufferInv'
<1> USE DEF taskQueues, loops, flight, caller, shared
<1>0. /\ refs \in Seq(Int) /\ Len(refs) \in Nat
      /\ \A c \in calls : c \in Calls /\ c.num \in 1 .. Len(refs)
  BY BufferTypes
<1>1. CASE FetchLocal
  <2> DEFINE b == Head(localTodo)
             r == Success(b.id, Local, 0, Len(refs) + 1, 0, FALSE, "local")
  <2>1. b \in Wanted
    BY <1>1 DEF FetchLocal, TypeInv, QueueType
  <2>2. r \in Results /\ r.buf = Len(refs) + 1 /\ r.ok
    <3>1. Len(refs) + 1 \in Nat
      BY <1>0
    <3> QED BY <2>1, <3>1, ResultTypes DEF Success
  <2>3. results' = Append(results, r) /\ refs' = Append(refs, 1)
        /\ UNCHANGED <<pc, then, current, taken, calls>> /\ pc = "local"
    BY <1>1 DEF FetchLocal, Answered
  <2> HIDE DEF r
  <2>4. /\ Len(refs') = Len(refs) + 1
        /\ \A i \in 1 .. Len(refs) : refs'[i] = refs[i]
        /\ refs'[Len(refs) + 1] = 1
        /\ \A i \in 1 .. Len(refs') : i \in 1 .. Len(refs) \/ i = Len(refs) + 1
    BY <1>0, <2>3, AppendFacts
  <2>5. HoldsInv' /\ QueueInv'
    <3>1. Len(refs) <= Len(refs') /\ r.buf <= Len(refs') /\ ~(r.buf <= Len(refs)) /\ r.buf # 0
      BY <1>0, <2>2, <2>4
    <3> QED BY <2>2, <2>3, <2>4, <3>1, BufferQueue
  <2>6. CallsInv'
    BY <1>0, <2>3, <2>4 DEF BufferInv, CallsInv
  <2> QED BY <2>5, <2>6 DEF BufferInv
<1>2. CASE LocalFails
  <2> DEFINE r == Failure(Head(localTodo).id, Local, 0, 0, "local")
  <2>1. Head(localTodo) \in Wanted
    BY <1>2 DEF LocalFails, TypeInv, QueueType
  <2>2. r \in Results /\ r.buf = 0
    BY <2>1, ResultTypes DEF Failure
  <2>3. results' = Append(results, r) /\ UNCHANGED <<pc, then, current, taken, calls, refs>>
    BY <1>2 DEF LocalFails
  <2> HIDE DEF r
  <2>4. Len(refs) <= Len(refs') /\ r.buf <= Len(refs')
    BY <1>0, <2>2, <2>3
  <2>5. HoldsInv' /\ QueueInv'
    BY <2>2, <2>3, <2>4, BufferQueue
  <2>6. CallsInv'
    BY <2>3 DEF BufferInv, CallsInv
  <2> QED BY <2>5, <2>6 DEF BufferInv
<1>3. CASE EndLocal
  <2>1. UNCHANGED <<current, taken, results, refs, calls>> /\ pc = "local" /\ pc' = "caller"
    BY <1>3 DEF EndLocal
  <2>2. HoldsInv' /\ QueueInv'
    <3>1. Len(refs) <= Len(refs') /\ ~Holding'
      BY <1>0, <2>1 DEF Holding
    <3> QED BY <2>1, <3>1, BufferFrame
  <2>3. CallsInv'
    BY <2>1 DEF BufferInv, CallsInv
  <2> QED BY <2>2, <2>3 DEF BufferInv
<1> QED BY <1>1, <1>2, <1>3 DEF LocalStep

(* The callbacks.                                                          *)
LEMMA BufferCallback == ASSUME TypeInv, BufferInv, TypeInv', Callback PROVE BufferInv'
<1> USE DEF taskQueues, loops, flight, caller, shared
<1>1. PICK c \in calls :
        /\ NetworkSuccess(c) \/ StorageSuccess(c) \/ FetchFails(c)
        /\ calls' = calls \ {c}
        /\ UNCHANGED <<pc, then, taskQueues, loops, flight, corrupted, localTodo, taken,
                       current, caller, isZombie>>
  BY DEF Callback
<1>2. /\ refs \in Seq(Int) /\ Len(refs) \in Nat
      /\ \A d \in calls : d \in Calls /\ d.num \in 1 .. Len(refs)
  BY BufferTypes
<1>3. refs[c.num] = 0 /\ c.num \in 1 .. Len(refs) /\ c \in Calls /\ \A d \in calls' : d.num # c.num
  BY <1>1, <1>2 DEF BufferInv, CallsInv
<1>4. CASE NetworkSuccess(c) /\ isZombie
  <2>1. UNCHANGED <<pc, then, current, taken, results, refs>>
    BY <1>1, <1>4 DEF NetworkSuccess
  <2>2. HoldsInv' /\ QueueInv'
    <3>1. Len(refs) <= Len(refs') /\ (Holding' <=> Holding)
      BY <1>2, <2>1 DEF Holding
    <3> QED BY <2>1, <3>1, BufferFrame
  <2>3. CallsInv'
    BY <1>1, <2>1 DEF BufferInv, CallsInv
  <2> QED BY <2>2, <2>3 DEF BufferInv
<1>5. CASE NetworkSuccess(c) /\ ~isZombie
  <2> DEFINE done == (remaining[c.req] \ {c.id}) = {}
             r == Success(c.id, c.addr, c.size, c.num, c.req, done, "network")
  <2>1. r \in Results /\ r.buf = c.num /\ r.ok
    BY <1>3, ResultTypes DEF Success
  <2>2. pc # "done"
    BY <1>5 DEF TypeInv, TaskType
  <2>3. results' = Append(results, r) /\ refs' = [refs EXCEPT ![c.num] = @ + 1]
        /\ UNCHANGED <<pc, then, current, taken>>
    BY <1>1, <1>5 DEF NetworkSuccess
  <2> HIDE DEF r
  <2>4. /\ Len(refs') = Len(refs) /\ refs'[c.num] = 1
        /\ \A i \in 1 .. Len(refs) : i # c.num => refs'[i] = refs[i]
    BY <1>2, <1>3, <2>3
  <2>5. HoldsInv' /\ QueueInv'
    <3>1. Len(refs) <= Len(refs') /\ r.buf <= Len(refs')
      BY <1>2, <1>3, <2>1, <2>4
    <3> QED BY <1>3, <2>1, <2>2, <2>3, <2>4, <3>1, BufferQueue
  <2>6. CallsInv'
    BY <1>1, <1>2, <1>3, <2>4 DEF BufferInv, CallsInv
  <2> QED BY <2>5, <2>6 DEF BufferInv
<1>6. CASE StorageSuccess(c) \/ FetchFails(c)
  <2>1. PICK r \in Results : r.buf = 0 /\ results' = Append(results, r)
    <3>1. CASE StorageSuccess(c)
      <4> DEFINE r == Success(c.id, Local, 0, 0, 0, FALSE, "storage")
      <4>1. r \in Results /\ r.buf = 0 /\ results' = Append(results, r)
        BY <1>3, <3>1, ResultTypes DEF StorageSuccess, Success
      <4> QED BY <4>1
    <3>2. CASE FetchFails(c)
      <4> DEFINE r == Failure(c.id, c.addr, c.size, c.req, c.kind)
      <4>1. r \in Results /\ r.buf = 0 /\ results' = Append(results, r)
        BY <1>3, <3>2, ResultTypes DEF FetchFails, Failure
      <4> QED BY <4>1
    <3> QED BY <1>6, <3>1, <3>2
  <2>2. UNCHANGED <<pc, then, current, taken, refs>>
    BY <1>1, <1>6 DEF StorageSuccess, FetchFails
  <2>3. HoldsInv' /\ QueueInv'
    <3>1. Len(refs) <= Len(refs') /\ r.buf <= Len(refs')
      BY <1>2, <2>1, <2>2
    <3> QED BY <2>1, <2>2, <3>1, BufferQueue
  <2>4. CallsInv'
    BY <1>1, <2>2 DEF BufferInv, CallsInv
  <2> QED BY <2>3, <2>4 DEF BufferInv
<1> QED BY <1>1, <1>4, <1>5, <1>6

(* next when it takes a result.                                            *)
LEMMA BufferTake ==
  ASSUME TypeInv, BufferInv, TypeInv', TakeSuccess \/ TakeFailure
  PROVE  BufferInv'
<1> USE DEF taskQueues, loops, flight, caller, shared
<1> DEFINE r == Head(results)
<1>1. /\ results \in Seq(Results) /\ Len(results) \in Nat
      /\ \A k \in 1 .. Len(results) : results[k] \in Results /\ results[k].buf \in Nat
      /\ current \in Nat /\ refs \in Seq(Int) /\ Len(refs) \in Nat
      /\ \A c \in calls : c \in Calls /\ c.num \in 1 .. Len(refs)
  BY BufferTypes
<1>2. /\ results # <<>> /\ results' = Tail(results) /\ pc = "take" /\ ~Holding
      /\ UNCHANGED <<current, calls>>
  BY DEF TakeSuccess, TakeFailure, Holding
<1>3. /\ 1 \in 1 .. Len(results) /\ r = results[1] /\ Len(results') \in Nat
      /\ \A k \in 1 .. Len(results') : /\ k + 1 \in 1 .. Len(results) /\ k + 1 # 1
                                       /\ results'[k] = results[k + 1]
      /\ \A j, k \in 1 .. Len(results') : j + 1 = k + 1 => j = k
  <2>1. /\ Len(Tail(results)) = Len(results) - 1 /\ 1 \in 1 .. Len(results)
        /\ Head(results) = results[1]
        /\ \A k \in 1 .. Len(Tail(results)) :
             /\ k + 1 \in 1 .. Len(results) /\ Tail(results)[k] = results[k + 1]
             /\ k + 1 # 1 /\ k \in Nat
    BY <1>1, <1>2, TailFacts
  <2> QED BY <1>1, <1>2, <2>1
<1> HIDE DEF r
<1>4. \A k \in 1 .. Len(results) :
        /\ results[k].buf <= Len(refs) /\ (~results[k].ok => results[k].buf = 0)
        /\ results[k].buf # 0 => refs[results[k].buf] = 1 /\ results[k].buf # current
  BY <1>2 DEF BufferInv, QueueInv
<1>5. \A j, k \in 1 .. Len(results) :
        results[j].buf = results[k].buf /\ results[j].buf # 0 => j = k
  BY DEF BufferInv, QueueInv
<1>6. r.buf \in Nat /\ r.buf <= Len(refs)
      /\ (r.buf # 0 => refs[r.buf] = 1 /\ r.buf # current /\ r.buf \in 1 .. Len(refs))
      /\ \A k \in 1 .. Len(results') : r.buf # 0 => results'[k].buf # r.buf
  <2>1. r.buf \in Nat /\ r.buf <= Len(refs)
        /\ (r.buf # 0 => refs[r.buf] = 1 /\ r.buf # current)
    BY <1>1, <1>3, <1>4
  <2>2. r.buf # 0 => r.buf \in 1 .. Len(refs)
    BY <1>1, <2>1
  <2>3. ASSUME NEW k \in 1 .. Len(results'), r.buf # 0, results'[k].buf = r.buf PROVE FALSE
    <3>1. k + 1 \in 1 .. Len(results) /\ k + 1 # 1 /\ results[k + 1].buf = results[1].buf
      BY <1>3, <2>3
    <3>2. results[1].buf # 0
      BY <1>3, <2>3
    <3> QED BY <1>3, <1>5, <3>1, <3>2
  <2> QED BY <2>1, <2>2, <2>3
<1>7. /\ \A k \in 1 .. Len(results') :
           /\ results'[k].buf <= Len(refs) /\ (~results'[k].ok => results'[k].buf = 0)
           /\ results'[k].buf \in Nat
           /\ results'[k].buf # 0 => refs[results'[k].buf] = 1 /\ results'[k].buf # current
      /\ \A j, k \in 1 .. Len(results') :
           results'[j].buf = results'[k].buf /\ results'[j].buf # 0 => j = k
  <2>1. ASSUME NEW k \in 1 .. Len(results')
        PROVE  /\ results'[k].buf <= Len(refs) /\ (~results'[k].ok => results'[k].buf = 0)
               /\ results'[k].buf \in Nat
               /\ results'[k].buf # 0 => refs[results'[k].buf] = 1 /\ results'[k].buf # current
    <3> DEFINE q == results[k + 1]
    <3>1. /\ q.buf <= Len(refs) /\ (~q.ok => q.buf = 0) /\ q.buf \in Nat
          /\ q.buf # 0 => refs[q.buf] = 1 /\ q.buf # current
      BY <1>1, <1>3, <1>4
    <3>2. results'[k] = q
      BY <1>3
    <3> HIDE DEF q
    <3> QED BY <3>1, <3>2
  <2>2. ASSUME NEW j \in 1 .. Len(results'), NEW k \in 1 .. Len(results'),
               results'[j].buf = results'[k].buf, results'[j].buf # 0
        PROVE  j = k
    <3>1. /\ j + 1 \in 1 .. Len(results) /\ k + 1 \in 1 .. Len(results)
          /\ results[j + 1].buf = results[k + 1].buf /\ results[j + 1].buf # 0
      BY <1>3, <2>2
    <3>2. j + 1 = k + 1
      BY <1>5, <3>1
    <3> QED BY <1>3, <3>2
  <2> QED BY <2>1, <2>2
<1>8. CASE TakeSuccess /\ TakeGood(r)
  <2>1. UNCHANGED refs /\ taken' = r /\ pc' = "deferred"
    BY <1>8 DEF TakeGood, EnterFetch
  <2>2. CallsInv'
    BY <1>2, <2>1 DEF BufferInv, CallsInv
  <2>3. HoldsInv'
    BY <1>2, <1>6, <2>1 DEF BufferInv, HoldsInv
  <2>4. QueueInv'
    <3>1. \A k \in 1 .. Len(results') : results'[k].buf # 0 => results'[k].buf # r.buf
      BY <1>6
    <3> QED BY <1>2, <1>7, <2>1, <3>1 DEF QueueInv
  <2> QED BY <2>2, <2>3, <2>4 DEF BufferInv
<1>9. CASE ~Holding' /\ pc' # "done" /\ (UNCHANGED refs \/ refs' = Release(r.buf))
  <2>1. /\ Len(refs') = Len(refs)
        /\ \A i \in 1 .. Len(refs) : \/ refs'[i] = refs[i]
                                     \/ r.buf # 0 /\ i = r.buf /\ refs'[i] = refs[i] - 1
    <3>1. CASE UNCHANGED refs
      BY <3>1
    <3>2. CASE refs' = Release(r.buf)
      <4>1. SharedType
        BY DEF TypeInv
      <4> QED BY <3>2, <4>1, ReleaseFacts
    <3> QED BY <1>9, <3>1, <3>2
  <2>2. \A i \in 1 .. Len(refs) : /\ refs'[i] = refs[i] \/ (refs[i] = 1 /\ refs'[i] = 0)
                                  /\ i # r.buf => refs'[i] = refs[i]
    BY <1>6, <2>1
  <2>3. CallsInv'
    BY <1>1, <1>2, <2>1, <2>2 DEF BufferInv, CallsInv
  <2>4. HoldsInv'
    <3>1. current # 0 => current \in 1 .. Len(refs)
      BY <1>1 DEF BufferInv, HoldsInv
    <3> QED BY <1>2, <1>6, <1>9, <2>1, <2>2, <3>1 DEF BufferInv, HoldsInv
  <2>5. QueueInv'
    <3>1. \A k \in 1 .. Len(results') : results'[k].buf # 0 =>
            results'[k].buf \in 1 .. Len(refs) /\ results'[k].buf # r.buf
      BY <1>1, <1>6, <1>7
    <3>2. \A k \in 1 .. Len(results') : results'[k].buf # 0 =>
            refs'[results'[k].buf] = 1 /\ results'[k].buf # current'
      BY <1>2, <1>7, <2>2, <3>1
    <3> QED BY <1>7, <1>9, <2>1, <3>2 DEF QueueInv
  <2> QED BY <2>3, <2>4, <2>5 DEF BufferInv
<1>10. CASE TakeFailure
  BY <1>9, <1>10 DEF TakeFailure, Holding
<1>11. CASE TakeSuccess /\ ~TakeGood(r)
  <2>1. TakeCorruptAgain(r) \/ TakeCorrupt(r) \/ StreamThrows(r) \/ WrapThrows(r)
    BY <1>11 DEF TakeSuccess, r
  <2> QED BY <1>9, <2>1 DEF TakeCorruptAgain, TakeCorrupt, StreamThrows, WrapThrows,
                           EnterFetch, Holding
<1> QED BY <1>8, <1>10, <1>11

(* How many results of the queue hold a buffer.                            *)
LEMMA QueuedFacts ==
  ASSUME SharedType, QueueInv, NEW i \in 1 .. Len(refs)
  PROVE  /\ Queued(i) \in {0, 1}
         /\ Queued(i) = 1 <=> \E k \in 1 .. Len(results) : results[k].buf = i
<1> DEFINE Q == {k \in 1 .. Len(results) : results[k].ok /\ results[k].buf = i}
<1>1. Len(results) \in Nat /\ Len(refs) \in Nat
  BY DEF SharedType
<1>2. \A k \in 1 .. Len(results) : results[k].buf = i => results[k].ok
  BY <1>1 DEF QueueInv
<1>3. \A j, k \in 1 .. Len(results) : results[j].buf = i /\ results[k].buf = i => j = k
  BY <1>1 DEF QueueInv
<1>4. CASE \E k \in 1 .. Len(results) : results[k].buf = i
  <2>1. PICK k \in 1 .. Len(results) : results[k].buf = i
    BY <1>4
  <2>2. Q = {k}
    BY <1>2, <1>3, <2>1
  <2>3. Cardinality(Q) = 1
    BY <2>2, FS_Singleton
  <2> QED BY <1>4, <2>3 DEF Queued
<1>5. CASE ~\E k \in 1 .. Len(results) : results[k].buf = i
  <2>1. Q = {}
    BY <1>5
  <2>2. Cardinality(Q) = 0
    BY <2>1, FS_EmptySet
  <2> QED BY <1>5, <2>2 DEF Queued
<1> QED BY <1>4, <1>5

(* What cleanup leaves of a reference.                                     *)
LEMMA ReleaseAllFacts ==
  ASSUME TypeInv, BufferInv, ReleaseAll, NEW i \in 1 .. Len(refs)
  PROVE  /\ Len(refs') = Len(refs)
         /\ refs'[i] \in {0, 1} /\ (refs[i] = 0 => refs'[i] = 0)
         /\ i = current => refs'[i] = 0
         /\ (\E k \in 1 .. Len(results) : results[k].buf = i) => refs'[i] = 0
<1>1. /\ results \in Seq(Results) /\ Len(results) \in Nat
      /\ \A k \in 1 .. Len(results) : results[k].buf \in Nat
      /\ current \in Nat /\ refs \in Seq(Int) /\ Len(refs) \in Nat
  BY BufferTypes
<1>2. /\ refs' = [j \in 1 .. Len(refs) |-> Release(current)[j] - Queued(j)]
      /\ pc = "release"
  BY DEF ReleaseAll
<1>3. SharedType /\ QueueInv /\ HoldsInv /\ refs[i] \in {0, 1}
  BY DEF TypeInv, BufferInv, CallsInv
<1>4. /\ Queued(i) \in {0, 1}
      /\ Queued(i) = 1 <=> \E k \in 1 .. Len(results) : results[k].buf = i
  BY <1>3, QueuedFacts
<1>5. Release(current)[i] = IF current # 0 /\ i = current THEN refs[i] - 1 ELSE refs[i]
  BY <1>3, ReleaseFacts
<1>6. Queued(i) = 1 => refs[i] = 1 /\ i # current
  BY <1>1, <1>2, <1>3, <1>4 DEF QueueInv
<1>7. i = current => refs[i] = 1 /\ i # 0
  BY <1>1, <1>2, <1>3 DEF HoldsInv
<1>8. Len(refs') = Len(refs) /\ refs'[i] = Release(current)[i] - Queued(i)
  BY <1>1, <1>2
<1> QED BY <1>3, <1>4, <1>5, <1>6, <1>7, <1>8

(* cleanup, when it releases what is left.                                 *)
LEMMA BufferRelease == ASSUME TypeInv, BufferInv, TypeInv', ReleaseAll PROVE BufferInv'
<1> USE DEF taskQueues, loops, flight, caller, shared
<1>1. /\ results \in Seq(Results) /\ Len(results) \in Nat
      /\ \A k \in 1 .. Len(results) : results[k].buf \in Nat
      /\ current \in Nat /\ refs \in Seq(Int) /\ Len(refs) \in Nat
      /\ \A c \in calls : c \in Calls /\ c.num \in 1 .. Len(refs)
  BY BufferTypes
<1>2. /\ refs' = [i \in 1 .. Len(refs) |-> Release(current)[i] - Queued(i)]
      /\ current' = 0 /\ pc' = "done" /\ ~Holding' /\ UNCHANGED <<results, calls>>
  BY DEF ReleaseAll, Holding
<1>3. Len(refs') = Len(refs)
  BY <1>1, <1>2
<1>4. \A i \in 1 .. Len(refs) :
        /\ refs'[i] \in {0, 1} /\ (refs[i] = 0 => refs'[i] = 0)
        /\ (\E k \in 1 .. Len(results) : results[k].buf = i) => refs'[i] = 0
  BY ReleaseAllFacts
<1>5. CallsInv'
  BY <1>1, <1>2, <1>3, <1>4 DEF BufferInv, CallsInv
<1>6. HoldsInv'
  BY <1>1, <1>2, <1>3 DEF HoldsInv
<1>7. QueueInv'
  <2>1. \A k \in 1 .. Len(results) : results[k].buf # 0 => refs'[results[k].buf] = 0
    <3>1. \A k \in 1 .. Len(results) : results[k].buf # 0 => results[k].buf \in 1 .. Len(refs)
      BY <1>1 DEF BufferInv, QueueInv
    <3> QED BY <1>4, <3>1
  <2>2. /\ \A k \in 1 .. Len(results) : /\ results[k].buf <= Len(refs)
                                        /\ ~results[k].ok => results[k].buf = 0
        /\ \A j, k \in 1 .. Len(results) :
             results[j].buf = results[k].buf /\ results[j].buf # 0 => j = k
    BY DEF BufferInv, QueueInv
  <2> QED BY <1>2, <1>3, <2>1, <2>2 DEF QueueInv
<1> QED BY <1>5, <1>6, <1>7 DEF BufferInv

(* The other steps of next, of the caller and of cleanup.                  *)
LEMMA BufferNext ==
  ASSUME TypeInv, BufferInv, TypeInv',
         CallNext \/ Deliver \/ CloseStream \/ CompleteTask \/ MarkZombie \/ Finished
  PROVE  BufferInv'
<1> USE DEF taskQueues, loops, flight, caller, shared
<1>1. /\ results \in Seq(Results) /\ Len(results) \in Nat
      /\ \A k \in 1 .. Len(results) : results[k].buf \in Nat
      /\ Holding => taken.buf \in Nat
      /\ current \in Nat /\ refs \in Seq(Int) /\ Len(refs) \in Nat
      /\ \A c \in calls : c \in Calls /\ c.num \in 1 .. Len(refs)
  BY BufferTypes
<1>2. CASE CallNext \/ CompleteTask \/ MarkZombie \/ Finished
  <2>1. /\ UNCHANGED <<current, taken, results, refs, calls>>
        /\ Holding' => Holding
        /\ pc' = "done" <=> pc = "done"
    BY <1>2 DEF CallNext, CompleteTask, MarkZombie, Finished, Holding, vars
  <2>2. HoldsInv' /\ QueueInv'
    <3>1. Len(refs) <= Len(refs')
      BY <1>1, <2>1
    <3> QED BY <2>1, <3>1, BufferFrame
  <2>3. CallsInv'
    BY <2>1 DEF BufferInv, CallsInv
  <2> QED BY <2>2, <2>3 DEF BufferInv
<1>3. CASE Deliver
  <2>1. /\ pc = "deliver" /\ Holding /\ pc' = "caller" /\ ~Holding' /\ current' = taken.buf
        /\ UNCHANGED <<results, refs, calls>>
    BY <1>3 DEF Deliver, Holding
  <2>2. CallsInv'
    BY <2>1 DEF BufferInv, CallsInv
  <2>3. HoldsInv'
    BY <2>1 DEF BufferInv, HoldsInv
  <2>4. QueueInv'
    BY <2>1 DEF BufferInv, QueueInv
  <2> QED BY <2>2, <2>3, <2>4 DEF BufferInv
<1>4. CASE CloseStream
  <2>1. /\ pc = "caller" /\ pc' = "caller" /\ ~Holding' /\ current' = 0
        /\ refs' = Release(current) /\ UNCHANGED <<results, calls>>
    BY <1>4 DEF CloseStream, Holding
  <2>2. /\ Len(refs') = Len(refs)
        /\ \A i \in 1 .. Len(refs) :
             refs'[i] = IF current # 0 /\ i = current THEN refs[i] - 1 ELSE refs[i]
    BY <2>1, ReleaseFacts DEF TypeInv
  <2>3. current # 0 => refs[current] = 1
    BY <2>1 DEF BufferInv, HoldsInv
  <2>4. CallsInv'
    <3>1. \A i \in 1 .. Len(refs) : refs[i] \in {0, 1}
      BY DEF BufferInv, CallsInv
    <3>2. \A i \in 1 .. Len(refs) : refs'[i] \in {0, 1} /\ (refs[i] = 0 => refs'[i] = 0)
      BY <2>2, <2>3, <3>1
    <3> QED BY <1>1, <2>1, <2>2, <3>2 DEF BufferInv, CallsInv
  <2>5. HoldsInv'
    BY <1>1, <2>1, <2>2 DEF HoldsInv
  <2>6. QueueInv'
    <3>1. \A k \in 1 .. Len(results) : results[k].buf # 0 =>
            /\ refs'[results[k].buf] = 1 /\ results[k].buf # 0
      BY <1>1, <2>1, <2>2 DEF BufferInv, QueueInv
    <3>2. /\ \A k \in 1 .. Len(results) : /\ results[k].buf <= Len(refs)
                                          /\ ~results[k].ok => results[k].buf = 0
          /\ \A j, k \in 1 .. Len(results) :
               results[j].buf = results[k].buf /\ results[j].buf # 0 => j = k
      BY DEF BufferInv, QueueInv
    <3> QED BY <2>1, <2>2, <3>1, <3>2 DEF QueueInv
  <2> QED BY <2>4, <2>5, <2>6 DEF BufferInv
<1> QED BY <1>2, <1>3, <1>4

(* The buffers are in order at every moment, whatever fails.               *)
LEMMA BufferStep ==
  ASSUME TypeInv, BufferInv, TypeInv', [Next]_vars
  PROVE  BufferInv'
<1>1. CASE UNCHANGED vars
  BY <1>1 DEF vars, taskQueues, loops, flight, caller, shared, BufferInv, CallsInv, HoldsInv,
              QueueInv, Holding
<1>2. CASE Next
  BY <1>2, BufferFetch, BufferLocal, BufferCallback, BufferTake, BufferRelease, BufferNext
     DEF Next, TaskStep
<1> QED BY <1>1, <1>2

(* Every reachable state keeps account of its buffers.                     *)
LEMMA BufferCorrect == Spec => []BufferInv
<1>1. Init => BufferInv
  BY DEF Init, BufferInv, CallsInv, HoldsInv, QueueInv, Holding
<1> QED BY <1>1, TypeCorrect, BufferStep, PTL DEF Spec

(* Whatever fails, no buffer is released twice or used before it arrived,  *)
(* and cleanup leaves no reference on a buffer of the queue (releaseBuffer *)
(* of the results still queued, release of currentResult).                 *)
THEOREM ReleasedOnceHolds == Spec => []ReleasedOnce
<1>1. BufferInv => ReleasedOnce
  BY DEF BufferInv, CallsInv, QueueInv, ReleasedOnce
<1> QED BY <1>1, BufferCorrect, PTL

--------------------------------------------------------------------------------
(* The streams of the caller.                                              *)

(* A caller that closes before it goes on has at most the last stream      *)
(* open, and that one reads the current buffer.                            *)
OpenInv ==
  /\ open \subseteq {Len(delivered)}
  /\ pc \notin {"caller", "cleanup", "release", "done"} => open = {}
  /\ pc # "done" => \A s \in open : delivered[s].buf = current
  /\ open = {} => current = 0

(* No reference is lost on the way. *)
Held(i) ==
  \/ i = current
  \/ Holding /\ i = taken.buf
  \/ \E k \in 1 .. Len(results) : i = results[k].buf
HeldInv == \A i \in 1 .. Len(refs) : refs[i] = 1 => pc # "done" /\ Held(i)

(* A step that leaves the streams alone.                                   *)
LEMMA OpenFrame ==
  ASSUME OpenInv, UNCHANGED <<current, delivered, open>>,
         pc' \notin {"caller", "cleanup", "release", "done"} =>
           pc \notin {"caller", "cleanup", "release", "done"} \/ open = {},
         pc' # "done" => pc # "done"
  PROVE  OpenInv'
BY DEF OpenInv

(* The caller has at most the current buffer open.                         *)
LEMMA OpenStep == ASSUME ~KeepsOpen, TypeInv, OpenInv, [Next]_vars PROVE OpenInv'
<1> USE DEF taskQueues, loops, flight, caller, shared
<1>1. CASE FetchStep
  <2>1. CASE StorageThrows
    BY <2>1, OpenFrame DEF StorageThrows, Sending
  <2>2. CASE ~StorageThrows
    <3>1. UNCHANGED <<current, delivered, open>> /\ pc \in {"deferred", "regular"}
      BY <1>1, <2>2 DEF FetchStep, VisitDeferred, SendDeferred, LeaveDeferred, EndDeferred,
                        DeferRegular, SendRegular, EndFetch
    <3> QED BY <3>1, OpenFrame
  <2> QED BY <2>1, <2>2
<1>2. CASE LocalStep
  <2>1. UNCHANGED <<current, delivered, open>> /\ pc = "local"
    BY <1>2 DEF LocalStep, FetchLocal, LocalFails, EndLocal
  <2> QED BY <2>1, OpenFrame
<1>3. CASE Callback
  <2>1. UNCHANGED <<current, delivered, open, pc>>
    BY <1>3 DEF Callback
  <2> QED BY <2>1, OpenFrame
<1>4. CASE CallNext
  <2>1. UNCHANGED <<current, delivered, open>> /\ open = {} /\ pc = "caller"
    BY <1>4 DEF CallNext
  <2> QED BY <2>1, OpenFrame
<1>5. CASE TakeFailure \/ TakeSuccess
  <2>1. UNCHANGED <<current, delivered, open>> /\ pc = "take"
    BY <1>5 DEF TakeFailure, TakeSuccess
  <2> QED BY <2>1, OpenFrame
<1>6. CASE Deliver
  <2> DEFINE d == [id |-> taken.id, buf |-> taken.buf]
  <2>1. delivered \in Seq([id : ToFetch, buf : Nat]) /\ taken \in Results
    BY <1>6 DEF TypeInv, HandedType, TaskType, Deliver, Holding
  <2>2. d \in [id : ToFetch, buf : Nat] /\ d.buf = taken.buf
    BY <2>1 DEF Results
  <2>3. /\ open = {} /\ delivered' = Append(delivered, d) /\ current' = taken.buf
        /\ pc' = "caller" /\ open' = {Len(delivered) + 1}
    BY <1>6 DEF Deliver, OpenInv
  <2> HIDE DEF d
  <2>4. Len(delivered') = Len(delivered) + 1 /\ delivered'[Len(delivered) + 1] = d
    BY <2>1, <2>2, <2>3, AppendFacts
  <2> QED BY <2>2, <2>3, <2>4 DEF OpenInv
<1>7. CASE CloseStream
  <2>1. open' = {} /\ current' = 0 /\ pc' = "caller"
    BY <1>7 DEF CloseStream, OpenInv
  <2> QED BY <2>1 DEF OpenInv
<1>8. CASE ReleaseAll
  <2>1. UNCHANGED <<delivered, open>> /\ current' = 0 /\ pc' = "done"
    BY <1>8 DEF ReleaseAll
  <2> QED BY <2>1 DEF OpenInv
<1>9. CASE MarkZombie \/ CompleteTask
  <2>1. UNCHANGED <<current, delivered, open>> /\ pc' \in {"cleanup", "release"}
        /\ pc \in {"cleanup", "caller", "take"}
    BY <1>9 DEF MarkZombie, CompleteTask
  <2> QED BY <2>1, OpenFrame
<1>10. CASE UNCHANGED vars
  <2>1. UNCHANGED <<current, delivered, open, pc>>
    BY <1>10 DEF vars
  <2> QED BY <2>1, OpenFrame
<1> QED BY <1>1, <1>2, <1>3, <1>4, <1>5, <1>6, <1>7, <1>8, <1>9, <1>10
        DEF Next, TaskStep, Finished

(* Every reachable state has at most one stream open.                      *)
LEMMA OpenCorrect == ASSUME ~KeepsOpen PROVE Spec => []OpenInv
<1>1. Init => OpenInv
  BY DEF Init, OpenInv
<1> QED BY <1>1, TypeCorrect, OpenStep, PTL DEF Spec

(* A caller that closes a stream before it asks for the next block never   *)
(* reads from a buffer that was released (BufferReleasingInputStream reads *)
(* the current buffer of the iterator).                                    *)
THEOREM OpenBuffersHeldHolds == ASSUME ~KeepsOpen PROVE Spec => []OpenBuffersHeld
<1>1. TypeInv /\ BufferInv /\ OpenInv => OpenBuffersHeld
  BY DEF BufferInv, HoldsInv, OpenInv, OpenBuffersHeld
<1> QED BY <1>1, TypeCorrect, BufferCorrect, OpenCorrect, PTL

--------------------------------------------------------------------------------
(* A step that leaves what holds buffers, and the old buffers, alone.      *)
LEMMA HeldFrame ==
  ASSUME HeldInv, UNCHANGED <<current, taken, results>>,
         Holding' <=> Holding, pc' = "done" => pc = "done",
         \A i \in 1 .. Len(refs') : refs'[i] = 1 => i \in 1 .. Len(refs) /\ refs[i] = 1
  PROVE  HeldInv'
<1>1. \A i \in 1 .. Len(refs) : Held(i) => Held(i)'
  BY DEF Held
<1> QED BY <1>1 DEF HeldInv

(* A result that joins the queue.                                          *)
LEMMA HeldQueue ==
  ASSUME HeldInv, results \in Seq(Results), NEW r \in Results, results' = Append(results, r),
         UNCHANGED <<pc, then, current, taken>>,
         \A i \in 1 .. Len(refs') : refs'[i] = 1 =>
           \/ i \in 1 .. Len(refs) /\ refs[i] = 1
           \/ pc # "done" /\ i = r.buf
  PROVE  HeldInv'
<1>1. /\ Len(results) \in Nat /\ Len(results') = Len(results) + 1
      /\ \A k \in 1 .. Len(results) : k \in 1 .. Len(results) + 1 /\ results'[k] = results[k]
      /\ results'[Len(results) + 1] = r
      /\ Len(results) + 1 \in 1 .. Len(results')
  BY AppendFacts
<1>2. Holding' <=> Holding
  BY DEF Holding
<1>3. \A i \in 1 .. Len(refs) : Held(i) => Held(i)'
  BY <1>1, <1>2 DEF Held
<1>4. \A i \in 1 .. Len(refs') : i = r.buf => Held(i)'
  BY <1>1 DEF Held
<1> QED BY <1>3, <1>4 DEF HeldInv

(* fetchUpToMaxBytes holds no buffer and lets go of none.                  *)
LEMMA HeldFetch ==
  ASSUME "storage" \notin Faults, TypeInv, HeldInv, FetchStep
  PROVE  HeldInv'
<1> USE DEF taskQueues, loops, flight, caller, shared
<1>1. CASE VisitDeferred \/ LeaveDeferred \/ EndDeferred \/ EndFetch \/ DeferRegular
  <2>1. UNCHANGED <<current, taken, shared>>
    BY <1>1 DEF VisitDeferred, LeaveDeferred, EndDeferred, EndFetch, DeferRegular
  <2>2. (Holding' <=> Holding) /\ pc' # "done"
    BY <1>1 DEF VisitDeferred, LeaveDeferred, EndDeferred, EndFetch, DeferRegular, Holding,
                TypeInv, TaskType
  <2> QED BY <2>1, <2>2, HeldFrame
<1>2. CASE SendDeferred \/ SendRegular
  <2>1. PICK r \in Requests : Send(r)
    BY <1>2, SentRequest DEF TypeInv
  <2>2. PICK K : \E n \in Nat : Added(K, n) /\ calls' = calls \cup K /\ refs' = refs \o Zeros(n)
    BY <2>1, SendAdds DEF TypeInv
  <2>3. PICK n \in Nat : refs' = refs \o Zeros(n)
    BY <2>2
  <2>4. UNCHANGED <<pc, then, current, taken, results>>
    BY <1>2 DEF SendDeferred, SendRegular
  <2>5. \A i \in 1 .. Len(refs') : refs'[i] = 1 => i \in 1 .. Len(refs) /\ refs[i] = 1
    <3>1. /\ \A i \in 1 .. Len(refs) : refs'[i] = refs[i]
          /\ \A i \in Len(refs) + 1 .. Len(refs) + n : refs'[i] = 0
          /\ \A i \in 1 .. Len(refs') :
               i \in 1 .. Len(refs) \/ i \in Len(refs) + 1 .. Len(refs) + n
      BY <2>3, MoreRefs DEF TypeInv
    <3> QED BY <3>1
  <2>6. Holding' <=> Holding
    BY <2>4 DEF Holding
  <2> QED BY <2>4, <2>5, <2>6, HeldFrame
<1> QED BY <1>1, <1>2 DEF FetchStep, StorageThrows

(* The results of fetchLocalBlocks and of the callbacks hold what they     *)
(* bring.                                                                  *)
LEMMA HeldResults ==
  ASSUME TypeInv, HeldInv, LocalStep \/ Callback
  PROVE  HeldInv'
<1> USE DEF taskQueues, loops, flight, caller, shared
<1>0. /\ results \in Seq(Results) /\ refs \in Seq(Int) /\ Len(refs) \in Nat
      /\ \A c \in calls : c \in Calls /\ c.num \in 1 .. Len(refs)
  BY BufferTypes
<1>1. CASE FetchLocal
  <2> DEFINE b == Head(localTodo)
             r == Success(b.id, Local, 0, Len(refs) + 1, 0, FALSE, "local")
  <2>1. b \in Wanted
    BY <1>1 DEF FetchLocal, TypeInv, QueueType
  <2>2. r \in Results /\ r.buf = Len(refs) + 1
    <3>1. Len(refs) + 1 \in Nat
      BY <1>0
    <3> QED BY <2>1, <3>1, ResultTypes DEF Success
  <2>3. results' = Append(results, r) /\ refs' = Append(refs, 1)
        /\ UNCHANGED <<pc, then, current, taken>> /\ pc = "local"
    BY <1>1 DEF FetchLocal, Answered
  <2> HIDE DEF r
  <2>4. /\ Len(refs') = Len(refs) + 1
        /\ \A i \in 1 .. Len(refs) : refs'[i] = refs[i]
        /\ \A i \in 1 .. Len(refs') : i \in 1 .. Len(refs) \/ i = Len(refs) + 1
    BY <1>0, <2>3, AppendFacts
  <2> QED BY <1>0, <2>2, <2>3, <2>4, HeldQueue
<1>2. CASE LocalFails
  <2>1. Head(localTodo) \in Wanted
    BY <1>2 DEF LocalFails, TypeInv, QueueType
  <2>2. PICK r \in Results : results' = Append(results, r)
    BY <1>2, <2>1, ResultTypes DEF LocalFails
  <2>3. UNCHANGED <<pc, then, current, taken, refs>>
    BY <1>2 DEF LocalFails
  <2> QED BY <1>0, <2>2, <2>3, HeldQueue
<1>3. CASE EndLocal
  <2>1. UNCHANGED <<current, taken, results, refs>> /\ pc = "local" /\ pc' = "caller"
    BY <1>3 DEF EndLocal
  <2> QED BY <2>1, HeldFrame DEF Holding
<1>4. CASE Callback
  <2>1. PICK c \in calls :
          /\ NetworkSuccess(c) \/ StorageSuccess(c) \/ FetchFails(c)
          /\ UNCHANGED <<pc, then, current, taken>>
    BY <1>4 DEF Callback
  <2>2. c \in Calls /\ c.num \in 1 .. Len(refs)
    BY <1>0
  <2>3. CASE NetworkSuccess(c) /\ isZombie
    <3>1. UNCHANGED <<results, refs>> /\ (Holding' <=> Holding)
      BY <2>1, <2>3 DEF NetworkSuccess, Holding
    <3> QED BY <2>1, <3>1, HeldFrame
  <2>4. CASE NetworkSuccess(c) /\ ~isZombie
    <3> DEFINE done == (remaining[c.req] \ {c.id}) = {}
               r == Success(c.id, c.addr, c.size, c.num, c.req, done, "network")
    <3>1. r \in Results /\ r.buf = c.num
      BY <2>2, ResultTypes DEF Success
    <3>2. pc # "done"
      BY <2>4 DEF TypeInv, TaskType
    <3>3. results' = Append(results, r) /\ refs' = [refs EXCEPT ![c.num] = @ + 1]
      BY <2>4 DEF NetworkSuccess
    <3> HIDE DEF r
    <3>4. /\ Len(refs') = Len(refs)
          /\ \A i \in 1 .. Len(refs) : i # c.num => refs'[i] = refs[i]
      BY <1>0, <2>2, <3>3
    <3> QED BY <1>0, <2>1, <3>1, <3>2, <3>3, <3>4, HeldQueue
  <2>5. CASE StorageSuccess(c) \/ FetchFails(c)
    <3>1. PICK r \in Results : results' = Append(results, r)
      BY <2>2, <2>5, ResultTypes DEF StorageSuccess, FetchFails
    <3>2. UNCHANGED refs
      BY <2>5 DEF StorageSuccess, FetchFails
    <3> QED BY <1>0, <2>1, <3>1, <3>2, HeldQueue
  <2> QED BY <2>1, <2>3, <2>4, <2>5
<1> QED BY <1>1, <1>2, <1>3, <1>4 DEF LocalStep

(* next takes a buffer from the queue to hand it out, or releases it.      *)
LEMMA HeldTake ==
  ASSUME "wrap" \notin Faults, TypeInv, TypeInv', BufferInv, HeldInv, TakeSuccess \/ TakeFailure
  PROVE  HeldInv'
<1> DEFINE r == Head(results)
<1>1. /\ results \in Seq(Results) /\ Len(results) \in Nat /\ r \in Results /\ r.buf \in Nat
      /\ refs \in Seq(Int) /\ Len(refs) \in Nat /\ current \in Nat
      /\ results' = Tail(results) /\ results # <<>> /\ pc = "take" /\ ~Holding
      /\ UNCHANGED current
  <2>1. results # <<>> /\ results' = Tail(results) /\ pc = "take" /\ ~Holding /\ UNCHANGED current
    BY DEF TakeSuccess, TakeFailure, Holding
  <2>2. results \in Seq(Results) /\ refs \in Seq(Int) /\ Len(refs) \in Nat /\ current \in Nat
    BY BufferTypes
  <2>3. r \in Results
    BY <2>1, <2>2
  <2> QED BY <2>1, <2>2, <2>3 DEF Results
<1>2. ASSUME NEW i \in 1 .. Len(refs), refs[i] = 1, i # r.buf
      PROVE  Held(i)'
  <2>1. CASE i = current
    BY <1>1, <2>1 DEF Held
  <2>2. CASE i # current
    <3>1. PICK k \in 1 .. Len(results) : i = results[k].buf
      BY <1>1, <1>2, <2>2 DEF HeldInv, Held
    <3>2. k # 1 /\ k \in Nat
      BY <1>1, <1>2, <3>1
    <3>3. k - 1 \in 1 .. Len(results') /\ results'[k - 1] = results[k]
      <4>1. Len(results') = Len(results) - 1 /\ k - 1 \in 1 .. Len(results')
        BY <1>1, <3>1, <3>2
      <4>2. results'[k - 1] = results[(k - 1) + 1]
        BY <1>1, <4>1, TailFacts
      <4> QED BY <3>2, <4>1, <4>2
    <3> QED BY <3>1, <3>3 DEF Held
  <2> QED BY <2>1, <2>2
<1> HIDE DEF r
<1>3. /\ r.buf <= Len(refs) /\ (~r.ok => r.buf = 0)
      /\ r.buf # 0 => refs[r.buf] = 1 /\ r.buf \in 1 .. Len(refs)
  <2>1. 1 \in 1 .. Len(results) /\ r = results[1]
    BY <1>1, TailFacts DEF r
  <2>2. /\ r.buf <= Len(refs) /\ (~r.ok => r.buf = 0)
        /\ r.buf # 0 => refs[r.buf] = 1
    BY <1>1, <2>1 DEF BufferInv, QueueInv
  <2> QED BY <1>1, <2>2
<1>4. CASE TakeSuccess /\ TakeGood(r)
  <2>1. /\ taken' = r /\ Holding' /\ pc' = "deferred" /\ UNCHANGED refs
    BY <1>4 DEF TakeGood, EnterFetch, Holding
  <2>2. \A i \in 1 .. Len(refs) : i = r.buf => Held(i)'
    BY <2>1 DEF Held
  <2> QED BY <1>2, <2>1, <2>2 DEF HeldInv
<1>5. CASE TakeSuccess /\ ~TakeGood(r)
  <2>1. refs' = Release(r.buf) /\ pc' # "done"
    BY <1>5 DEF TakeSuccess, r, TakeCorruptAgain, TakeCorrupt, StreamThrows, WrapThrows, EnterFetch
  <2>2. /\ Len(refs') = Len(refs)
        /\ \A i \in 1 .. Len(refs) :
             refs'[i] = IF r.buf # 0 /\ i = r.buf THEN refs[i] - 1 ELSE refs[i]
    BY <2>1, ReleaseFacts DEF TypeInv
  <2>3. \A i \in 1 .. Len(refs') : refs'[i] = 1 => i \in 1 .. Len(refs) /\ refs[i] = 1 /\ i # r.buf
    BY <1>3, <2>2
  <2> QED BY <1>2, <2>1, <2>3 DEF HeldInv
<1>6. CASE TakeFailure
  <2>1. r.buf = 0 /\ UNCHANGED refs /\ pc' = "cleanup"
    BY <1>3, <1>6 DEF TakeFailure, r
  <2> QED BY <1>1, <1>2, <2>1 DEF HeldInv
<1> QED BY <1>4, <1>5, <1>6

(* The other steps of next, of the caller and of cleanup.                  *)
LEMMA HeldNext ==
  ASSUME ~KeepsOpen, TypeInv, TypeInv', BufferInv, OpenInv, HeldInv,
         \/ CallNext \/ Deliver \/ CloseStream \/ CompleteTask \/ MarkZombie \/ ReleaseAll
         \/ Finished
  PROVE  HeldInv'
<1> USE DEF taskQueues, loops, flight, caller, shared
<1>1. Len(refs) \in Nat /\ current \in Nat
  BY BufferTypes
<1>2. CASE CallNext \/ CompleteTask \/ MarkZombie \/ Finished
  <2>1. /\ UNCHANGED <<current, taken, results, refs>>
        /\ Holding' <=> Holding
        /\ pc' = "done" => pc = "done"
    BY <1>2 DEF CallNext, CompleteTask, MarkZombie, Finished, Holding, vars
  <2> QED BY <2>1, HeldFrame
<1>3. CASE Deliver
  <2>1. /\ pc = "deliver" /\ Holding /\ pc' = "caller" /\ ~Holding' /\ current' = taken.buf
        /\ UNCHANGED <<results, refs>>
    BY <1>3 DEF Deliver, Holding
  <2>2. current = 0
    BY <2>1 DEF OpenInv
  <2>3. \A i \in 1 .. Len(refs) : Held(i) => Held(i)'
    BY <1>1, <2>1, <2>2 DEF Held
  <2> QED BY <2>1, <2>3 DEF HeldInv
<1>4. CASE CloseStream
  <2>1. /\ pc = "caller" /\ pc' = "caller" /\ ~Holding /\ ~Holding' /\ current' = 0
        /\ refs' = Release(current) /\ UNCHANGED <<results, taken>>
    BY <1>4 DEF CloseStream, Holding
  <2>2. /\ Len(refs') = Len(refs)
        /\ \A i \in 1 .. Len(refs) :
             refs'[i] = IF current # 0 /\ i = current THEN refs[i] - 1 ELSE refs[i]
    BY <2>1, ReleaseFacts DEF TypeInv
  <2>3. current # 0 => refs[current] = 1
    BY <2>1 DEF BufferInv, HoldsInv
  <2>4. \A i \in 1 .. Len(refs') :
          refs'[i] = 1 => i \in 1 .. Len(refs) /\ refs[i] = 1 /\ i # current
    BY <1>1, <2>2, <2>3
  <2>5. \A i \in 1 .. Len(refs) : Held(i) /\ i # current => Held(i)'
    BY <2>1 DEF Held
  <2> QED BY <2>1, <2>4, <2>5 DEF HeldInv
<1>5. CASE ReleaseAll
  <2>1. pc = "release" /\ ~Holding
    BY <1>5 DEF ReleaseAll, Holding
  <2>2. Len(refs') = Len(refs)
    BY <1>5, <1>1 DEF ReleaseAll
  <2>3. ASSUME NEW i \in 1 .. Len(refs) PROVE refs'[i] # 1
    <3>1. /\ refs'[i] \in {0, 1} /\ (refs[i] = 0 => refs'[i] = 0)
          /\ i = current => refs'[i] = 0
          /\ (\E k \in 1 .. Len(results) : results[k].buf = i) => refs'[i] = 0
      BY <1>5, ReleaseAllFacts
    <3>2. refs[i] \in {0, 1}
      BY DEF BufferInv, CallsInv
    <3>3. refs[i] = 1 => Held(i)
      BY DEF HeldInv
    <3> QED BY <2>1, <3>1, <3>2, <3>3 DEF Held
  <2> QED BY <2>2, <2>3 DEF HeldInv
<1> QED BY <1>2, <1>3, <1>4, <1>5

(* Every reference has its holder, unless a wrapper or the storage throws. *)
LEMMA HeldStep ==
  ASSUME ~KeepsOpen, "wrap" \notin Faults, "storage" \notin Faults,
         TypeInv, TypeInv', BufferInv, OpenInv, HeldInv, [Next]_vars
  PROVE  HeldInv'
<1>1. CASE UNCHANGED vars
  BY <1>1 DEF vars, taskQueues, loops, flight, caller, shared, HeldInv, Held, Holding
<1>2. CASE Next
  BY <1>2, HeldFetch, HeldResults, HeldTake, HeldNext DEF Next, TaskStep
<1> QED BY <1>1, <1>2

(* "release all buffers that haven't been deserialized yet", also when     *)
(* callbacks race with cleanup: once it is done the iterator holds no      *)
(* buffer.  Of the calls that may throw, streamWrapper and the calls to    *)
(* the external storage do lose one.                                       *)
THEOREM BuffersReleasedHolds ==
  ASSUME ~KeepsOpen, "wrap" \notin Faults, "storage" \notin Faults
  PROVE  Spec => []BuffersReleased
<1>1. Init => HeldInv
  BY DEF Init, HeldInv
<1>2. Spec => []HeldInv
  BY <1>1, TypeCorrect, BufferCorrect, OpenCorrect, HeldStep, PTL DEF Spec
<1>3. BufferInv /\ HeldInv => BuffersReleased
  BY DEF BufferInv, CallsInv, HeldInv, BuffersReleased
<1> QED BY <1>2, <1>3, BufferCorrect, PTL
================================================================================
