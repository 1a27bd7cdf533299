--------------------------- MODULE ShuffleFlightProofs -------------------------
(***************************************************************************)
(* ShuffleFetch implements BlockFetch, and its counters say what is in     *)
(* flight, for every value of its constants (with "split" not among the    *)
(* faults): first where each block is, then what is out for it.            *)
(***************************************************************************)
EXTENDS ShuffleFetchProofs

(* Where a block is. *)
IdsOf(S)      == {b.id : b \in S}
IdsIn(s)      == {s[i].id : i \in 1 .. Len(s)}
RequestIds(s) == UNION {IdsOf(s[i].blocks) : i \in 1 .. Len(s)}

Places == {"queue", "deferred", "local", "call", "result", "taken", "delivered"}
Ids ==
  [queue     |-> RequestIds(fetchRequests),
   deferred  |-> UNION {RequestIds(deferred[a]) : a \in Addresses},
   local     |-> IdsIn(localTodo),
   call      |-> IdsOf(calls),
   result    |-> IdsIn(results),
   taken     |-> IF Holding THEN {taken.id} ELSE {},
   delivered |-> IdsIn(delivered)]

(* A block is in one place, and there once; next has been called once for  *)
(* each block it returned and for the one it is to return.                 *)
Disjoint(f) == \A p, q \in Places : p # q => f[p] \cap f[q] = {}
Unmixed(s) ==
  \A i, j \in 1 .. Len(s) : i # j => IdsOf(s[i].blocks) \cap IdsOf(s[j].blocks) = {}
Apart ==
  /\ Unmixed(fetchRequests)
  /\ \A a \in Addresses : Unmixed(deferred[a])
  /\ \A a, b \in Addresses : a # b => RequestIds(deferred[a]) \cap RequestIds(deferred[b]) = {}
  /\ DistinctIds(localTodo) /\ DistinctIds(results) /\ DistinctIds(delivered)
  /\ \A c, d \in calls : c.id = d.id => c = d
Processing == Holding \/ pc = "take" \/ (pc \in {"deferred", "regular"} /\ then = "take")
Counted == numProcessed = Len(delivered) + (IF Processing THEN 1 ELSE 0)
BlockInv == Running => Disjoint(Ids) /\ Apart /\ Counted

(* Blocks that move from one place to another.                             *)
LEMMA Moved ==
  ASSUME NEW f, NEW g, Disjoint(f), NEW p \in Places, NEW q \in Places, p # q,
         NEW S, S \subseteq f[p], g[p] \subseteq f[p] \ S, g[q] \subseteq f[q] \cup S,
         \A x \in Places : x # p /\ x # q => g[x] \subseteq f[x]
  PROVE  Disjoint(g)
<1>1. SUFFICES ASSUME NEW x \in Places, NEW y \in Places, x # y, NEW e, e \in g[x], e \in g[y]
               PROVE  FALSE
  BY DEF Disjoint
<1>2. \A z \in Places : z # q => g[z] \subseteq f[z]
  OBVIOUS
<1>3. f[x] \cap f[y] = {}
  BY <1>1 DEF Disjoint
<1>4. CASE x # q /\ y # q
  BY <1>1, <1>2, <1>3, <1>4
<1>5. CASE x = q
  BY <1>1, <1>2, <1>3, <1>5 DEF Disjoint
<1>6. CASE y = q
  BY <1>1, <1>2, <1>3, <1>6 DEF Disjoint
<1> QED BY <1>4, <1>5, <1>6

(* Blocks that stay where they are, or go.                                 *)
LEMMA Stayed ==
  ASSUME NEW f, NEW g, Disjoint(f), \A x \in Places : g[x] \subseteq f[x]
  PROVE  Disjoint(g)
BY DEF Disjoint

(* Sequences with and without an element.                                  *)
LEMMA TailIds ==
  ASSUME NEW T, NEW s \in Seq(T), s # <<>>, DistinctIds(s)
  PROVE  /\ DistinctIds(Tail(s)) /\ Head(s).id \in IdsIn(s)
         /\ IdsIn(Tail(s)) \subseteq IdsIn(s) \ {Head(s).id}
<1>1. /\ Len(s) \in Nat /\ 1 \in 1 .. Len(s) /\ Head(s) = s[1] /\ Tail(s) \in Seq(T)
      /\ \A k \in 1 .. Len(Tail(s)) : /\ k + 1 \in 1 .. Len(s) /\ Tail(s)[k] = s[k + 1]
                                      /\ k + 1 # 1 /\ k \in Nat
  BY TailFacts
<1>2. \A i, j \in 1 .. Len(s) : s[i].id = s[j].id => i = j
  BY DEF DistinctIds
<1>3. ASSUME NEW j \in DOMAIN Tail(s), NEW k \in DOMAIN Tail(s), Tail(s)[j].id = Tail(s)[k].id
      PROVE  j = k
  <2>1. j \in 1 .. Len(Tail(s)) /\ k \in 1 .. Len(Tail(s))
    BY <1>1, <1>3
  <2>2. j + 1 = k + 1
    BY <1>1, <1>2, <1>3, <2>1
  <2> QED BY <1>1, <2>1, <2>2
<1>4. ASSUME NEW k \in 1 .. Len(Tail(s))
      PROVE  Tail(s)[k].id \in IdsIn(s) /\ Tail(s)[k].id # Head(s).id
  BY <1>1, <1>2 DEF IdsIn
<1>5. Head(s).id \in IdsIn(s)
  BY <1>1 DEF IdsIn
<1> QED BY <1>3, <1>4, <1>5 DEF DistinctIds, IdsIn

(* The ids of a queue with an element more.                                *)
LEMMA AppendIds ==
  ASSUME NEW T, NEW s \in Seq(T), NEW e \in T, DistinctIds(s), e.id \notin IdsIn(s)
  PROVE  DistinctIds(Append(s, e)) /\ IdsIn(Append(s, e)) = IdsIn(s) \cup {e.id}
<1>1. /\ Append(s, e) \in Seq(T) /\ Len(s) \in Nat /\ Len(Append(s, e)) = Len(s) + 1
      /\ \A k \in 1 .. Len(s) : k \in 1 .. Len(s) + 1 /\ Append(s, e)[k] = s[k]
      /\ Append(s, e)[Len(s) + 1] = e
      /\ \A k \in 1 .. Len(s) + 1 : k \in 1 .. Len(s) \/ k = Len(s) + 1
      /\ Len(s) + 1 \in 1 .. Len(s) + 1
  BY AppendFacts
<1>2. DOMAIN Append(s, e) = 1 .. Len(s) + 1
  BY <1>1
<1>3. \A i, j \in 1 .. Len(s) : s[i].id = s[j].id => i = j
  BY DEF DistinctIds
<1>4. DistinctIds(Append(s, e))
  BY <1>1, <1>2, <1>3 DEF DistinctIds, IdsIn
<1>5. IdsIn(Append(s, e)) = IdsIn(s) \cup {e.id}
  BY <1>1 DEF IdsIn
<1> QED BY <1>4, <1>5

(* The blocks of a queue of requests without its first.                    *)
LEMMA TailRequests ==
  ASSUME NEW s \in Seq(Requests), s # <<>>, Unmixed(s)
  PROVE  /\ Unmixed(Tail(s)) /\ IdsOf(Head(s).blocks) \subseteq RequestIds(s)
         /\ RequestIds(Tail(s)) \subseteq RequestIds(s) \ IdsOf(Head(s).blocks)
<1>1. /\ Len(s) \in Nat /\ 1 \in 1 .. Len(s) /\ Head(s) = s[1]
      /\ \A k \in 1 .. Len(Tail(s)) : /\ k + 1 \in 1 .. Len(s) /\ Tail(s)[k] = s[k + 1]
                                      /\ k + 1 # 1 /\ k \in Nat
  BY TailFacts
<1>2. ASSUME NEW j \in 1 .. Len(Tail(s)), NEW k \in 1 .. Len(Tail(s)), j # k
      PROVE  IdsOf(Tail(s)[j].blocks) \cap IdsOf(Tail(s)[k].blocks) = {}
  <2>1. j + 1 # k + 1
    BY <1>1, <1>2
  <2> QED BY <1>1, <2>1 DEF Unmixed
<1>3. ASSUME NEW k \in 1 .. Len(Tail(s))
      PROVE  /\ IdsOf(Tail(s)[k].blocks) \subseteq RequestIds(s)
             /\ IdsOf(Tail(s)[k].blocks) \cap IdsOf(Head(s).blocks) = {}
  BY <1>1 DEF Unmixed, RequestIds
<1>4. IdsOf(Head(s).blocks) \subseteq RequestIds(s)
  BY <1>1 DEF RequestIds
<1>5. RequestIds(Tail(s)) \subseteq RequestIds(s) \ IdsOf(Head(s).blocks)
  BY <1>3 DEF RequestIds
<1> QED BY <1>2, <1>4, <1>5 DEF Unmixed

(* The blocks of a queue with a request more.                              *)
LEMMA AppendRequests ==
  ASSUME NEW s \in Seq(Requests), NEW r \in Requests, Unmixed(s),
         IdsOf(r.blocks) \cap RequestIds(s) = {}
  PROVE  /\ Unmixed(Append(s, r))
         /\ RequestIds(Append(s, r)) = RequestIds(s) \cup IdsOf(r.blocks)
<1>1. /\ Len(s) \in Nat /\ Len(Append(s, r)) = Len(s) + 1
      /\ \A k \in 1 .. Len(s) : k \in 1 .. Len(s) + 1 /\ Append(s, r)[k] = s[k]
      /\ Append(s, r)[Len(s) + 1] = r
      /\ \A k \in 1 .. Len(s) + 1 : k \in 1 .. Len(s) \/ k = Len(s) + 1
      /\ Len(s) + 1 \in 1 .. Len(s) + 1
  BY AppendFacts
<1>2. \A k \in 1 .. Len(s) : IdsOf(s[k].blocks) \cap IdsOf(r.blocks) = {}
  BY DEF RequestIds
<1>3. Unmixed(Append(s, r))
  BY <1>1, <1>2 DEF Unmixed
<1>4. RequestIds(Append(s, r)) = RequestIds(s) \cup IdsOf(r.blocks)
  <2>1. \A x : x \in RequestIds(Append(s, r)) <=> x \in RequestIds(s) \cup IdsOf(r.blocks)
    BY <1>1 DEF RequestIds
  <2> QED BY <2>1
<1> QED BY <1>3, <1>4

--------------------------------------------------------------------------------
(* A request goes out.                                                     *)

(* The fetches K of the blocks S. *)
Made(K, kind, req, addr, S) ==
  /\ \A c \in K : /\ c.kind = kind /\ c.req = req /\ c.addr = addr /\ c.num \in Nat
                  /\ c.num > Len(refs) /\ [id |-> c.id, size |-> c.size] \in S
  /\ \A b \in S : \E c \in K : c.id = b.id
  /\ \A c, d \in K : c.id = d.id => c = d
  /\ Sized(K) /\ SizeOf(K) = SizeOf(S) /\ Cardinality(K) = Cardinality(S)

(* NewCalls makes them.                                                    *)
LEMMA NewCallsMade ==
  ASSUME SharedType, NEW kind, NEW n \in Nat, n >= Len(refs), NEW req, NEW addr,
         NEW r \in Requests, NEW S \in SUBSET r.blocks
  PROVE  Made(NewCalls(kind, n, req, addr, S), kind, req, addr, S)
<1> DEFINE C == NewCalls(kind, n, req, addr, S)
<1>1. S \in SUBSET Block /\ IsFiniteSet(S) /\ \A b, c \in S : b.id = c.id => b = c
  BY PartOfRequest
<1>2. /\ \A c \in C :
           /\ c \in [num : n + 1 .. n + Cardinality(S), kind : {kind},
                     req : {req}, addr : {addr}, id : ToFetch, size : Nat]
           /\ [id |-> c.id, size |-> c.size] \in S
      /\ \A b \in S : \E c \in C : c.id = b.id
      /\ \A c, d \in C : c.num = d.num \/ c.id = d.id => c = d
      /\ Sized(C) /\ SizeOf(C) = SizeOf(S)
      /\ Cardinality(C) = Cardinality(S)
  <2> HIDE DEF C
  <2> QED BY <1>1, NewCallsFacts DEF C
<1> HIDE DEF C
<1>3. Len(refs) \in Nat /\ Cardinality(S) \in Nat
  BY PartOfRequest DEF SharedType
<1>4. ASSUME NEW c \in C
      PROVE  c.kind = kind /\ c.req = req /\ c.addr = addr /\ c.num \in Nat /\ c.num > Len(refs)
  <2>1. /\ c.kind = kind /\ c.req = req /\ c.addr = addr
        /\ c.num \in n + 1 .. n + Cardinality(S)
    <3>1. c \in [num : n + 1 .. n + Cardinality(S), kind : {kind}, req : {req}, addr : {addr},
                 id : ToFetch, size : Nat]
      BY <1>2
    <3> QED BY <3>1
  <2> QED BY <1>3, <2>1
<1> QED BY <1>2, <1>4 DEF Made, C

(* Each fetch is of one of the blocks.                                     *)
LEMMA MadeIds ==
  ASSUME NEW K, NEW kind, NEW req, NEW addr, NEW S, Made(K, kind, req, addr, S), NEW c \in K
  PROVE  \E b \in S : b.id = c.id /\ b.size = c.size
<1> DEFINE b == [id |-> c.id, size |-> c.size]
<1>1. b \in S
  BY DEF Made
<1>2. b.id = c.id /\ b.size = c.size
  OBVIOUS
<1> QED BY <1>1, <1>2

(* What Send does when its loop does not throw: each block is asked for    *)
(* once, and the counters follow the blocks the storage has not.           *)
LEMMA SendExactly ==
  ASSUME SharedType, "split" \notin Faults, NEW r \in Requests, Send(r)
  PROVE  \E hits \in Hits(r) : \E K : \E L :
           /\ hits \in SUBSET r.blocks
           /\ Made(K, "storage", 0, Local, hits)
           /\ Made(L, "network", Len(remaining) + 1, r.addr, r.blocks \ hits)
           /\ calls' = calls \cup K \cup L
           /\ r.blocks \ hits = {} => L = {} /\ UNCHANGED <<flight, remaining>>
           /\ r.blocks \ hits # {} =>
                /\ remaining' = Append(remaining, IdsOf(r.blocks \ hits))
                /\ bytesInFlight' = bytesInFlight + SizeOf(r.blocks \ hits)
                /\ reqsInFlight' = reqsInFlight + 1
                /\ nipa' = [nipa EXCEPT ![r.addr] = @ + Cardinality(r.blocks)]
<1> DEFINE l == Len(refs)
           k == Len(remaining)
           net(n, S) == NewCalls("network", n, k + 1, r.addr, S)
<1>1. PICK hits \in Hits(r) :
        LET rest == r.blocks \ hits
            n    == l + Cardinality(hits)
        IN IF rest = {}
           THEN /\ calls' = calls \cup NewCalls("storage", l, 0, Local, hits)
                /\ UNCHANGED <<flight, remaining>>
           ELSE \E s \in Submissions(rest) :
                  /\ calls' = calls \cup NewCalls("storage", l, 0, Local, hits)
                        \cup net(n, s[1]) \cup net(n + Cardinality(s[1]), s[2])
                  /\ remaining' = Append(remaining, {b.id : b \in rest})
                  /\ bytesInFlight' = bytesInFlight + SizeOf(rest)
                  /\ reqsInFlight' = reqsInFlight + 1
                  /\ nipa' = [nipa EXCEPT ![r.addr] = @ + Cardinality(r.blocks)]
  BY DEF Send, Answered
<1> DEFINE rest == r.blocks \ hits
           n == l + Cardinality(hits)
           K == NewCalls("storage", l, 0, Local, hits)
<1>2. hits \in SUBSET r.blocks /\ rest \in SUBSET r.blocks
  BY DEF Hits
<1>3. l \in Nat /\ n \in Nat /\ n >= l
  <2>1. Cardinality(hits) \in Nat /\ l \in Nat
    BY <1>2, PartOfRequest DEF SharedType
  <2> QED BY <2>1
<1> HIDE DEF n
<1>4. Made(K, "storage", 0, Local, hits)
  BY <1>2, <1>3, NewCallsMade
<1>5. Made(net(n, rest), "network", k + 1, r.addr, rest)
  BY <1>2, <1>3, NewCallsMade
<1> HIDE DEF K, net
<1>6. CASE rest = {}
  <2>1. net(n, rest) = {}
    BY <1>5, <1>6 DEF Made
  <2>2. calls' = calls \cup K \cup net(n, rest)
    BY <1>1, <1>6, <2>1 DEF K
  <2> QED BY <1>1, <1>2, <1>4, <1>5, <1>6, <2>1, <2>2
<1>7. CASE rest # {}
  <2>1. PICK s \in Submissions(rest) :
          /\ calls' = calls \cup K \cup net(n, s[1]) \cup net(n + Cardinality(s[1]), s[2])
          /\ remaining' = Append(remaining, {b.id : b \in rest})
          /\ bytesInFlight' = bytesInFlight + SizeOf(rest)
          /\ reqsInFlight' = reqsInFlight + 1
          /\ nipa' = [nipa EXCEPT ![r.addr] = @ + Cardinality(r.blocks)]
    BY <1>1, <1>7 DEF K, n
  <2>2. s[1] = {} /\ s[2] = rest
    BY DEF Submissions
  <2>3. n + Cardinality({}) = n
    BY <1>3, FS_EmptySet
  <2>4. net(n, {}) = {}
    <3>1. Made(net(n, {}), "network", k + 1, r.addr, {})
      BY <1>3, NewCallsMade DEF net
    <3> QED BY <3>1 DEF Made
  <2>5. calls' = calls \cup K \cup net(n, rest)
    BY <2>1, <2>2, <2>3, <2>4
  <2> QED BY <1>2, <1>4, <1>5, <1>7, <2>1, <2>5 DEF IdsOf
<1> QED BY <1>6, <1>7

--------------------------------------------------------------------------------
(* What the types say of the blocks.                                       *)
LEMMA BlockTypes ==
  ASSUME TypeInv
  PROVE  /\ fetchRequests \in Seq(Requests) /\ deferred \in [Addresses -> Seq(Requests)]
         /\ localTodo \in Seq(Wanted) /\ results \in Seq(Results)
         /\ delivered \in Seq([id : ToFetch, buf : Nat]) /\ Len(delivered) \in Nat
         /\ \A c \in calls : c \in Calls
         /\ isZombie => ~Running
BY DEF TypeInv, TaskType, QueueType, HandedType, SharedType, Running

(* A step that leaves every block where it is, or goes on processing one.  *)
LEMMA BlockFrame ==
  ASSUME BlockInv, Running,
         UNCHANGED <<fetchRequests, deferred, localTodo, calls, results, taken, delivered,
                     numProcessed>>,
         Holding' => Holding, Processing' <=> Processing
  PROVE  BlockInv'
<1>1. Disjoint(Ids) /\ Apart /\ Counted
  BY DEF BlockInv
<1>2. Disjoint(Ids')
  <2>1. \A x \in Places : Ids'[x] \subseteq Ids[x]
    BY DEF Places, Ids
  <2> QED BY <1>1, <2>1, Stayed
<1>3. Apart' /\ Counted'
  BY <1>1 DEF Apart, Counted
<1> QED BY <1>2, <1>3 DEF BlockInv, Disjoint

(* A request is sent: its blocks move from the queue to the fetches.       *)
LEMMA SentIds ==
  ASSUME SharedType, "split" \notin Faults, NEW r \in Requests, Send(r),
         \A c, d \in calls : c.id = d.id => c = d, IdsOf(r.blocks) \cap IdsOf(calls) = {}
  PROVE  /\ IdsOf(calls') \subseteq IdsOf(calls) \cup IdsOf(r.blocks)
         /\ \A c, d \in calls' : c.id = d.id => c = d
<1>1. PICK hits \in Hits(r) : \E K : \E L :
        /\ hits \in SUBSET r.blocks
        /\ Made(K, "storage", 0, Local, hits)
        /\ Made(L, "network", Len(remaining) + 1, r.addr, r.blocks \ hits)
        /\ calls' = calls \cup K \cup L
  BY SendExactly
<1>2. PICK K : \E L :
        /\ hits \in SUBSET r.blocks
        /\ Made(K, "storage", 0, Local, hits)
        /\ Made(L, "network", Len(remaining) + 1, r.addr, r.blocks \ hits)
        /\ calls' = calls \cup K \cup L
  BY <1>1
<1>3. PICK L :
        /\ hits \in SUBSET r.blocks
        /\ Made(K, "storage", 0, Local, hits)
        /\ Made(L, "network", Len(remaining) + 1, r.addr, r.blocks \ hits)
        /\ calls' = calls \cup K \cup L
  BY <1>2
<1>4. \A c \in K : \E b \in hits : b.id = c.id
  BY <1>3, MadeIds
<1>5. \A c \in L : \E b \in r.blocks \ hits : b.id = c.id
  BY <1>3, MadeIds
<1>6. \A c \in K, d \in L : c.id # d.id
  BY <1>3, <1>4, <1>5 DEF Requests
<1>7. \A c \in K \cup L : c.id \in IdsOf(r.blocks)
  BY <1>3, <1>4, <1>5 DEF IdsOf
<1>8. \A c \in calls, d \in K \cup L : c.id # d.id
  BY <1>7 DEF IdsOf
<1>9. \A c, d \in calls' : c.id = d.id => c = d
  BY <1>3, <1>6, <1>8 DEF Made
<1>10. IdsOf(calls') \subseteq IdsOf(calls) \cup IdsOf(r.blocks)
  BY <1>3, <1>7 DEF IdsOf
<1> QED BY <1>9, <1>10

(* fetchUpToMaxBytes.                                                      *)
LEMMA BlockFetching ==
  ASSUME "split" \notin Faults, TypeInv, BlockInv, Running, Running', FetchStep
  PROVE  BlockInv'
<1> USE DEF taskQueues, loops, flight, caller, shared
<1>0. /\ fetchRequests \in Seq(Requests) /\ deferred \in [Addresses -> Seq(Requests)]
      /\ Disjoint(Ids) /\ Apart /\ Counted /\ SharedType
  BY BlockTypes DEF BlockInv, TypeInv
<1>1. CASE VisitDeferred \/ LeaveDeferred \/ EndDeferred \/ EndFetch
  <2>1. UNCHANGED <<fetchRequests, deferred, localTodo, calls, results, taken, delivered,
                    numProcessed>>
    BY <1>1 DEF VisitDeferred, LeaveDeferred, EndDeferred, EndFetch
  <2>2. (Holding' <=> Holding) /\ (Processing' <=> Processing)
    BY <1>1 DEF VisitDeferred, LeaveDeferred, EndDeferred, EndFetch, Holding, Processing,
                TypeInv, TaskType
  <2> QED BY <2>1, <2>2, BlockFrame
<1>2. CASE SendRegular
  <2> DEFINE r == Head(fetchRequests)
  <2>1. fetchRequests # <<>> /\ Send(r) /\ fetchRequests' = Tail(fetchRequests)
        /\ UNCHANGED <<pc, then, deferred, localTodo, results, taken, delivered, numProcessed>>
    BY <1>2 DEF SendRegular, Fetchable
  <2>2. r \in Requests
    BY <1>0, <2>1
  <2> HIDE DEF r
  <2>3. /\ Unmixed(fetchRequests') /\ IdsOf(r.blocks) \subseteq RequestIds(fetchRequests)
        /\ RequestIds(fetchRequests') \subseteq RequestIds(fetchRequests) \ IdsOf(r.blocks)
    BY <1>0, <2>1, TailRequests DEF Apart, r
  <2>4. IdsOf(r.blocks) \cap IdsOf(calls) = {}
    <3>1. Ids["queue"] \cap Ids["call"] = {}
      BY <1>0 DEF Disjoint, Places
    <3> QED BY <2>3, <3>1 DEF Ids
  <2>5. /\ IdsOf(calls') \subseteq IdsOf(calls) \cup IdsOf(r.blocks)
        /\ \A c, d \in calls' : c.id = d.id => c = d
    BY <1>0, <2>1, <2>2, <2>4, SentIds DEF Apart
  <2>6. (Holding' <=> Holding) /\ (Processing' <=> Processing)
    BY <2>1 DEF Holding, Processing
  <2>7. Disjoint(Ids')
    <3>1. /\ IdsOf(r.blocks) \subseteq Ids["queue"]
          /\ Ids'["queue"] \subseteq Ids["queue"] \ IdsOf(r.blocks)
          /\ Ids'["call"] \subseteq Ids["call"] \cup IdsOf(r.blocks)
      BY <2>3, <2>5 DEF Ids
    <3>2. \A x \in Places : x # "queue" /\ x # "call" => Ids'[x] \subseteq Ids[x]
      BY <2>1, <2>6 DEF Places, Ids
    <3>3. "queue" \in Places /\ "call" \in Places
      BY DEF Places
    <3> QED BY <1>0, <3>1, <3>2, <3>3, Moved
  <2>8. Apart' /\ Counted'
    BY <1>0, <2>1, <2>3, <2>5, <2>6 DEF Apart, Counted
  <2> QED BY <2>7, <2>8 DEF BlockInv, Disjoint
<1>3. CASE SendDeferred
  <2> DEFINE r == Head(deferred[at])
  <2>1. deferred[at] # <<>> /\ Send(r) /\ deferred' = [deferred EXCEPT ![at] = Tail(@)]
        /\ UNCHANGED <<pc, then, fetchRequests, localTodo, results, taken, delivered, numProcessed>>
    BY <1>3 DEF SendDeferred, DeferredReady, Fetchable
  <2>2. at \in Addresses
    BY <1>3 DEF SendDeferred, TypeInv, TaskType
  <2>3. r \in Requests
    BY <1>0, <2>1, <2>2
  <2> HIDE DEF r
  <2>4. /\ Unmixed(Tail(deferred[at])) /\ IdsOf(r.blocks) \subseteq RequestIds(deferred[at])
        /\ RequestIds(Tail(deferred[at])) \subseteq RequestIds(deferred[at]) \ IdsOf(r.blocks)
    BY <1>0, <2>1, <2>2, TailRequests DEF Apart, r
  <2>5. \A a \in Addresses : /\ deferred'[a] = IF a = at THEN Tail(deferred[at]) ELSE deferred[a]
                             /\ RequestIds(deferred'[a]) \subseteq RequestIds(deferred[a])
                             /\ RequestIds(deferred'[a]) \cap IdsOf(r.blocks) = {}
    <3>1. \A a \in Addresses : deferred'[a] = IF a = at THEN Tail(deferred[at]) ELSE deferred[a]
      BY <1>0, <2>1, <2>2
    <3>2. \A a \in Addresses : a # at => RequestIds(deferred[a]) \cap RequestIds(deferred[at]) = {}
      BY <1>0, <2>2 DEF Apart
    <3> QED BY <2>4, <3>1, <3>2
  <2>6. IdsOf(r.blocks) \cap IdsOf(calls) = {}
    <3>1. Ids["deferred"] \cap Ids["call"] = {}
      BY <1>0 DEF Disjoint, Places
    <3> QED BY <2>2, <2>4, <3>1 DEF Ids
  <2>7. /\ IdsOf(calls') \subseteq IdsOf(calls) \cup IdsOf(r.blocks)
        /\ \A c, d \in calls' : c.id = d.id => c = d
    BY <1>0, <2>1, <2>3, <2>6, SentIds DEF Apart
  <2>8. (Holding' <=> Holding) /\ (Processing' <=> Processing)
    BY <2>1 DEF Holding, Processing
  <2>9. Disjoint(Ids')
    <3>1. /\ IdsOf(r.blocks) \subseteq Ids["deferred"]
          /\ Ids'["deferred"] \subseteq Ids["deferred"] \ IdsOf(r.blocks)
          /\ Ids'["call"] \subseteq Ids["call"] \cup IdsOf(r.blocks)
      BY <2>2, <2>4, <2>5, <2>7 DEF Ids
    <3>2. \A x \in Places : x # "deferred" /\ x # "call" => Ids'[x] \subseteq Ids[x]
      BY <2>1, <2>8 DEF Places, Ids
    <3>3. "deferred" \in Places /\ "call" \in Places
      BY DEF Places
    <3> QED BY <1>0, <3>1, <3>2, <3>3, Moved
  <2>10. Apart'
    <3>1. \A a \in Addresses : Unmixed(deferred'[a])
      BY <1>0, <2>4, <2>5 DEF Apart
    <3>2. \A a, b \in Addresses : a # b => RequestIds(deferred'[a]) \cap RequestIds(deferred'[b]) = {}
      BY <1>0, <2>5 DEF Apart
    <3> QED BY <1>0, <2>1, <2>7, <3>1, <3>2 DEF Apart
  <2>11. Counted'
    BY <1>0, <2>1, <2>8 DEF Counted
  <2> QED BY <2>9, <2>10, <2>11 DEF BlockInv, Disjoint
<1>4. CASE DeferRegular
  <2> DEFINE r == Head(fetchRequests)
  <2>1. fetchRequests # <<>> /\ fetchRequests' = Tail(fetchRequests)
        /\ deferred' = [deferred EXCEPT ![r.addr] = Append(@, r)]
        /\ UNCHANGED <<pc, then, localTodo, calls, results, taken, delivered, numProcessed>>
    BY <1>4 DEF DeferRegular, Fetchable
  <2>2. r \in Requests /\ r.addr \in Addresses
    BY <1>0, <2>1 DEF Requests
  <2> HIDE DEF r
  <2>3. /\ Unmixed(fetchRequests') /\ IdsOf(r.blocks) \subseteq RequestIds(fetchRequests)
        /\ RequestIds(fetchRequests') \subseteq RequestIds(fetchRequests) \ IdsOf(r.blocks)
    BY <1>0, <2>1, TailRequests DEF Apart, r
  <2>4. \A a \in Addresses : IdsOf(r.blocks) \cap RequestIds(deferred[a]) = {}
    <3>1. Ids["queue"] \cap Ids["deferred"] = {}
      BY <1>0 DEF Disjoint, Places
    <3> QED BY <2>3, <3>1 DEF Ids
  <2>5. /\ Unmixed(Append(deferred[r.addr], r))
        /\ RequestIds(Append(deferred[r.addr], r)) = RequestIds(deferred[r.addr]) \cup IdsOf(r.blocks)
    BY <1>0, <2>2, <2>4, AppendRequests DEF Apart
  <2>6. \A a \in Addresses :
          deferred'[a] = IF a = r.addr THEN Append(deferred[a], r) ELSE deferred[a]
    BY <1>0, <2>1, <2>2
  <2>7. (Holding' <=> Holding) /\ (Processing' <=> Processing)
    BY <2>1 DEF Holding, Processing
  <2>8. Disjoint(Ids')
    <3>1. /\ IdsOf(r.blocks) \subseteq Ids["queue"]
          /\ Ids'["queue"] \subseteq Ids["queue"] \ IdsOf(r.blocks)
      BY <2>3 DEF Ids
    <3>2. Ids'["deferred"] \subseteq Ids["deferred"] \cup IdsOf(r.blocks)
      BY <2>2, <2>5, <2>6 DEF Ids
    <3>3. \A x \in Places : x # "queue" /\ x # "deferred" => Ids'[x] \subseteq Ids[x]
      BY <2>1, <2>7 DEF Places, Ids
    <3>4. "queue" \in Places /\ "deferred" \in Places
      BY DEF Places
    <3> QED BY <1>0, <3>1, <3>2, <3>3, <3>4, Moved
  <2>9. Apart'
    <3>1. \A a \in Addresses : Unmixed(deferred'[a])
      BY <1>0, <2>5, <2>6 DEF Apart
    <3>2. \A a, b \in Addresses : a # b => RequestIds(deferred'[a]) \cap RequestIds(deferred'[b]) = {}
      BY <1>0, <2>4, <2>5, <2>6 DEF Apart
    <3> QED BY <1>0, <2>1, <2>3, <3>1, <3>2 DEF Apart
  <2>10. Counted'
    BY <1>0, <2>1, <2>7 DEF Counted
  <2> QED BY <2>8, <2>9, <2>10 DEF BlockInv, Disjoint
<1>5. CASE StorageThrows
  BY <1>5 DEF StorageThrows, Running
<1> QED BY <1>1, <1>2, <1>3, <1>4, <1>5 DEF FetchStep

--------------------------------------------------------------------------------
(* Every step keeps the blocks apart.                                      *)

(* A result that joins the queue: its block comes from the local ones or   *)
(* from the fetches.                                                       *)
LEMMA BlockQueue ==
  ASSUME TypeInv, BlockInv, Running, NEW r \in Results, results' = Append(results, r),
         UNCHANGED <<pc, then, fetchRequests, deferred, taken, delivered, numProcessed>>,
         NEW p \in {"local", "call"}, r.id \in Ids[p],
         p = "local" => /\ DistinctIds(localTodo') /\ UNCHANGED calls
                        /\ IdsIn(localTodo') \subseteq IdsIn(localTodo) \ {r.id},
         p = "call" => /\ UNCHANGED localTodo /\ calls' \subseteq calls
                       /\ IdsOf(calls') \subseteq IdsOf(calls) \ {r.id}
  PROVE  BlockInv'
<1>1. /\ Disjoint(Ids) /\ Apart /\ Counted /\ results \in Seq(Results)
  BY BlockTypes DEF BlockInv
<1>2. r.id \notin IdsIn(results)
  <2>1. Ids[p] \cap Ids["result"] = {}
    BY <1>1 DEF Disjoint, Places
  <2> QED BY <2>1 DEF Ids
<1>3. DistinctIds(results') /\ IdsIn(results') = IdsIn(results) \cup {r.id}
  BY <1>1, <1>2, AppendIds DEF Apart
<1>4. (Holding' <=> Holding) /\ (Processing' <=> Processing)
  BY DEF Holding, Processing
<1>5. Disjoint(Ids')
  <2>1. /\ {r.id} \subseteq Ids[p] /\ Ids'[p] \subseteq Ids[p] \ {r.id}
    BY DEF Ids
  <2>2. Ids'["result"] \subseteq Ids["result"] \cup {r.id}
    BY <1>3 DEF Ids
  <2>3. \A x \in Places : x # p /\ x # "result" => Ids'[x] \subseteq Ids[x]
    BY <1>4 DEF Places, Ids, IdsOf
  <2>4. p \in Places /\ "result" \in Places /\ p # "result"
    BY DEF Places
  <2> QED BY <1>1, <2>1, <2>2, <2>3, <2>4, Moved
<1>6. Apart'
  BY <1>1, <1>3 DEF Apart
<1>7. Counted'
  BY <1>1, <1>4 DEF Counted
<1> QED BY <1>5, <1>6, <1>7 DEF BlockInv, Disjoint

(* fetchLocalBlocks.                                                       *)
LEMMA BlockLocal == ASSUME TypeInv, BlockInv, LocalStep PROVE BlockInv'
<1> USE DEF taskQueues, loops, flight, caller, shared
<1>1. /\ Running /\ localTodo \in Seq(Wanted) /\ DistinctIds(localTodo)
      /\ Len(refs) + 1 \in Nat
  <2>1. pc = "local"
    BY DEF LocalStep, FetchLocal, LocalFails, EndLocal
  <2>2. Running /\ Apart
    BY <2>1 DEF Running, BlockInv
  <2>3. Len(refs) + 1 \in Nat
    BY DEF TypeInv, SharedType
  <2> QED BY <2>2, <2>3, BlockTypes DEF Apart
<1>2. CASE FetchLocal \/ LocalFails
  <2> DEFINE b == Head(localTodo)
  <2>1. /\ localTodo # <<>> /\ b \in Wanted
        /\ UNCHANGED <<pc, then, fetchRequests, deferred, taken, delivered, numProcessed, calls>>
    <3>1. localTodo # <<>>
      BY <1>2 DEF FetchLocal, LocalFails
    <3>2. UNCHANGED <<pc, then, fetchRequests, deferred, taken, delivered, numProcessed, calls>>
      BY <1>2 DEF FetchLocal, LocalFails
    <3>3. b \in Wanted
      BY <1>1, <3>1
    <3> QED BY <3>1, <3>2, <3>3
  <2>2. /\ DistinctIds(Tail(localTodo)) /\ b.id \in IdsIn(localTodo)
        /\ IdsIn(Tail(localTodo)) \subseteq IdsIn(localTodo) \ {b.id}
    BY <1>1, <2>1, TailIds
  <2>3. PICK r \in Results : r.id = b.id /\ results' = Append(results, r)
    <3>1. CASE FetchLocal
      <4> DEFINE r == Success(b.id, Local, 0, Len(refs) + 1, 0, FALSE, "local")
      <4>1. r \in Results /\ r.id = b.id /\ results' = Append(results, r)
        BY <1>1, <2>1, <3>1, ResultTypes DEF FetchLocal, Answered, Success
      <4> QED BY <4>1
    <3>2. CASE LocalFails
      <4> DEFINE r == Failure(b.id, Local, 0, 0, "local")
      <4>1. r \in Results /\ r.id = b.id /\ results' = Append(results, r)
        BY <2>1, <3>2, ResultTypes DEF LocalFails, Failure
      <4> QED BY <4>1
    <3> QED BY <1>2, <3>1, <3>2
  <2>4. /\ DistinctIds(localTodo')
        /\ IdsIn(localTodo') \subseteq IdsIn(localTodo) \ {b.id}
    <3>1. localTodo' = Tail(localTodo) \/ localTodo' = <<>>
      BY <1>2 DEF FetchLocal, LocalFails
    <3>2. DistinctIds(<<>>) /\ IdsIn(<<>>) = {}
      BY DEF DistinctIds, IdsIn
    <3> QED BY <2>2, <3>1, <3>2
  <2>5. r.id \in Ids["local"]
    BY <2>2, <2>3 DEF Ids
  <2> HIDE DEF b
  <2> QED BY <1>1, <2>1, <2>3, <2>4, <2>5, BlockQueue
<1>3. CASE EndLocal
  <2>1. /\ UNCHANGED <<fetchRequests, deferred, localTodo, calls, results, taken, delivered,
                       numProcessed>>
        /\ pc = "local" /\ pc' = "caller"
    BY <1>3 DEF EndLocal
  <2>2. (Holding' => Holding) /\ (Processing' <=> Processing)
    BY <2>1 DEF Holding, Processing
  <2> QED BY <1>1, <2>1, <2>2, BlockFrame
<1> QED BY <1>2, <1>3 DEF LocalStep

(* The callbacks.                                                          *)
LEMMA BlockCallback == ASSUME TypeInv, BlockInv, Callback PROVE BlockInv'
<1> USE DEF taskQueues, loops, flight, caller, shared
<1>1. SUFFICES ASSUME Running PROVE BlockInv'
  BY DEF Callback, BlockInv, Running
<1>2. PICK c \in calls :
        /\ NetworkSuccess(c) \/ StorageSuccess(c) \/ FetchFails(c)
        /\ calls' = calls \ {c}
        /\ UNCHANGED <<pc, then, taskQueues, loops, flight, corrupted, localTodo, taken,
                       current, caller, isZombie>>
  BY DEF Callback
<1>3. c \in Calls /\ ~isZombie
  BY <1>1, BlockTypes
<1>4. PICK r \in Results : r.id = c.id /\ results' = Append(results, r)
  <2>1. CASE NetworkSuccess(c)
    <3> DEFINE done == (remaining[c.req] \ {c.id}) = {}
               r == Success(c.id, c.addr, c.size, c.num, c.req, done, "network")
    <3>1. r \in Results
      BY <1>3, ResultTypes
    <3>2. r.id = c.id /\ results' = Append(results, r)
      BY <1>3, <2>1 DEF NetworkSuccess, Success
    <3> QED BY <3>1, <3>2
  <2>2. CASE StorageSuccess(c)
    <3> DEFINE r == Success(c.id, Local, 0, 0, 0, FALSE, "storage")
    <3>1. r \in Results /\ r.id = c.id /\ results' = Append(results, r)
      BY <1>3, <2>2, ResultTypes DEF StorageSuccess, Success
    <3> QED BY <3>1
  <2>3. CASE FetchFails(c)
    <3> DEFINE r == Failure(c.id, c.addr, c.size, c.req, c.kind)
    <3>1. r \in Results /\ r.id = c.id /\ results' = Append(results, r)
      BY <1>3, <2>3, ResultTypes DEF FetchFails, Failure
    <3> QED BY <3>1
  <2> QED BY <1>2, <2>1, <2>2, <2>3
<1>5. IdsOf(calls') \subseteq IdsOf(calls) \ {r.id} /\ calls' \subseteq calls
  BY <1>1, <1>2, <1>4 DEF IdsOf, BlockInv, Apart
<1>6. r.id \in Ids["call"]
  BY <1>2, <1>4 DEF Ids, IdsOf
<1>7. UNCHANGED <<pc, then, fetchRequests, deferred, localTodo, taken, delivered, numProcessed>>
  BY <1>2
<1> QED BY <1>1, <1>4, <1>5, <1>6, <1>7, BlockQueue

(* next when it takes a result.                                            *)
LEMMA BlockTake == ASSUME TypeInv, BlockInv, Running', TakeSuccess PROVE BlockInv'
<1> USE DEF taskQueues, loops, flight, caller, shared
<1> DEFINE r == Head(results)
           q == [addr |-> r.addr, blocks |-> {[id |-> r.id, size |-> r.size]}]
<1>1. /\ results # <<>> /\ results' = Tail(results) /\ pc = "take"
      /\ UNCHANGED <<deferred, localTodo, calls, delivered, numProcessed>>
  BY DEF TakeSuccess
<1>2. /\ Disjoint(Ids) /\ Apart /\ Counted /\ results \in Seq(Results)
      /\ fetchRequests \in Seq(Requests)
  BY <1>1, BlockTypes DEF BlockInv, Running
<1>3. /\ DistinctIds(results') /\ r.id \in IdsIn(results)
      /\ IdsIn(results') \subseteq IdsIn(results) \ {r.id}
  BY <1>1, <1>2, TailIds DEF Apart
<1>4. r \in Results /\ q \in Requests /\ IdsOf(q.blocks) = {r.id}
  <2>1. r \in Results
    BY <1>1, <1>2
  <2> HIDE DEF r
  <2>2. IdsOf(q.blocks) = {r.id}
    BY DEF IdsOf
  <2> QED BY <2>1, <2>2, RetryRequest
<1>5. ~Holding /\ Processing
  BY <1>1 DEF Holding, Processing
<1>6. TakeGood(r) \/ TakeCorrupt(r)
  BY DEF TakeSuccess, TakeCorruptAgain, StreamThrows, WrapThrows, Running
<1> HIDE DEF r, q
<1>7. {r.id} \subseteq Ids["result"] /\ Ids'["result"] \subseteq Ids["result"] \ {r.id}
  BY <1>3 DEF Ids
<1>8. CASE TakeGood(r)
  <2>1. /\ taken' = r /\ pc' = "deferred" /\ then' = "deliver" /\ UNCHANGED fetchRequests
    BY <1>8 DEF TakeGood, EnterFetch
  <2>2. Holding' /\ Processing'
    BY <2>1 DEF Holding, Processing
  <2>3. Disjoint(Ids')
    <3>1. Ids'["taken"] \subseteq Ids["taken"] \cup {r.id}
      BY <2>1, <2>2 DEF Ids
    <3>2. \A x \in Places : x # "result" /\ x # "taken" => Ids'[x] \subseteq Ids[x]
      BY <1>1, <2>1 DEF Places, Ids
    <3>3. "result" \in Places /\ "taken" \in Places
      BY DEF Places
    <3> QED BY <1>2, <1>7, <3>1, <3>2, <3>3, Moved
  <2>4. Apart'
    BY <1>1, <1>2, <1>3, <2>1 DEF Apart
  <2>5. Counted'
    BY <1>1, <1>2, <1>5, <2>2 DEF Counted
  <2> QED BY <2>3, <2>4, <2>5 DEF BlockInv, Disjoint
<1>9. CASE TakeCorrupt(r)
  <2>1. /\ fetchRequests' = Append(fetchRequests, q) /\ pc' = "deferred" /\ then' = "take"
    BY <1>9 DEF TakeCorrupt, EnterFetch, q
  <2>2. ~Holding' /\ Processing'
    BY <2>1 DEF Holding, Processing
  <2>3. IdsOf(q.blocks) \cap RequestIds(fetchRequests) = {}
    <3>1. Ids["result"] \cap Ids["queue"] = {}
      BY <1>2 DEF Disjoint, Places
    <3> QED BY <1>3, <1>4, <3>1 DEF Ids
  <2>4. /\ Unmixed(fetchRequests')
        /\ RequestIds(fetchRequests') = RequestIds(fetchRequests) \cup {r.id}
    BY <1>2, <1>4, <2>1, <2>3, AppendRequests DEF Apart
  <2>5. Disjoint(Ids')
    <3>1. Ids'["queue"] \subseteq Ids["queue"] \cup {r.id}
      BY <2>4 DEF Ids
    <3>2. \A x \in Places : x # "result" /\ x # "queue" => Ids'[x] \subseteq Ids[x]
      BY <1>1, <2>2 DEF Places, Ids
    <3>3. "result" \in Places /\ "queue" \in Places
      BY DEF Places
    <3> QED BY <1>2, <1>7, <3>1, <3>2, <3>3, Moved
  <2>6. Apart'
    BY <1>1, <1>2, <1>3, <2>4 DEF Apart
  <2>7. Counted'
    BY <1>1, <1>2, <1>5, <2>2 DEF Counted
  <2> QED BY <2>5, <2>6, <2>7 DEF BlockInv, Disjoint
<1> QED BY <1>6, <1>8, <1>9

(* What Deliver does: the block in hand is new to the caller.              *)
LEMMA DeliverFacts ==
  ASSUME TypeInv, BlockInv, Deliver
  PROVE  /\ taken.id \in ToFetch /\ taken.id \notin IdsIn(delivered)
         /\ DistinctIds(delivered') /\ IdsIn(delivered') = IdsIn(delivered) \cup {taken.id}
         /\ Len(delivered') = Len(delivered) + 1 /\ Len(delivered) \in Nat
<1> DEFINE d == [id |-> taken.id, buf |-> taken.buf]
<1>1. pc = "deliver" /\ Holding /\ delivered' = Append(delivered, d)
  BY DEF Deliver, Holding
<1>2. taken \in Results
  BY <1>1 DEF TypeInv, TaskType
<1>3. d \in [id : ToFetch, buf : Nat] /\ d.id = taken.id /\ taken.id \in ToFetch
  BY <1>2 DEF Results
<1>4. delivered \in Seq([id : ToFetch, buf : Nat]) /\ Disjoint(Ids) /\ Apart
  BY <1>1, BlockTypes DEF BlockInv, Running
<1>5. taken.id \notin IdsIn(delivered)
  <2>1. Ids["taken"] \cap Ids["delivered"] = {}
    BY <1>4 DEF Disjoint, Places
  <2> QED BY <1>1, <2>1 DEF Ids
<1> HIDE DEF d
<1>6. DistinctIds(delivered') /\ IdsIn(delivered') = IdsIn(delivered) \cup {taken.id}
  <2>1. DistinctIds(delivered) /\ d.id \notin IdsIn(delivered)
    BY <1>3, <1>4, <1>5 DEF Apart
  <2>2. /\ DistinctIds(Append(delivered, d))
        /\ IdsIn(Append(delivered, d)) = IdsIn(delivered) \cup {d.id}
    <3> DEFINE T == [id : ToFetch, buf : Nat]
    <3>1. delivered \in Seq(T) /\ d \in T
      BY <1>3, <1>4
    <3> HIDE DEF T
    <3> QED BY <2>1, <3>1, AppendIds
  <2> QED BY <1>1, <1>3, <2>2
<1>7. Len(delivered') = Len(delivered) + 1 /\ Len(delivered) \in Nat
  BY <1>1, <1>3, <1>4, AppendFacts
<1> QED BY <1>3, <1>5, <1>6, <1>7

(* The other steps of next and of the caller.                              *)
LEMMA BlockNext ==
  ASSUME TypeInv, BlockInv, Running, CallNext \/ Deliver \/ CloseStream
  PROVE  BlockInv'
<1> USE DEF taskQueues, loops, flight, caller, shared
<1>0. Disjoint(Ids) /\ Apart /\ Counted
  BY DEF BlockInv
<1>1. CASE CallNext
  <2>1. /\ UNCHANGED <<fetchRequests, deferred, localTodo, calls, results, taken, delivered>>
        /\ pc = "caller" /\ pc' = "take" /\ numProcessed' = numProcessed + 1
    BY <1>1 DEF CallNext
  <2>2. ~Holding /\ ~Holding' /\ ~Processing /\ Processing'
    BY <2>1 DEF Holding, Processing
  <2>3. Disjoint(Ids')
    <3>1. \A x \in Places : Ids'[x] \subseteq Ids[x]
      BY <2>1, <2>2 DEF Places, Ids
    <3> QED BY <1>0, <3>1, Stayed
  <2>4. Apart'
    BY <1>0, <2>1 DEF Apart
  <2>5. Counted'
    <3>1. Len(delivered) \in Nat
      BY BlockTypes
    <3> QED BY <1>0, <2>1, <2>2, <3>1 DEF Counted
  <2> QED BY <2>3, <2>4, <2>5 DEF BlockInv, Disjoint
<1>2. CASE Deliver
  <2>1. /\ UNCHANGED <<fetchRequests, deferred, localTodo, calls, results, numProcessed>>
        /\ pc = "deliver" /\ pc' = "caller"
    BY <1>2 DEF Deliver
  <2>2. Holding /\ ~Holding' /\ Processing /\ ~Processing'
    BY <2>1 DEF Holding, Processing
  <2>3. /\ DistinctIds(delivered') /\ IdsIn(delivered') = IdsIn(delivered) \cup {taken.id}
        /\ Len(delivered') = Len(delivered) + 1 /\ Len(delivered) \in Nat
    BY <1>2, DeliverFacts
  <2>4. Disjoint(Ids')
    <3>1. /\ {taken.id} \subseteq Ids["taken"] /\ Ids'["taken"] \subseteq Ids["taken"] \ {taken.id}
          /\ Ids'["delivered"] \subseteq Ids["delivered"] \cup {taken.id}
      BY <2>2, <2>3 DEF Ids
    <3>2. \A x \in Places : x # "taken" /\ x # "delivered" => Ids'[x] \subseteq Ids[x]
      BY <2>1 DEF Places, Ids
    <3>3. "taken" \in Places /\ "delivered" \in Places
      BY DEF Places
    <3> QED BY <1>0, <3>1, <3>2, <3>3, Moved
  <2>5. Apart'
    BY <1>0, <2>1, <2>3 DEF Apart
  <2>6. Counted'
    BY <1>0, <2>1, <2>2, <2>3 DEF Counted
  <2> QED BY <2>4, <2>5, <2>6 DEF BlockInv, Disjoint
<1>3. CASE CloseStream
  <2>1. UNCHANGED <<pc, then, fetchRequests, deferred, localTodo, calls, results, taken, delivered,
                    numProcessed>>
    BY <1>3 DEF CloseStream
  <2>2. (Holding' => Holding) /\ (Processing' <=> Processing)
    BY <2>1 DEF Holding, Processing
  <2> QED BY <2>1, <2>2, BlockFrame
<1> QED BY <1>1, <1>2, <1>3

(* At the start each block is in one request or local.                     *)
LEMMA BlockInit == Init => BlockInv
<1> SUFFICES ASSUME Init PROVE BlockInv
  OBVIOUS
<1>1. /\ fetchRequests \in Seq(RemoteRequests)
      /\ \A i, j \in 1 .. Len(fetchRequests) : fetchRequests[i] = fetchRequests[j] => i = j
  <2>1. fetchRequests \in SetToSeqs(RemoteRequests) /\ Cardinality(RemoteRequests) \in Nat
    BY RequestFacts, FS_CardinalityType DEF Init
  <2> QED BY <2>1 DEF SetToSeqs, IsInjective
<1>2. /\ Unmixed(fetchRequests)
      /\ \A i \in 1 .. Len(fetchRequests) : fetchRequests[i] \in RemoteRequests
  <2>1. \A i \in 1 .. Len(fetchRequests) : fetchRequests[i] \in RemoteRequests
    BY <1>1
  <2> QED BY <1>1, <2>1, RequestFacts DEF Unmixed, IdsOf
<1>3. ~Holding /\ ~Processing
  BY DEF Init, Holding, Processing
<1>4. /\ deferred = [a \in Addresses |-> <<>>] /\ localTodo = LocalBlocks /\ calls = {}
      /\ results = <<>> /\ delivered = <<>> /\ numProcessed = 0
  BY DEF Init
<1>5. RequestIds(fetchRequests) \cap IdsIn(localTodo) = {}
  <2>1. LocalBlocks \in Seq(Wanted)
    BY LocalFacts
  <2> QED BY <1>2, <1>4, <2>1, LocalFacts DEF RequestIds, IdsIn, IdsOf
<1>6. /\ Ids["deferred"] = {} /\ Ids["call"] = {} /\ Ids["result"] = {} /\ Ids["taken"] = {}
      /\ Ids["delivered"] = {}
  BY <1>3, <1>4 DEF Ids, RequestIds, IdsIn, IdsOf
<1>7. Ids["queue"] \cap Ids["local"] = {}
  BY <1>5 DEF Ids
<1>8. Disjoint(Ids)
  BY <1>6, <1>7 DEF Disjoint, Places
<1>9. Apart
  <2>1. Unmixed(<<>>) /\ RequestIds(<<>>) = {} /\ DistinctIds(<<>>)
    BY DEF Unmixed, RequestIds, DistinctIds
  <2> QED BY <1>2, <1>4, <2>1, LocalFacts DEF Apart
<1>10. Counted
  BY <1>3, <1>4 DEF Counted
<1> QED BY <1>8, <1>9, <1>10 DEF BlockInv

(* The task does not come back from its cleanup.                           *)
LEMMA OnlyStops == ASSUME Next, ~Running, Running' PROVE Callback
<1>1. pc \in {"cleanup", "release", "done"}
  BY DEF Running
<1>2. ~FetchStep
  BY <1>1 DEF FetchStep, VisitDeferred, SendDeferred, LeaveDeferred, EndDeferred, DeferRegular,
              SendRegular, EndFetch, StorageThrows, Running
<1>3. ~LocalStep
  BY <1>1 DEF LocalStep, FetchLocal, LocalFails, EndLocal
<1>4. ~CallNext /\ ~TakeFailure /\ ~TakeSuccess /\ ~Deliver /\ ~CloseStream
  BY <1>1 DEF CallNext, TakeFailure, TakeSuccess, Deliver, CloseStream
<1>5. ~MarkZombie /\ ~ReleaseAll /\ ~CompleteTask
  BY DEF MarkZombie, ReleaseAll, CompleteTask, Running
<1>6. ~Finished
  BY <1>1 DEF Finished, Running, vars
<1> QED BY <1>2, <1>3, <1>4, <1>5, <1>6 DEF Next, TaskStep

(* No block gets lost or is asked for twice while the iterator runs.       *)
LEMMA BlockStep ==
  ASSUME "split" \notin Faults, TypeInv, BlockInv, [Next]_vars
  PROVE  BlockInv'
<1>1. CASE UNCHANGED vars
  BY <1>1 DEF vars, taskQueues, loops, flight, caller, shared, BlockInv, Disjoint, Ids, Apart,
              Counted, Running, Holding, Processing
<1>2. CASE Next
  <2>1. SUFFICES ASSUME Running' PROVE BlockInv'
    BY DEF BlockInv
  <2>2. CASE ~Running
    <3>1. Callback
      BY <1>2, <2>1, <2>2, OnlyStops
    <3> QED BY <3>1, BlockCallback
  <2>3. CASE Running
    BY <1>2, <2>1, <2>3, BlockFetching, BlockLocal, BlockCallback, BlockTake, BlockNext
       DEF Next, TaskStep, Running, TakeFailure, MarkZombie, ReleaseAll, CompleteTask, Finished
  <2> QED BY <2>2, <2>3
<1> QED BY <1>1, <1>2

(* Every reachable state has each block in one place.                      *)
LEMMA BlockCorrect == ASSUME "split" \notin Faults PROVE Spec => []BlockInv
BY BlockInit, TypeCorrect, BlockStep, PTL DEF Spec

--------------------------------------------------------------------------------
(* The refinement of BlockFetch.                                           *)

(* As many ids as elements.                                                *)
LEMMA CountIds ==
  ASSUME NEW T, NEW s \in Seq(T), DistinctIds(s)
  PROVE  IsFiniteSet(IdsIn(s)) /\ Cardinality(IdsIn(s)) = Len(s)
<1> DEFINE n == Len(s)
           f == [i \in 1 .. n |-> s[i].id]
<1>1. n \in Nat /\ DOMAIN s = 1 .. n
  OBVIOUS
<1>2. f \in Bijection(1 .. n, IdsIn(s))
  <2>1. f \in [1 .. n -> IdsIn(s)]
    BY DEF IdsIn
  <2>2. \A i, j \in 1 .. n : f[i] = f[j] => i = j
    BY <1>1 DEF DistinctIds
  <2>3. \A x \in IdsIn(s) : \E i \in 1 .. n : f[i] = x
    BY DEF IdsIn
  <2> HIDE DEF f
  <2> QED BY <2>1, <2>2, <2>3 DEF Bijection, Injection, Surjection, IsInjective
<1>3. ExistsBijection(1 .. n, IdsIn(s))
  BY <1>2 DEF ExistsBijection
<1>4. n \in Nat
  BY <1>1
<1> HIDE DEF n
<1>5. IsFiniteSet(IdsIn(s)) /\ Cardinality(IdsIn(s)) = n
  BY <1>3, <1>4, FS_CountingElements, FS_NatBijection
<1> QED BY <1>5 DEF n

(* Whoever returned as many blocks as there are returned all.              *)
LEMMA AllReturned ==
  ASSUME NEW s \in Seq([id : ToFetch, buf : Nat]), DistinctIds(s)
  PROVE  ~(Len(s) < NumBlocksToFetch) <=> IdsIn(s) = ToFetch
<1> DEFINE T == [id : ToFetch, buf : Nat]
<1>1. IdsIn(s) \subseteq ToFetch /\ Len(s) \in Nat
  <2>1. \A i \in 1 .. Len(s) : s[i].id \in ToFetch
    <3>1. s \in Seq(T)
      OBVIOUS
    <3> HIDE DEF T
    <3>2. \A i \in 1 .. Len(s) : s[i] \in T
      BY <3>1
    <3> QED BY <3>2 DEF T
  <2> QED BY <2>1 DEF IdsIn
<1>2. Cardinality(IdsIn(s)) = Len(s)
  <2>1. s \in Seq(T)
    OBVIOUS
  <2> HIDE DEF T
  <2> QED BY <2>1, CountIds
<1>3. /\ Cardinality(IdsIn(s)) <= NumBlocksToFetch /\ NumBlocksToFetch \in Nat
      /\ Cardinality(IdsIn(s)) = NumBlocksToFetch => IdsIn(s) = ToFetch
  BY <1>1, ToFetchFinite, FS_Subset DEF NumBlocksToFetch
<1> QED BY <1>1, <1>2, <1>3 DEF NumBlocksToFetch

Got == IdsIn(delivered)
Status ==
  IF ~Running THEN "ended" ELSE IF pc = "caller" /\ ~HasNext THEN "exhausted" ELSE "open"

(* The step of BlockFetch that a step of the iterator is.                  *)
LEMMA PromiseStep ==
  ASSUME TypeInv, BlockInv, TypeInv', BlockInv', [Next]_vars
  PROVE  \/ UNCHANGED <<Got, Status>>
         \/ Status = "open" /\ Got = ToFetch /\ Status' = "exhausted" /\ UNCHANGED Got
         \/ Status # "ended" /\ Status' = "ended" /\ UNCHANGED Got
         \/ \E b \in ToFetch :
              /\ Status = "open" /\ b \notin Got /\ Got' = Got \cup {b}
              /\ Status' = IF Got' = ToFetch THEN "exhausted" ELSE "open"
<1> USE DEF taskQueues, loops, flight, caller, shared
<1>1. CASE UNCHANGED vars
  BY <1>1 DEF vars, Got, Status, Running, HasNext, IdsIn
<1>2. CASE Next /\ ~Deliver
  <2>1. UNCHANGED Got
    <3>1. delivered' = delivered
      <4>1. CASE FetchStep
        BY <4>1 DEF FetchStep, VisitDeferred, SendDeferred, LeaveDeferred, EndDeferred, DeferRegular,
                    SendRegular, EndFetch, StorageThrows
      <4>2. CASE LocalStep
        BY <4>2 DEF LocalStep, FetchLocal, LocalFails, EndLocal
      <4>3. CASE Callback
        BY <4>3 DEF Callback
      <4>4. CASE CallNext \/ TakeFailure \/ TakeSuccess \/ CloseStream
        BY <4>4 DEF CallNext, TakeFailure, TakeSuccess, CloseStream
      <4>5. CASE MarkZombie \/ ReleaseAll \/ CompleteTask \/ Finished
        BY <4>5 DEF MarkZombie, ReleaseAll, CompleteTask, Finished, vars
      <4> QED BY <1>2, <4>1, <4>2, <4>3, <4>4, <4>5 DEF Next, TaskStep
    <3> QED BY <3>1 DEF Got, IdsIn
  <2>2. CASE ~Running
    <3>1. ~Running'
      <4>1. CASE Callback
        BY <2>2, <4>1 DEF Callback, Running
      <4> QED BY <1>2, <2>2, <4>1, OnlyStops
    <3> QED BY <2>1, <2>2, <3>1 DEF Status
  <2>3. CASE Running /\ ~Running'
    <3>1. Status # "ended" /\ Status' = "ended"
      BY <2>3 DEF Status
    <3> QED BY <2>1, <3>1
  <2>4. CASE Running /\ Running' /\ ~EndLocal
    <3>1. pc = "caller" /\ ~HasNext <=> pc' = "caller" /\ ~HasNext'
      <4>1. CASE FetchStep
        <5>1. /\ pc \in {"deferred", "regular"} /\ pc' \in {"deferred", "regular", "cleanup", then}
          <6>1. CASE VisitDeferred \/ LeaveDeferred \/ EndDeferred \/ EndFetch
            BY <6>1 DEF VisitDeferred, LeaveDeferred, EndDeferred, EndFetch
          <6>2. CASE SendDeferred
            BY <6>2 DEF SendDeferred
          <6>3. CASE SendRegular
            BY <6>3 DEF SendRegular
          <6>4. CASE DeferRegular
            BY <6>4 DEF DeferRegular
          <6>5. CASE StorageThrows
            <7>1. \E r \in Sending : TRUE
              BY <6>5 DEF StorageThrows
            <7> QED BY <6>5, <7>1 DEF StorageThrows, Sending
          <6> QED BY <4>1, <6>1, <6>2, <6>3, <6>4, <6>5 DEF FetchStep
        <5>2. then # "caller"
          BY DEF TypeInv, TaskType
        <5> QED BY <5>1, <5>2
      <4>2. CASE LocalStep
        BY <2>4, <4>2 DEF LocalStep, FetchLocal, LocalFails
      <4>3. CASE Callback
        BY <4>3 DEF Callback, HasNext
      <4>4. CASE CallNext
        BY <4>4 DEF CallNext
      <4>5. CASE TakeFailure
        BY <2>4, <4>5 DEF TakeFailure, Running
      <4>6. CASE TakeSuccess
        <5>1. pc = "take" /\ pc' \in {"deferred", "cleanup"}
          BY <4>6 DEF TakeSuccess, TakeGood, TakeCorruptAgain, TakeCorrupt, StreamThrows,
                      WrapThrows, EnterFetch
        <5> QED BY <5>1
      <4>7. CASE CloseStream
        BY <4>7 DEF CloseStream, HasNext
      <4>8. CASE MarkZombie \/ ReleaseAll \/ CompleteTask \/ Finished
        BY <2>4, <4>8 DEF MarkZombie, ReleaseAll, CompleteTask, Finished, Running
      <4> QED BY <1>2, <4>1, <4>2, <4>3, <4>4, <4>5, <4>6, <4>7, <4>8 DEF Next, TaskStep
    <3> QED BY <2>1, <2>4, <3>1 DEF Status
  <2>5. CASE EndLocal
    <3>1. pc = "local" /\ pc' = "caller" /\ numProcessed' = numProcessed
      BY <2>5 DEF EndLocal
    <3>2. Running /\ Running' /\ Status = "open"
      BY <3>1 DEF Status, Running
    <3>3. CASE HasNext
      BY <2>1, <3>1, <3>2, <3>3 DEF Status, HasNext
    <3>4. CASE ~HasNext
      <4>1. Status' = "exhausted"
        BY <3>1, <3>2, <3>4 DEF Status, HasNext
      <4>2. numProcessed = Len(delivered) /\ DistinctIds(delivered)
        <5>1. Counted /\ Apart
          BY <3>2 DEF BlockInv
        <5>2. Len(delivered) \in Nat /\ ~Processing
          BY <3>1, BlockTypes DEF Processing, Holding
        <5> QED BY <5>1, <5>2 DEF Counted, Apart
      <4>3. Got = ToFetch
        BY <3>4, <4>2, BlockTypes, AllReturned DEF Got, HasNext
      <4> QED BY <2>1, <3>2, <4>1, <4>3
    <3> QED BY <3>3, <3>4
  <2> QED BY <2>2, <2>3, <2>4, <2>5
<1>3. CASE Deliver
  <2>1. pc = "deliver" /\ pc' = "caller"
    BY <1>3 DEF Deliver
  <2>2. Running /\ Running' /\ Status = "open"
    BY <2>1 DEF Status, Running
  <2>3. taken.id \in ToFetch /\ taken.id \notin Got /\ Got' = Got \cup {taken.id}
    <3>1. /\ taken.id \in ToFetch /\ taken.id \notin IdsIn(delivered)
          /\ IdsIn(delivered') = IdsIn(delivered) \cup {taken.id}
      BY <1>3, DeliverFacts
    <3> QED BY <3>1 DEF Got
  <2>4. numProcessed' = Len(delivered') /\ DistinctIds(delivered')
        /\ delivered' \in Seq([id : ToFetch, buf : Nat])
    <3>1. Counted' /\ Apart'
      BY <2>2 DEF BlockInv
    <3>2. delivered' \in Seq([id : ToFetch, buf : Nat]) /\ Len(delivered') \in Nat
      BY DEF TypeInv, HandedType
    <3>3. ~Processing'
      BY <2>1 DEF Processing, Holding
    <3> QED BY <3>1, <3>2, <3>3 DEF Counted, Apart
  <2>5. ~HasNext' <=> Got' = ToFetch
    <3>1. ~(Len(delivered') < NumBlocksToFetch) <=> IdsIn(delivered') = ToFetch
      BY <2>4, AllReturned
    <3> QED BY <2>4, <3>1 DEF Got, HasNext
  <2>6. Status' = IF Got' = ToFetch THEN "exhausted" ELSE "open"
    BY <2>1, <2>2, <2>5 DEF Status
  <2> QED BY <2>2, <2>3, <2>6
<1> QED BY <1>1, <1>2, <1>3

(* The iterator implements BlockFetch.                                     *)
THEOREM BlockFetchHolds == ASSUME "split" \notin Faults PROVE Spec => BlockFetchSpec
<1>1. Init => Promise!Init
  <2> SUFFICES ASSUME Init PROVE Promise!Init
    OBVIOUS
  <2>1. pc = "deferred" /\ delivered = <<>>
    BY DEF Init
  <2> QED BY <2>1 DEF Promise!Init, Running
<1>2. TypeInv /\ BlockInv /\ TypeInv' /\ BlockInv' /\ [Next]_vars => [Promise!Next]_(Promise!vars)
  <2> SUFFICES ASSUME TypeInv, BlockInv, TypeInv', BlockInv', [Next]_vars
               PROVE  [Promise!Next]_(Promise!vars)
    OBVIOUS
  <2> USE DEF Got, Status, IdsIn
  <2> QED BY PromiseStep DEF Promise!Next, Promise!vars, Promise!Nothing, Promise!End, Promise!Hand,
                 Promise!StatusOf
<1> QED BY <1>1, <1>2, TypeCorrect, BlockCorrect, PTL DEF Spec, BlockFetchSpec, Promise!Spec

--------------------------------------------------------------------------------
(* What is in flight.                                                      *)

(* What is at an address, and the requests that are out.                   *)
At(S, a)    == {x \in S : x.addr = a}
AllAt(S, a) == \A x \in S : x.addr = a
OutReqs == {i \in 1 .. Len(remaining) :
              remaining[i] # {} \/ \E r \in Waiting : r.req = i /\ r.done}

(* A request sent has a block left as long as it has one that was not      *)
(* answered or failed, and is done with one result.                        *)
RequestInv ==
  /\ \A c \in Unanswered : c.id \in remaining[c.req]
  /\ \A r \in Waiting : /\ r.ok => r.req \in 1 .. Len(remaining) /\ r.addr # Local
                        /\ r.done => r.ok /\ remaining[r.req] = {}
  /\ \A q, r \in Waiting : q.done /\ r.done /\ q.req = r.req => q = r
  /\ \A i \in 1 .. Len(remaining) : \A x \in remaining[i] :
       \/ \E c \in Unanswered : c.req = i /\ c.id = x
       \/ \E r \in Waiting : ~r.ok /\ r.req = i /\ r.id = x
ResultInv ==
  \A k \in 1 .. Len(results) :
    results[k].ok /\ results[k].kind # "network" =>
      results[k].size = 0 /\ results[k].addr = Local /\ ~results[k].done

(* The counters follow what is out; what the storage had of a request      *)
(* stays counted for the address.                                          *)
CountInv ==
  /\ bytesInFlight = BytesOut
  /\ reqsInFlight = ReqsOut
  /\ \A a \in Addresses : BlocksOut(a) \in 0 .. nipa[a]
  /\ External = {} => \A a \in Addresses : BlocksOut(a) = nipa[a]

(* Without an external storage, every block that is asked for has a size.  *)
SizesInv ==
  External = {} =>
    /\ \A k \in 1 .. Len(fetchRequests) : \A b \in fetchRequests[k].blocks : b.size # 0
    /\ \A a \in Addresses : \A k \in 1 .. Len(deferred[a]) :
         \A b \in deferred[a][k].blocks : b.size # 0
    /\ \A c \in calls : c.kind = "network" /\ c.size # 0
    /\ \A k \in 1 .. Len(results) : /\ results[k].kind # "storage"
                                    /\ results[k].kind = "network" => results[k].size # 0

(* The limits hold of the counters.                                        *)
LimitInv ==
  /\ bytesInFlight \in Nat /\ reqsInFlight \in Nat /\ nipa \in [Addresses -> Nat]
  /\ \A a \in Addresses : nipa[a] <= MaxBlocks
  /\ \A a \in Addresses \ {Local} : BlocksOut(a) <= MaxBlocks
  /\ External = {} /\ Running => /\ bytesInFlight <= MaxBytes \/ reqsInFlight <= 1
                                 /\ reqsInFlight <= MaxReqs

Flying    == RequestInv /\ ResultInv /\ CountInv /\ SizesInv
FlightInv == (Running => Flying) /\ LimitInv

(* One element more or less at an address.                                 *)
LEMMA CountMore ==
  ASSUME NEW S, IsFiniteSet(S), NEW x, x \notin S, NEW a
  PROVE  /\ Cardinality(At(S, a)) \in Nat
         /\ Cardinality(At(S \cup {x}, a)) = Cardinality(At(S, a)) + (IF x.addr = a THEN 1 ELSE 0)
<1>1. IsFiniteSet(At(S, a)) /\ x \notin At(S, a)
  <2>1. At(S, a) \in SUBSET S
    BY DEF At
  <2> QED BY <2>1, FS_Subset
<1>2. Cardinality(At(S, a)) \in Nat
  BY <1>1, FS_CardinalityType
<1>3. Cardinality(At(S, a) \cup {x}) = Cardinality(At(S, a)) + 1
  BY <1>1, FS_AddElement
<1>4. At(S \cup {x}, a) = IF x.addr = a THEN At(S, a) \cup {x} ELSE At(S, a)
  BY DEF At
<1> QED BY <1>2, <1>3, <1>4

(* The same the other way round.                                           *)
LEMMA CountLess ==
  ASSUME NEW S, IsFiniteSet(S), NEW x \in S, NEW a
  PROVE  /\ Cardinality(At(S, a)) \in Nat /\ Cardinality(At(S \ {x}, a)) \in Nat
         /\ Cardinality(At(S, a)) = Cardinality(At(S \ {x}, a)) + (IF x.addr = a THEN 1 ELSE 0)
<1>1. IsFiniteSet(S \ {x}) /\ x \notin S \ {x} /\ (S \ {x}) \cup {x} = S
  BY FS_RemoveElement
<1>2. /\ Cardinality(At(S \ {x}, a)) \in Nat
      /\ Cardinality(At(S, a)) = Cardinality(At(S \ {x}, a)) + (IF x.addr = a THEN 1 ELSE 0)
  BY <1>1, CountMore
<1> QED BY <1>2

(* The fetches of one request more.                                        *)
LEMMA CountSent ==
  ASSUME NEW S, IsFiniteSet(S), NEW L, IsFiniteSet(L), S \cap L = {},
         NEW addr, AllAt(L, addr), NEW a
  PROVE  /\ Cardinality(At(S, a)) \in Nat
         /\ Cardinality(At(S \cup L, a)) =
              Cardinality(At(S, a)) + (IF a = addr THEN Cardinality(L) ELSE 0)
<1>1. IsFiniteSet(At(S, a)) /\ At(S, a) \cap L = {}
  <2>1. At(S, a) \in SUBSET S
    BY DEF At
  <2> QED BY <2>1, FS_Subset
<1>2. Cardinality(At(S, a)) \in Nat /\ Cardinality(L) \in Nat
  BY <1>1, FS_CardinalityType
<1>3. Cardinality(At(S, a) \cup L) = Cardinality(At(S, a)) + Cardinality(L)
  <2>1. Cardinality(At(S, a) \cup L)
          = Cardinality(At(S, a)) + Cardinality(L) - Cardinality({})
    BY <1>1, FS_Union
  <2>2. Cardinality({}) = 0
    BY FS_EmptySet
  <2> QED BY <1>2, <2>1, <2>2
<1>4. At(S \cup L, a) = IF a = addr THEN At(S, a) \cup L ELSE At(S, a)
  BY DEF At, AllAt
<1> QED BY <1>2, <1>3, <1>4

(* An answer takes the place of its fetch.                                 *)
LEMMA SizeMoved ==
  ASSUME NEW S, Sized(S), NEW T, Sized(T), NEW c \in S, NEW r, r \notin T, r.size = c.size
  PROVE  SizeOf(S \ {c}) + SizeOf(T \cup {r}) = SizeOf(S) + SizeOf(T)
<1>1. c.size \in Nat /\ IsFiniteSet(S) /\ IsFiniteSet(T)
  BY DEF Sized
<1>2. Sized(S \ {c})
  BY FS_RemoveElement DEF Sized
<1>3. SizeOf(S) = c.size + SizeOf(S \ {c}) /\ SizeOf(T \cup {r}) = SizeOf(T) + c.size
  BY <1>1, SizeOfRemove, SizeOfAdd
<1>4. SizeOf(S \ {c}) \in Nat /\ SizeOf(T) \in Nat
  BY <1>2, SizeOfStep
<1> QED BY <1>1, <1>3, <1>4

(* The same for what is at an address.                                     *)
LEMMA CountMoved ==
  ASSUME NEW S, Sized(S), NEW T, Sized(T), NEW c \in S, NEW r, r \notin T, r.addr = c.addr, NEW a
  PROVE  Cardinality(At(S \ {c}, a)) + Cardinality(At(T \cup {r}, a))
           = Cardinality(At(S, a)) + Cardinality(At(T, a))
<1>1. IsFiniteSet(S) /\ IsFiniteSet(T)
  BY DEF Sized
<1>2. /\ Cardinality(At(S \ {c}, a)) \in Nat
      /\ Cardinality(At(S, a)) = Cardinality(At(S \ {c}, a)) + (IF c.addr = a THEN 1 ELSE 0)
  BY <1>1, CountLess
<1>3. /\ Cardinality(At(T, a)) \in Nat
      /\ Cardinality(At(T \cup {r}, a)) = Cardinality(At(T, a)) + (IF r.addr = a THEN 1 ELSE 0)
  BY <1>1, CountMore
<1> QED BY <1>2, <1>3

--------------------------------------------------------------------------------
(* What is out is finite and typed.                                        *)
LEMMA OutTypes ==
  ASSUME SharedType
  PROVE  /\ Sized(Unanswered) /\ Sized(Waiting)
         /\ \A c \in Unanswered : /\ c \in Calls /\ c \in calls /\ c.kind = "network"
                                  /\ c.req \in 1 .. Len(remaining)
         /\ \A r \in Waiting : r \in Results /\ r.kind = "network"
         /\ Len(remaining) \in Nat /\ remaining \in Seq(SUBSET ToFetch)
         /\ IsFiniteSet(OutReqs) /\ OutReqs \subseteq 1 .. Len(remaining)
<1>1. /\ \A c \in Unanswered : /\ c \in Calls /\ c \in calls /\ c.kind = "network"
                               /\ c.req \in 1 .. Len(remaining)
      /\ Len(remaining) \in Nat /\ remaining \in Seq(SUBSET ToFetch)
  BY DEF SharedType, Unanswered
<1>2. \A r \in Waiting : r \in Results /\ r.kind = "network"
  BY DEF SharedType, Waiting, ToSet
<1>3. Sized(Unanswered)
  <2>1. IsFiniteSet(Unanswered)
    <3>1. Unanswered \in SUBSET calls /\ IsFiniteSet(calls)
      BY DEF Unanswered, SharedType
    <3> QED BY <3>1, FS_Subset
  <2> QED BY <1>1, <2>1 DEF Sized, Calls
<1>4. Sized(Waiting)
  <2>1. results \in Seq(Results)
    BY DEF SharedType
  <2>2. IsFiniteSet(ToSet(results))
    <3>1. results \in Surjection(1 .. Len(results), ToSet(results))
      BY <2>1 DEF Surjection, ToSet
    <3>2. IsFiniteSet(1 .. Len(results))
      BY <2>1, FS_Interval
    <3> QED BY <3>1, <3>2, FS_Surjection
  <2>3. Waiting \in SUBSET ToSet(results)
    BY DEF Waiting
  <2>4. IsFiniteSet(Waiting)
    BY <2>2, <2>3, FS_Subset
  <2> QED BY <1>2, <2>4 DEF Sized, Results
<1>5. IsFiniteSet(OutReqs) /\ OutReqs \subseteq 1 .. Len(remaining)
  <2>1. OutReqs \in SUBSET (1 .. Len(remaining))
    BY DEF OutReqs
  <2>2. IsFiniteSet(1 .. Len(remaining))
    BY <1>1, FS_Interval
  <2> QED BY <2>1, <2>2, FS_Subset
<1> QED BY <1>1, <1>2, <1>3, <1>4, <1>5

(* The counters are naturals.                                              *)
LEMMA OutNaturals ==
  ASSUME SharedType
  PROVE  BytesOut \in Nat /\ ReqsOut \in Nat /\ \A a : BlocksOut(a) \in Nat
<1>1. SizeOf(Unanswered) \in Nat /\ SizeOf(Waiting) \in Nat
  BY OutTypes, SizeOfStep
<1>2. ReqsOut \in Nat
  BY OutTypes, FS_CardinalityType DEF ReqsOut, OutReqs
<1>3. ASSUME NEW a PROVE BlocksOut(a) \in Nat
  <2>1. At(Unanswered, a) \in SUBSET Unanswered /\ At(Waiting, a) \in SUBSET Waiting
    BY DEF At
  <2>2. IsFiniteSet(At(Unanswered, a)) /\ IsFiniteSet(At(Waiting, a))
    BY <2>1, OutTypes, FS_Subset DEF Sized
  <2>3. Cardinality(At(Unanswered, a)) \in Nat /\ Cardinality(At(Waiting, a)) \in Nat
    BY <2>2, FS_CardinalityType
  <2> QED BY <2>3 DEF BlocksOut, At
<1> QED BY <1>1, <1>2, <1>3 DEF BytesOut

(* The queue with a result more or less.                                   *)
LEMMA WaitingMore ==
  ASSUME SharedType, NEW r \in Results, results' = Append(results, r)
  PROVE  /\ Waiting' = IF r.kind = "network" THEN Waiting \cup {r} ELSE Waiting
         /\ \A k \in 1 .. Len(results') :
              \/ k \in 1 .. Len(results) /\ results'[k] = results[k]
              \/ results'[k] = r
<1>1. /\ Append(results, r) \in Seq(Results) /\ Len(results) \in Nat
      /\ Len(Append(results, r)) = Len(results) + 1
      /\ \A k \in 1 .. Len(results) : k \in 1 .. Len(results) + 1 /\ Append(results, r)[k] = results[k]
      /\ Append(results, r)[Len(results) + 1] = r
      /\ \A k \in 1 .. Len(results) + 1 : k \in 1 .. Len(results) \/ k = Len(results) + 1
  BY AppendFacts DEF SharedType
<1>2. ToSet(results') = ToSet(results) \cup {r}
  <2>1. DOMAIN results = 1 .. Len(results) /\ DOMAIN results' = 1 .. Len(results) + 1
    BY <1>1 DEF SharedType
  <2>2. Len(results) + 1 \in 1 .. Len(results) + 1
    BY <1>1
  <2>3. \A x : x \in ToSet(results') <=> x \in ToSet(results) \cup {r}
    BY <1>1, <2>1, <2>2 DEF ToSet
  <2> QED BY <2>3
<1>3. Waiting' = IF r.kind = "network" THEN Waiting \cup {r} ELSE Waiting
  BY <1>2 DEF Waiting
<1> QED BY <1>1, <1>3

(* The queue without its first result.                                     *)
LEMMA WaitingLess ==
  ASSUME SharedType, results # <<>>, results' = Tail(results)
  PROVE  /\ Waiting' \subseteq Waiting
         /\ DistinctIds(results) => Waiting' = Waiting \ {Head(results)}
         /\ Head(results) \in Results /\ 1 \in 1 .. Len(results) /\ Head(results) = results[1]
         /\ Head(results).kind = "network" => Head(results) \in Waiting
         /\ \A k \in 1 .. Len(results') : /\ k + 1 \in 1 .. Len(results)
                                          /\ results'[k] = results[k + 1]
<1>1. /\ Len(results) \in Nat /\ 1 \in 1 .. Len(results) /\ Head(results) = results[1]
      /\ Tail(results) \in Seq(Results) /\ Len(Tail(results)) = Len(results) - 1
      /\ Head(results) \in Results
      /\ \A k \in 1 .. Len(Tail(results)) : /\ k + 1 \in 1 .. Len(results) /\ k + 1 # 1
                                            /\ Tail(results)[k] = results[k + 1] /\ k \in Nat
  BY TailFacts DEF SharedType
<1>2. DOMAIN results = 1 .. Len(results) /\ DOMAIN results' = 1 .. Len(results')
  BY <1>1 DEF SharedType
<1>3. ToSet(results') \subseteq ToSet(results) /\ Head(results) \in ToSet(results)
  BY <1>1, <1>2 DEF ToSet
<1>4. ToSet(results) \subseteq ToSet(results') \cup {Head(results)}
  <2> SUFFICES ASSUME NEW k \in 1 .. Len(results), k # 1
               PROVE  results[k] \in ToSet(results')
    BY <1>1, <1>2 DEF ToSet
  <2>1. k - 1 \in 1 .. Len(results') /\ (k - 1) + 1 = k
    BY <1>1
  <2> QED BY <1>1, <1>2, <2>1 DEF ToSet
<1>5. DistinctIds(results) => Head(results) \notin ToSet(results')
  BY <1>1, <1>2 DEF ToSet, DistinctIds
<1>6. DistinctIds(results) => Waiting' = Waiting \ {Head(results)}
  <2>1. \A x : x \in ToSet(results') => x \in ToSet(results)
    BY <1>3
  <2> QED BY <1>4, <1>5, <2>1 DEF Waiting
<1> QED BY <1>1, <1>3, <1>6 DEF Waiting

--------------------------------------------------------------------------------
(* A request goes out.                                                     *)

(* Nothing changes in flight.                                              *)
LEMMA FlightKept ==
  ASSUME RequestInv, CountInv, UNCHANGED <<flight, remaining>>,
         Unanswered' = Unanswered, Waiting' = Waiting
  PROVE  RequestInv' /\ CountInv'
<1>1. bytesInFlight' = bytesInFlight /\ reqsInFlight' = reqsInFlight /\ nipa' = nipa
      /\ remaining' = remaining
  BY DEF flight
<1>2. RequestInv'
  BY <1>1 DEF RequestInv
<1>3. CountInv'
  BY <1>1 DEF CountInv, BytesOut, ReqsOut, BlocksOut
<1> QED BY <1>2, <1>3

(* The storage is asked first, for blocks it may have.                     *)
LEMMA NoHits == ASSUME External = {}, NEW r, NEW hits \in Hits(r) PROVE hits = {}
BY DEF Hits

(* What is out at each address once a request went out.                    *)
LEMMA SentBlocks ==
  ASSUME SharedType, NEW L, Sized(L), Unanswered \cap L = {}, NEW addr, AllAt(L, addr),
         Unanswered' = Unanswered \cup L, Waiting' = Waiting, NEW a
  PROVE  BlocksOut(a)' = BlocksOut(a) + (IF a = addr THEN Cardinality(L) ELSE 0)
<1>1. IsFiniteSet(Unanswered) /\ IsFiniteSet(L) /\ IsFiniteSet(Waiting)
  BY OutTypes DEF Sized
<1>2. /\ Cardinality(At(Unanswered, a)) \in Nat
      /\ Cardinality(At(Unanswered \cup L, a)) =
           Cardinality(At(Unanswered, a)) + (IF a = addr THEN Cardinality(L) ELSE 0)
  BY <1>1, CountSent
<1>3. BlocksOut(a) = Cardinality(At(Unanswered, a)) + Cardinality(At(Waiting, a))
  BY DEF BlocksOut, At
<1>4. BlocksOut(a)' = Cardinality(At(Unanswered \cup L, a)) + Cardinality(At(Waiting, a))
  BY DEF BlocksOut, At
<1>5. Cardinality(At(Waiting, a)) \in Nat /\ Cardinality(L) \in Nat
  <2>1. IsFiniteSet(At(Waiting, a))
    <3>1. At(Waiting, a) \in SUBSET Waiting
      BY DEF At
    <3> QED BY <1>1, <3>1, FS_Subset
  <2> QED BY <1>1, <2>1, FS_CardinalityType
<1> QED BY <1>2, <1>3, <1>4, <1>5

(* A request goes out and the counters follow.                             *)
LEMMA FlightSend ==
  ASSUME SharedType, FlightType, "split" \notin Faults, RequestInv, CountInv,
         NEW r \in Requests, Send(r), UNCHANGED results
  PROVE  RequestInv' /\ CountInv'
<1>1. PICK hits \in Hits(r) : \E K : \E L :
        /\ hits \in SUBSET r.blocks
        /\ Made(K, "storage", 0, Local, hits)
        /\ Made(L, "network", Len(remaining) + 1, r.addr, r.blocks \ hits)
        /\ calls' = calls \cup K \cup L
        /\ r.blocks \ hits = {} => L = {} /\ UNCHANGED <<flight, remaining>>
        /\ r.blocks \ hits # {} =>
             /\ remaining' = Append(remaining, IdsOf(r.blocks \ hits))
             /\ bytesInFlight' = bytesInFlight + SizeOf(r.blocks \ hits)
             /\ reqsInFlight' = reqsInFlight + 1
             /\ nipa' = [nipa EXCEPT ![r.addr] = @ + Cardinality(r.blocks)]
  BY SendExactly
<1> DEFINE rest == r.blocks \ hits
           n == Len(remaining)
<1>2. PICK K : \E L :
        /\ Made(K, "storage", 0, Local, hits)
        /\ Made(L, "network", n + 1, r.addr, rest)
        /\ calls' = calls \cup K \cup L
        /\ rest = {} => L = {} /\ UNCHANGED <<flight, remaining>>
        /\ rest # {} =>
             /\ remaining' = Append(remaining, IdsOf(rest))
             /\ bytesInFlight' = bytesInFlight + SizeOf(rest)
             /\ reqsInFlight' = reqsInFlight + 1
             /\ nipa' = [nipa EXCEPT ![r.addr] = @ + Cardinality(r.blocks)]
  BY <1>1
<1>3. PICK L :
        /\ Made(L, "network", n + 1, r.addr, rest)
        /\ calls' = calls \cup K \cup L
        /\ rest = {} => L = {} /\ UNCHANGED <<flight, remaining>>
        /\ rest # {} =>
             /\ remaining' = Append(remaining, IdsOf(rest))
             /\ bytesInFlight' = bytesInFlight + SizeOf(rest)
             /\ reqsInFlight' = reqsInFlight + 1
             /\ nipa' = [nipa EXCEPT ![r.addr] = @ + Cardinality(r.blocks)]
  BY <1>2
<1>4. Unanswered' = Unanswered \cup L /\ Waiting' = Waiting
  <2>1. \A c \in K : c.kind = "storage"
    BY <1>2 DEF Made
  <2>2. \A c \in L : c.kind = "network"
    BY <1>3 DEF Made
  <2> QED BY <1>3, <2>1, <2>2 DEF Unanswered, Waiting
<1>5. CASE rest = {}
  BY <1>3, <1>4, <1>5, FlightKept
<1>6. CASE rest # {}
  <2>0. /\ rest \in SUBSET r.blocks
        /\ External = {} => rest = r.blocks
    BY <1>1, NoHits
  <2>1. /\ Sized(rest) /\ Cardinality(rest) \in Nat /\ SizeOf(rest) \in Nat
        /\ IdsOf(rest) \in SUBSET ToFetch /\ IdsOf(rest) # {}
        /\ Cardinality(r.blocks) \in Nat /\ Cardinality(rest) <= Cardinality(r.blocks)
        /\ r.addr \in Addresses
    <3>1. Sized(rest) /\ Cardinality(rest) \in Nat /\ SizeOf(rest) \in Nat
          /\ IdsOf(rest) \in SUBSET ToFetch
      BY <2>0, PartOfRequest DEF IdsOf
    <3>2. IsFiniteSet(r.blocks) /\ Cardinality(r.blocks) \in Nat /\ r.addr \in Addresses
      BY PartOfRequest DEF Requests
    <3>3. Cardinality(rest) <= Cardinality(r.blocks)
      BY <2>0, <3>2, FS_Subset
    <3> HIDE DEF rest
    <3> QED BY <1>6, <3>1, <3>2, <3>3 DEF IdsOf
  <2> HIDE DEF rest
  <2>2. /\ Sized(Unanswered) /\ Sized(Waiting) /\ n \in Nat /\ remaining \in Seq(SUBSET ToFetch)
        /\ \A c \in Unanswered : c \in calls /\ c.req \in 1 .. n
        /\ IsFiniteSet(OutReqs) /\ OutReqs \subseteq 1 .. n
    BY OutTypes
  <2>3. /\ Len(remaining') = n + 1 /\ remaining'[n + 1] = IdsOf(rest)
        /\ \A i \in 1 .. n : i \in 1 .. n + 1 /\ remaining'[i] = remaining[i]
        /\ \A i \in 1 .. n + 1 : i \in 1 .. n \/ i = n + 1
        /\ n + 1 \in 1 .. n + 1 /\ n + 1 \notin 1 .. n
    <3>1. remaining' = Append(remaining, IdsOf(rest))
      BY <1>3, <1>6
    <3>2. n + 1 \in 1 .. n + 1 /\ n + 1 \notin 1 .. n
      BY <2>2
    <3> QED BY <2>1, <2>2, <3>1, <3>2, AppendFacts
  <2> HIDE DEF n
  <2>4. /\ \A c \in L : c.req = n + 1 /\ c.addr = r.addr /\ c.id \in IdsOf(rest)
        /\ \A x \in IdsOf(rest) : \E c \in L : c.id = x
        /\ Sized(L) /\ SizeOf(L) = SizeOf(rest) /\ Cardinality(L) = Cardinality(rest)
    <3>1. \A c \in L : \E b \in rest : b.id = c.id
      BY <1>3, MadeIds
    <3>2. /\ \A c \in L : c.req = n + 1 /\ c.addr = r.addr
          /\ \A b \in rest : \E c \in L : c.id = b.id
          /\ Sized(L) /\ SizeOf(L) = SizeOf(rest) /\ Cardinality(L) = Cardinality(rest)
      BY <1>3 DEF Made
    <3>3. \A c \in L : c.id \in IdsOf(rest)
      BY <3>1 DEF IdsOf
    <3>4. \A x \in IdsOf(rest) : \E c \in L : c.id = x
      BY <3>2 DEF IdsOf
    <3> QED BY <3>2, <3>3, <3>4
  <2>5. Unanswered \cap L = {}
    BY <2>2, <2>3, <2>4
  <2>6. RequestInv'
    <3>1. \A c \in Unanswered \cup L : c.id \in remaining'[c.req]
      BY <2>2, <2>3, <2>4 DEF RequestInv
    <3>2. \A w \in Waiting : /\ w.ok => w.req \in 1 .. Len(remaining') /\ w.addr # Local
                             /\ w.done => w.ok /\ remaining'[w.req] = {}
      BY <2>3 DEF RequestInv, n
    <3>3. ASSUME NEW i \in 1 .. Len(remaining'), NEW x \in remaining'[i]
          PROVE  \/ \E c \in Unanswered \cup L : c.req = i /\ c.id = x
                 \/ \E w \in Waiting : ~w.ok /\ w.req = i /\ w.id = x
      <4>1. CASE i \in 1 .. n
        BY <2>3, <3>3, <4>1 DEF RequestInv, n
      <4>2. CASE i = n + 1
        BY <2>3, <2>4, <3>3, <4>2
      <4> QED BY <2>3, <4>1, <4>2
    <3> QED BY <1>4, <3>1, <3>2, <3>3 DEF RequestInv
  <2>7. bytesInFlight' = BytesOut'
    <3>1. SizeOf(Unanswered \cup L) = SizeOf(Unanswered) + SizeOf(L)
      BY <2>2, <2>4, <2>5, SizeOfUnion
    <3>2. SizeOf(Unanswered) \in Nat /\ SizeOf(Waiting) \in Nat
      BY <2>2, SizeOfStep
    <3>3. bytesInFlight = SizeOf(Unanswered) + SizeOf(Waiting)
      BY DEF CountInv, BytesOut
    <3>4. bytesInFlight' = bytesInFlight + SizeOf(rest)
      BY <1>3, <1>6
    <3> QED BY <1>4, <2>1, <2>4, <3>1, <3>2, <3>3, <3>4 DEF BytesOut
  <2>8. reqsInFlight' = ReqsOut'
    <3>1. OutReqs' = OutReqs \cup {n + 1}
      <4>1. \A w \in Waiting : w.done /\ w.req = n + 1 => n + 1 \in OutReqs'
        BY <1>4, <2>3 DEF OutReqs
      <4>2. n + 1 \in OutReqs'
        BY <2>1, <2>3 DEF OutReqs
      <4>3. \A i \in 1 .. n : i \in OutReqs' <=> i \in OutReqs
        BY <1>4, <2>3 DEF OutReqs, n
      <4>4. \A i \in OutReqs' : i \in 1 .. n \/ i = n + 1
        BY <2>3 DEF OutReqs
      <4> QED BY <2>2, <4>2, <4>3, <4>4
    <3>2. n + 1 \notin OutReqs
      BY <2>2, <2>3
    <3>3. Cardinality(OutReqs') = Cardinality(OutReqs) + 1
      BY <2>2, <3>1, <3>2, FS_AddElement
    <3>4. reqsInFlight' = reqsInFlight + 1 /\ reqsInFlight = Cardinality(OutReqs)
      BY <1>3, <1>6 DEF CountInv, ReqsOut, OutReqs
    <3> QED BY <3>3, <3>4 DEF ReqsOut, OutReqs
  <2>9. ASSUME NEW a \in Addresses
        PROVE  /\ BlocksOut(a)' \in 0 .. nipa'[a]
               /\ External = {} => BlocksOut(a)' = nipa'[a]
    <3>1. BlocksOut(a)' = BlocksOut(a) + (IF a = r.addr THEN Cardinality(rest) ELSE 0)
      <4>1. Sized(L) /\ AllAt(L, r.addr)
        BY <2>4 DEF AllAt
      <4> QED BY <1>4, <2>4, <2>5, <4>1, SentBlocks
    <3>5. nipa'[a] = nipa[a] + (IF a = r.addr THEN Cardinality(r.blocks) ELSE 0)
          /\ nipa[a] \in Int
      <4>1. nipa' = [nipa EXCEPT ![r.addr] = @ + Cardinality(r.blocks)]
        BY <1>3, <1>6
      <4> QED BY <2>1, <4>1 DEF FlightType
    <3>6. BlocksOut(a) \in 0 .. nipa[a] /\ (External = {} => BlocksOut(a) = nipa[a])
      BY DEF CountInv
    <3>7. CASE a = r.addr
      BY <2>0, <2>1, <3>1, <3>5, <3>6, <3>7
    <3>8. CASE a # r.addr
      BY <3>1, <3>5, <3>6, <3>8
    <3> QED BY <3>7, <3>8
  <2> QED BY <2>6, <2>7, <2>8, <2>9 DEF CountInv
<1> QED BY <1>5, <1>6

(* What a request adds at most.                                            *)
LEMMA SendLimits ==
  ASSUME SharedType, FlightType, "split" \notin Faults, NEW r \in Requests, Send(r)
  PROVE  /\ bytesInFlight \in Nat => bytesInFlight' \in Nat
         /\ reqsInFlight \in Nat => reqsInFlight' \in Nat
         /\ Cardinality(r.blocks) \in Nat /\ r.addr \in Addresses /\ SizeOf(r.blocks) \in Nat
         /\ nipa' \in {nipa, [nipa EXCEPT ![r.addr] = @ + Cardinality(r.blocks)]}
         /\ External = {} => /\ bytesInFlight' = bytesInFlight + SizeOf(r.blocks)
                             /\ reqsInFlight' = reqsInFlight + 1
                             /\ \A c \in calls' \ calls :
                                  c.kind = "network" /\ \E b \in r.blocks : b.size = c.size
<1>1. PICK hits \in Hits(r) : \E K : \E L :
        /\ hits \in SUBSET r.blocks
        /\ Made(K, "storage", 0, Local, hits)
        /\ Made(L, "network", Len(remaining) + 1, r.addr, r.blocks \ hits)
        /\ calls' = calls \cup K \cup L
        /\ r.blocks \ hits = {} => L = {} /\ UNCHANGED <<flight, remaining>>
        /\ r.blocks \ hits # {} =>
             /\ remaining' = Append(remaining, IdsOf(r.blocks \ hits))
             /\ bytesInFlight' = bytesInFlight + SizeOf(r.blocks \ hits)
             /\ reqsInFlight' = reqsInFlight + 1
             /\ nipa' = [nipa EXCEPT ![r.addr] = @ + Cardinality(r.blocks)]
  BY SendExactly
<1>2. /\ SizeOf(r.blocks \ hits) \in Nat /\ Cardinality(r.blocks) \in Nat
      /\ r.addr \in Addresses /\ r.blocks # {} /\ SizeOf(r.blocks) \in Nat
  BY PartOfRequest DEF Requests
<1>3. /\ bytesInFlight \in Nat => bytesInFlight' \in Nat
      /\ reqsInFlight \in Nat => reqsInFlight' \in Nat
      /\ nipa' \in {nipa, [nipa EXCEPT ![r.addr] = @ + Cardinality(r.blocks)]}
  <2>1. CASE r.blocks \ hits = {}
    BY <1>1, <2>1 DEF flight
  <2>2. CASE r.blocks \ hits # {}
    BY <1>1, <1>2, <2>2
  <2> QED BY <2>1, <2>2
<1>4. ASSUME External = {}
      PROVE  /\ bytesInFlight' = bytesInFlight + SizeOf(r.blocks)
             /\ reqsInFlight' = reqsInFlight + 1
             /\ \A c \in calls' \ calls : c.kind = "network" /\ \E b \in r.blocks : b.size = c.size
  <2>1. hits = {} /\ r.blocks \ hits = r.blocks
    BY <1>4, NoHits
  <2>2. PICK K, L :
          /\ Made(K, "storage", 0, Local, hits)
          /\ Made(L, "network", Len(remaining) + 1, r.addr, r.blocks)
          /\ calls' = calls \cup K \cup L
    BY <1>1, <2>1
  <2>3. K = {}
    BY <2>1, <2>2 DEF Made
  <2>4. \A c \in L : c.kind = "network" /\ \E b \in r.blocks : b.id = c.id /\ b.size = c.size
    BY <2>2, MadeIds DEF Made
  <2>5. bytesInFlight' = bytesInFlight + SizeOf(r.blocks) /\ reqsInFlight' = reqsInFlight + 1
    BY <1>1, <1>2, <2>1
  <2> QED BY <2>2, <2>3, <2>4, <2>5
<1> QED BY <1>2, <1>3, <1>4

--------------------------------------------------------------------------------
(* An answer comes in.                                                     *)

(* An answer to a network fetch comes in.                                  *)
LEMMA FlightAnswered ==
  ASSUME SharedType, RequestInv, CountInv, NEW c \in Unanswered, NEW r, r \notin Waiting,
         Unanswered' = Unanswered \ {c}, Waiting' = Waiting \cup {r},
         r.size = c.size, r.addr = c.addr, r.req = c.req, r.id = c.id, UNCHANGED flight,
         Len(remaining') = Len(remaining),
         \A i \in 1 .. Len(remaining) : i # c.req => remaining'[i] = remaining[i],
         \/ /\ r.ok /\ c.addr # Local
            /\ remaining'[c.req] = remaining[c.req] \ {c.id}
            /\ r.done <=> remaining'[c.req] = {}
         \/ ~r.ok /\ ~r.done /\ remaining'[c.req] = remaining[c.req],
         \A d \in Unanswered : d.id = c.id => d = c
  PROVE  RequestInv' /\ CountInv'
<1>1. /\ Sized(Unanswered) /\ Sized(Waiting) /\ c.req \in 1 .. Len(remaining)
      /\ c.id \in remaining[c.req]
      /\ \A d \in Unanswered : d.req \in 1 .. Len(remaining) /\ d.id \in remaining[d.req]
      /\ OutReqs \subseteq 1 .. Len(remaining)
  BY OutTypes DEF RequestInv
<1>2. \A q \in Waiting : /\ q.ok => q.req \in 1 .. Len(remaining) /\ q.addr # Local
                         /\ q.done => q.ok /\ remaining[q.req] = {}
  BY DEF RequestInv
<1>3. \A q \in Waiting : q.done => q.req # c.req
  BY <1>1, <1>2
<1>4. RequestInv'
  <2>1. \A d \in Unanswered' : d.id \in remaining'[d.req]
    BY <1>1
  <2>2. \A q \in Waiting' : /\ q.ok => q.req \in 1 .. Len(remaining') /\ q.addr # Local
                            /\ q.done => q.ok /\ remaining'[q.req] = {}
    <3>1. ASSUME NEW q \in Waiting
          PROVE  /\ q.ok => q.req \in 1 .. Len(remaining') /\ q.addr # Local
                 /\ q.done => q.ok /\ remaining'[q.req] = {}
      BY <1>2, <1>3
    <3>2. /\ r.ok => r.req \in 1 .. Len(remaining') /\ r.addr # Local
          /\ r.done => r.ok /\ remaining'[r.req] = {}
      BY <1>1
    <3> QED BY <3>1, <3>2
  <2>3. \A p, q \in Waiting' : p.done /\ q.done /\ p.req = q.req => p = q
    BY <1>3 DEF RequestInv
  <2>4. ASSUME NEW i \in 1 .. Len(remaining'), NEW x \in remaining'[i]
        PROVE  \/ \E d \in Unanswered' : d.req = i /\ d.id = x
               \/ \E q \in Waiting' : ~q.ok /\ q.req = i /\ q.id = x
    <3>1. x \in remaining[i]
      BY <2>4
    <3>2. CASE \E q \in Waiting : ~q.ok /\ q.req = i /\ q.id = x
      BY <3>2
    <3>3. CASE \E d \in Unanswered : d.req = i /\ d.id = x
      <4>1. PICK d \in Unanswered : d.req = i /\ d.id = x
        BY <3>3
      <4>2. CASE d # c
        BY <4>1, <4>2
      <4>3. CASE d = c
        BY <2>4, <4>1, <4>3
      <4> QED BY <4>2, <4>3
    <3> QED BY <3>1, <3>2, <3>3 DEF RequestInv
  <2> QED BY <2>1, <2>2, <2>3, <2>4 DEF RequestInv
<1>5. CountInv'
  <2>1. r.size = c.size /\ r.addr = c.addr /\ r \notin Waiting
    OBVIOUS
  <2>2. BytesOut' = BytesOut
    <3>1. SizeOf(Unanswered \ {c}) + SizeOf(Waiting \cup {r}) = SizeOf(Unanswered) + SizeOf(Waiting)
      BY <1>1, <2>1, SizeMoved
    <3> QED BY <3>1 DEF BytesOut
  <2>3. ASSUME NEW a PROVE BlocksOut(a)' = BlocksOut(a)
    <3>1. Cardinality(At(Unanswered \ {c}, a)) + Cardinality(At(Waiting \cup {r}, a))
            = Cardinality(At(Unanswered, a)) + Cardinality(At(Waiting, a))
      BY <1>1, <2>1, CountMoved
    <3> QED BY <3>1 DEF BlocksOut, At
  <2>4. OutReqs' = OutReqs
    <3>1. ASSUME NEW i \in 1 .. Len(remaining), i # c.req
          PROVE  i \in OutReqs' <=> i \in OutReqs
      BY <3>1 DEF OutReqs
    <3>2. c.req \in OutReqs /\ c.req \in OutReqs'
      BY <1>1 DEF OutReqs
    <3>3. OutReqs' \subseteq 1 .. Len(remaining)
      BY DEF OutReqs
    <3>4. \A i : i \in OutReqs' <=> i \in OutReqs
      BY <1>1, <3>1, <3>2, <3>3
    <3> QED BY <3>4
  <2>5. ReqsOut' = ReqsOut
    BY <2>4 DEF ReqsOut, OutReqs
  <2> QED BY <2>2, <2>3, <2>5 DEF CountInv, flight
<1> QED BY <1>4, <1>5

(* The callbacks.                                                          *)
LEMMA FlightCallback ==
  ASSUME TypeInv, BlockInv, Running, Flying, Callback
  PROVE  Flying' /\ UNCHANGED flight
<1> USE DEF taskQueues, loops, caller, shared
<1>1. /\ SharedType /\ RequestInv /\ ResultInv /\ CountInv /\ SizesInv /\ Disjoint(Ids) /\ Apart
      /\ ~isZombie
  BY BlockTypes DEF TypeInv, Flying, BlockInv
<1>2. PICK c \in calls :
        /\ NetworkSuccess(c) \/ StorageSuccess(c) \/ FetchFails(c)
        /\ calls' = calls \ {c}
        /\ UNCHANGED <<fetchRequests, deferred, flight>>
  BY DEF Callback
<1>3. c \in Calls /\ Len(remaining) \in Nat /\ remaining \in Seq(SUBSET ToFetch)
  BY <1>1, OutTypes DEF SharedType
<1>4. \A q \in Waiting : q.id # c.id
  <2>1. Ids["call"] \cap Ids["result"] = {}
    BY <1>1 DEF Disjoint, Places
  <2>2. c.id \in Ids["call"]
    BY <1>2 DEF Ids, IdsOf
  <2>3. c.id \notin IdsIn(results)
    BY <2>1, <2>2 DEF Ids
  <2>4. DOMAIN results = 1 .. Len(results)
    BY <1>1 DEF SharedType
  <2> QED BY <2>3, <2>4 DEF IdsIn, Waiting, ToSet
<1>5. \A d \in Unanswered : d.id = c.id => d = c
  BY <1>1, <1>2 DEF Apart, Unanswered
<1>6. Unanswered' = Unanswered \ {c}
  BY <1>2 DEF Unanswered
<1>7. ASSUME NEW r \in Results, results' = Append(results, r), r.kind = c.kind,
             r.kind # "network" /\ r.ok => r.size = 0 /\ r.addr = Local /\ ~r.done,
             r.kind = "network" => r.size = c.size
      PROVE  /\ ResultInv' /\ SizesInv'
             /\ Waiting' = IF r.kind = "network" THEN Waiting \cup {r} ELSE Waiting
  <2>1. /\ Waiting' = IF r.kind = "network" THEN Waiting \cup {r} ELSE Waiting
        /\ \A k \in 1 .. Len(results') :
             \/ k \in 1 .. Len(results) /\ results'[k] = results[k]
             \/ results'[k] = r
    BY <1>1, <1>7, WaitingMore
  <2>2. ResultInv'
    BY <1>1, <1>7, <2>1 DEF ResultInv
  <2>3. SizesInv'
    <3>1. SUFFICES ASSUME External = {} PROVE SizesInv'
      BY DEF SizesInv
    <3>2. c.kind = "network" /\ c.size # 0
      BY <1>1, <1>2, <3>1 DEF SizesInv
    <3>3. \A k \in 1 .. Len(results') : /\ results'[k].kind # "storage"
                                        /\ results'[k].kind = "network" => results'[k].size # 0
      BY <1>1, <1>7, <2>1, <3>1, <3>2 DEF SizesInv
    <3>4. fetchRequests' = fetchRequests /\ deferred' = deferred /\ calls' \subseteq calls
      BY <1>2
    <3> QED BY <1>1, <3>1, <3>3, <3>4 DEF SizesInv
  <2> QED BY <2>1, <2>2, <2>3
<1>8. CASE NetworkSuccess(c)
  <2> DEFINE left == remaining[c.req] \ {c.id}
             r == Success(c.id, c.addr, c.size, c.num, c.req, left = {}, "network")
  <2>1. c.kind = "network" /\ c.addr # Local /\ results' = Append(results, r)
        /\ remaining' = [remaining EXCEPT ![c.req] = left]
    BY <1>1, <1>8 DEF NetworkSuccess
  <2>2. r \in Results
    BY <1>3, ResultTypes
  <2>3. /\ r.ok /\ r.id = c.id /\ r.addr = c.addr /\ r.size = c.size /\ r.req = c.req
        /\ r.kind = "network" /\ (r.done <=> left = {})
    BY DEF Success
  <2> HIDE DEF r
  <2>4. /\ ResultInv' /\ SizesInv' /\ Waiting' = Waiting \cup {r}
    BY <1>7, <2>1, <2>2, <2>3
  <2>5. c \in Unanswered /\ c.req \in 1 .. Len(remaining)
    BY <1>1, <1>2, <2>1 DEF Unanswered, SharedType
  <2>6. /\ Len(remaining') = Len(remaining) /\ remaining'[c.req] = left
        /\ \A i \in 1 .. Len(remaining) : i # c.req => remaining'[i] = remaining[i]
    BY <1>3, <2>1, <2>5
  <2>7. r \notin Waiting
    BY <1>4, <2>3
  <2>8. RequestInv' /\ CountInv'
    BY <1>1, <1>2, <1>5, <1>6, <2>1, <2>3, <2>4, <2>5, <2>6, <2>7, FlightAnswered
  <2> QED BY <1>2, <2>4, <2>8 DEF Flying
<1>9. CASE StorageSuccess(c)
  <2> DEFINE r == Success(c.id, Local, 0, 0, 0, FALSE, "storage")
  <2>1. c.kind = "storage" /\ results' = Append(results, r) /\ remaining' = remaining
    BY <1>9 DEF StorageSuccess
  <2>2. r \in Results
    BY <1>3, ResultTypes
  <2>3. r.kind = "storage" /\ r.size = 0 /\ r.addr = Local /\ ~r.done
    BY DEF Success
  <2> HIDE DEF r
  <2>4. ResultInv' /\ SizesInv' /\ Waiting' = Waiting
    BY <1>7, <2>1, <2>2, <2>3
  <2>5. Unanswered' = Unanswered
    BY <1>6, <2>1 DEF Unanswered
  <2>6. RequestInv' /\ CountInv'
    BY <1>1, <1>2, <2>1, <2>4, <2>5, FlightKept
  <2> QED BY <1>2, <2>4, <2>6 DEF Flying
<1>10. CASE FetchFails(c)
  <2> DEFINE r == Failure(c.id, c.addr, c.size, c.req, c.kind)
  <2>1. results' = Append(results, r) /\ remaining' = remaining
    BY <1>10 DEF FetchFails
  <2>2. r \in Results
    BY <1>3, ResultTypes
  <2>3. /\ ~r.ok /\ r.id = c.id /\ r.addr = c.addr /\ r.size = c.size /\ r.req = c.req
        /\ r.kind = c.kind /\ ~r.done
    BY DEF Failure
  <2> HIDE DEF r
  <2>4. /\ ResultInv' /\ SizesInv'
        /\ Waiting' = IF r.kind = "network" THEN Waiting \cup {r} ELSE Waiting
    BY <1>7, <2>1, <2>2, <2>3
  <2>5. CASE c.kind = "network"
    <3>1. c \in Unanswered
      BY <1>2, <2>5 DEF Unanswered
    <3>2. r \notin Waiting
      BY <1>4, <2>3
    <3>3. Waiting' = Waiting \cup {r}
      BY <2>3, <2>4, <2>5
    <3>4. RequestInv' /\ CountInv'
      BY <1>1, <1>2, <1>5, <1>6, <2>1, <2>3, <3>1, <3>2, <3>3, FlightAnswered
    <3> QED BY <1>2, <2>4, <3>4 DEF Flying
  <2>6. CASE c.kind # "network"
    <3>1. Unanswered' = Unanswered /\ Waiting' = Waiting
      BY <1>6, <2>3, <2>4, <2>6 DEF Unanswered
    <3>2. RequestInv' /\ CountInv'
      BY <1>1, <1>2, <2>1, <3>1, FlightKept
    <3> QED BY <1>2, <2>4, <3>2 DEF Flying
  <2> QED BY <2>5, <2>6
<1> QED BY <1>2, <1>8, <1>9, <1>10

--------------------------------------------------------------------------------
(* A result is taken.                                                      *)

(* The counters cover each result that waits.                              *)
LEMMA WaitingCounted ==
  ASSUME SharedType, FlightType, RequestInv, CountInv, NEW r \in Waiting, r.ok
  PROVE  /\ bytesInFlight - r.size \in Nat
         /\ r.done => reqsInFlight - 1 \in Nat /\ r.req \in OutReqs
         /\ r.addr \in Addresses /\ r.addr # Local /\ nipa[r.addr] - 1 \in Nat
<1>1. /\ Sized(Unanswered) /\ Sized(Waiting) /\ IsFiniteSet(OutReqs) /\ r \in Results
      /\ IsFiniteSet(Waiting) /\ IsFiniteSet(Unanswered)
  BY OutTypes DEF Sized
<1>2. r.size \in Nat /\ r.addr \in Addresses
  BY <1>1 DEF Results
<1>3. bytesInFlight - r.size \in Nat
  <2>1. SizeOf(Unanswered) \in Nat /\ SizeOf(Waiting) \in Nat
    BY <1>1, SizeOfStep
  <2>2. SizeOf(Waiting) >= r.size
    BY <1>1, SizeOfPositive
  <2>3. bytesInFlight = SizeOf(Unanswered) + SizeOf(Waiting)
    BY DEF CountInv, BytesOut
  <2> QED BY <1>2, <2>1, <2>2, <2>3
<1>4. ASSUME r.done PROVE reqsInFlight - 1 \in Nat /\ r.req \in OutReqs
  <2>1. r.req \in OutReqs
    BY <1>4 DEF RequestInv, OutReqs
  <2>2. /\ IsFiniteSet(OutReqs \ {r.req})
        /\ Cardinality(OutReqs \ {r.req}) = Cardinality(OutReqs) - 1
    BY <1>1, <2>1, FS_RemoveElement
  <2>3. Cardinality(OutReqs \ {r.req}) \in Nat
    BY <2>2, FS_CardinalityType
  <2>4. reqsInFlight = Cardinality(OutReqs)
    BY DEF CountInv, ReqsOut, OutReqs
  <2> QED BY <2>1, <2>2, <2>3, <2>4
<1>5. nipa[r.addr] - 1 \in Nat
  <2> DEFINE a == r.addr
  <2>0. r.addr = a /\ a \in Addresses
    BY <1>2
  <2> HIDE DEF a
  <2>1. /\ Cardinality(At(Waiting \ {r}, a)) \in Nat
        /\ Cardinality(At(Waiting, a)) = Cardinality(At(Waiting \ {r}, a)) + (IF r.addr = a THEN 1 ELSE 0)
    BY <1>1, CountLess
  <2>2. Cardinality(At(Unanswered, a)) \in Nat
    <3>1. At(Unanswered, a) \in SUBSET Unanswered
      BY DEF At
    <3>2. IsFiniteSet(At(Unanswered, a))
      BY <1>1, <3>1, FS_Subset
    <3> QED BY <3>2, FS_CardinalityType
  <2>3. BlocksOut(a) = Cardinality(At(Unanswered, a)) + Cardinality(At(Waiting, a))
    BY DEF BlocksOut, At
  <2>4. BlocksOut(a) \in 0 .. nipa[a]
    BY <2>0 DEF CountInv
  <2>5. nipa[a] \in Int
    BY <2>0 DEF FlightType
  <2> QED BY <2>0, <2>1, <2>2, <2>3, <2>4, <2>5
<1> QED BY <1>2, <1>3, <1>4, <1>5 DEF RequestInv

(* A result that is taken is no longer out.                                *)
LEMMA FlightTaken ==
  ASSUME SharedType, FlightType, RequestInv, CountInv, NEW r \in Waiting, r.ok,
         Waiting' = Waiting \ {r}, Unanswered' = Unanswered, UNCHANGED remaining, Account(r)
  PROVE  RequestInv' /\ CountInv'
<1>1. /\ Sized(Unanswered) /\ Sized(Waiting) /\ IsFiniteSet(OutReqs) /\ r \in Results
      /\ IsFiniteSet(Waiting) /\ IsFiniteSet(Unanswered) /\ OutReqs \subseteq 1 .. Len(remaining)
  BY OutTypes DEF Sized
<1>2. r.size \in Nat /\ r.addr \in Addresses /\ r.addr # Local
  BY <1>1 DEF Results, RequestInv
<1>3. RequestInv'
  BY DEF RequestInv
<1>4. bytesInFlight' = BytesOut'
  <2>1. SizeOf(Waiting) = r.size + SizeOf(Waiting \ {r})
    BY <1>1, SizeOfRemove
  <2>2. SizeOf(Unanswered) \in Nat /\ SizeOf(Waiting) \in Nat /\ SizeOf(Waiting \ {r}) \in Nat
    <3>1. Sized(Waiting \ {r})
      BY <1>1, FS_RemoveElement DEF Sized
    <3> QED BY <1>1, <3>1, SizeOfStep
  <2>3. bytesInFlight = SizeOf(Unanswered) + SizeOf(Waiting) /\ bytesInFlight' = bytesInFlight - r.size
    BY DEF CountInv, BytesOut, Account
  <2> QED BY <1>2, <2>1, <2>2, <2>3 DEF BytesOut
<1>5. reqsInFlight' = ReqsOut'
  <2>1. CASE r.done
    <3>1. r.req \in OutReqs
      BY <2>1, WaitingCounted
    <3>2. OutReqs' = OutReqs \ {r.req}
      <4>1. remaining[r.req] = {}
        BY <2>1 DEF RequestInv
      <4>2. r.req \notin OutReqs'
        BY <2>1, <4>1 DEF OutReqs, RequestInv
      <4>3. ASSUME NEW i \in 1 .. Len(remaining), i # r.req PROVE i \in OutReqs' <=> i \in OutReqs
        BY <4>3 DEF OutReqs
      <4>4. OutReqs' \subseteq 1 .. Len(remaining)
        BY DEF OutReqs
      <4>5. \A i : i \in OutReqs' <=> i \in OutReqs /\ i # r.req
        BY <1>1, <4>2, <4>3, <4>4
      <4> QED BY <4>5
    <3>3. Cardinality(OutReqs') = Cardinality(OutReqs) - 1
      BY <1>1, <3>1, <3>2, FS_RemoveElement
    <3> QED BY <2>1, <3>3 DEF CountInv, ReqsOut, OutReqs, Account
  <2>2. CASE ~r.done
    <3>1. OutReqs' = OutReqs
      BY <2>2 DEF OutReqs
    <3> QED BY <2>2, <3>1 DEF CountInv, ReqsOut, OutReqs, Account
  <2> QED BY <2>1, <2>2
<1>6. ASSUME NEW a \in Addresses
      PROVE  /\ BlocksOut(a)' \in 0 .. nipa'[a]
             /\ External = {} => BlocksOut(a)' = nipa'[a]
  <2>1. /\ Cardinality(At(Waiting \ {r}, a)) \in Nat
        /\ Cardinality(At(Waiting, a)) = Cardinality(At(Waiting \ {r}, a)) + (IF r.addr = a THEN 1 ELSE 0)
    BY <1>1, CountLess
  <2>2. Cardinality(At(Unanswered, a)) \in Nat
    <3>1. At(Unanswered, a) \in SUBSET Unanswered
      BY DEF At
    <3>2. IsFiniteSet(At(Unanswered, a))
      BY <1>1, <3>1, FS_Subset
    <3> QED BY <3>2, FS_CardinalityType
  <2>3. /\ BlocksOut(a) = Cardinality(At(Unanswered, a)) + Cardinality(At(Waiting, a))
        /\ BlocksOut(a)' = Cardinality(At(Unanswered, a)) + Cardinality(At(Waiting \ {r}, a))
    BY DEF BlocksOut, At
  <2>4. BlocksOut(a) \in 0 .. nipa[a] /\ (External = {} => BlocksOut(a) = nipa[a]) /\ nipa[a] \in Int
    BY DEF CountInv, FlightType
  <2>5. nipa'[a] = nipa[a] - (IF r.addr = a THEN 1 ELSE 0)
    BY <1>2 DEF Account, FlightType
  <2>6. CASE r.addr = a
    BY <2>1, <2>2, <2>3, <2>4, <2>5, <2>6
  <2>7. CASE r.addr # a
    BY <2>1, <2>2, <2>3, <2>4, <2>5, <2>7
  <2> QED BY <2>6, <2>7
<1> QED BY <1>3, <1>4, <1>5, <1>6 DEF CountInv

(* next when it takes a result.                                            *)
LEMMA FlightTake ==
  ASSUME TypeInv, BlockInv, Flying, TakeSuccess
  PROVE  /\ Flying'
         /\ bytesInFlight' \in Nat /\ bytesInFlight' <= bytesInFlight
         /\ reqsInFlight' \in Nat /\ reqsInFlight' <= reqsInFlight
         /\ nipa \in [Addresses -> Nat] => nipa' \in [Addresses -> Nat]
         /\ \A a \in Addresses : nipa'[a] <= nipa[a]
<1> USE DEF caller, taskQueues
<1> DEFINE r == Head(results)
           q == [addr |-> r.addr, blocks |-> {[id |-> r.id, size |-> r.size]}]
<1>1. /\ results # <<>> /\ results' = Tail(results) /\ pc = "take" /\ r.ok /\ Account(r)
      /\ UNCHANGED <<deferred, remaining, calls>>
  BY DEF TakeSuccess
<1>2. /\ SharedType /\ FlightType /\ RequestInv /\ ResultInv /\ CountInv /\ SizesInv /\ Apart
      /\ fetchRequests \in Seq(Requests)
  BY <1>1, BlockTypes DEF TypeInv, Flying, BlockInv, Running
<1>3. /\ Waiting' = Waiting \ {r} /\ r \in Results /\ 1 \in 1 .. Len(results) /\ r = results[1]
      /\ r.kind = "network" => r \in Waiting
      /\ \A k \in 1 .. Len(results') : k + 1 \in 1 .. Len(results) /\ results'[k] = results[k + 1]
  BY <1>1, <1>2, WaitingLess DEF Apart
<1>4. TakeGood(r) \/ TakeCorrupt(r) \/ UNCHANGED fetchRequests
  BY DEF TakeSuccess, TakeCorruptAgain, StreamThrows, WrapThrows
<1>5. Unanswered' = Unanswered
  BY <1>1 DEF Unanswered
<1>6. q \in Requests
  BY <1>3, RetryRequest
<1>7. UNCHANGED fetchRequests \/ (r.kind # "local" /\ fetchRequests' = Append(fetchRequests, q))
  BY <1>4 DEF TakeGood, TakeCorrupt
<1> DEFINE s == q.blocks
<1>8. \A b \in s : b.size = r.size
  OBVIOUS
<1> HIDE DEF r, q
<1>9. bytesInFlight \in Int /\ reqsInFlight \in Int /\ nipa \in [Addresses -> Int]
  BY <1>2 DEF FlightType
<1>10. ResultInv'
  BY <1>2, <1>3 DEF ResultInv
<1>11. SizesInv'
  <2> SUFFICES ASSUME External = {} PROVE SizesInv'
    BY DEF SizesInv
  <2>1. r.kind # "storage" /\ (r.kind = "network" => r.size # 0)
    BY <1>2, <1>3 DEF SizesInv
  <2>2. ASSUME NEW k \in 1 .. Len(fetchRequests'), NEW b \in fetchRequests'[k].blocks
        PROVE  b.size # 0
    <3>1. CASE UNCHANGED fetchRequests
      BY <1>2, <2>2, <3>1 DEF SizesInv
    <3>2. CASE r.kind # "local" /\ fetchRequests' = Append(fetchRequests, q)
      <4>1. \/ k \in 1 .. Len(fetchRequests) /\ fetchRequests'[k] = fetchRequests[k]
            \/ fetchRequests'[k] = q
        BY <1>2, <1>6, <3>2, AppendFacts
      <4>2. r.kind = "network"
        BY <1>3, <2>1, <3>2 DEF Results
      <4> QED BY <1>2, <1>8, <2>1, <2>2, <4>1, <4>2 DEF SizesInv
    <3> QED BY <1>7, <3>1, <3>2
  <2>3. \A k \in 1 .. Len(results') : /\ results'[k].kind # "storage"
                                      /\ results'[k].kind = "network" => results'[k].size # 0
    BY <1>2, <1>3 DEF SizesInv
  <2> QED BY <1>1, <1>2, <2>2, <2>3 DEF SizesInv
<1>12. CASE r.kind = "network"
  <2>1. r \in Waiting
    BY <1>3, <1>12
  <2>2. RequestInv' /\ CountInv'
    BY <1>1, <1>2, <1>3, <1>5, <2>1, FlightTaken
  <2>3. /\ bytesInFlight - r.size \in Nat /\ r.size \in Nat
        /\ r.done => reqsInFlight - 1 \in Nat
        /\ r.addr \in Addresses /\ r.addr # Local /\ nipa[r.addr] - 1 \in Nat
        /\ reqsInFlight \in Nat
    BY <1>1, <1>2, <1>3, <2>1, WaitingCounted, OutNaturals DEF Results, CountInv
  <2>4. /\ nipa' = [nipa EXCEPT ![r.addr] = @ - 1]
        /\ bytesInFlight' = bytesInFlight - r.size
        /\ reqsInFlight' = IF r.done THEN reqsInFlight - 1 ELSE reqsInFlight
    BY <1>1, <2>3 DEF Account
  <2> QED BY <1>9, <1>10, <1>11, <2>2, <2>3, <2>4 DEF Flying
<1>13. CASE r.kind # "network"
  <2>1. r.size = 0 /\ r.addr = Local /\ ~r.done
    BY <1>1, <1>2, <1>3, <1>13 DEF ResultInv
  <2>2. bytesInFlight' = bytesInFlight /\ reqsInFlight' = reqsInFlight /\ nipa' = nipa
    BY <1>1, <1>9, <2>1 DEF Account
  <2>3. Waiting' = Waiting
    BY <1>2, <1>3, <1>13, OutTypes
  <2>4. RequestInv' /\ CountInv'
    BY <1>1, <1>2, <1>5, <2>2, <2>3, FlightKept DEF flight
  <2>5. bytesInFlight \in Nat /\ reqsInFlight \in Nat
    BY <1>2, OutNaturals DEF CountInv
  <2> QED BY <1>9, <1>10, <1>11, <2>2, <2>4, <2>5 DEF Flying
<1> QED BY <1>12, <1>13

--------------------------------------------------------------------------------
(* The limits.                                                             *)

(* No bytes in flight, nothing in flight, if every block has a size.       *)
LEMMA NothingOut ==
  ASSUME SharedType, RequestInv, CountInv, SizesInv, External = {}, bytesInFlight = 0
  PROVE  reqsInFlight = 0
<1>1. /\ Sized(Unanswered) /\ Sized(Waiting)
      /\ SizeOf(Unanswered) \in Nat /\ SizeOf(Waiting) \in Nat
      /\ \A c \in Unanswered : c \in calls /\ c.size \in Nat
      /\ \A r \in Waiting : r.kind = "network" /\ r.size \in Nat
  BY OutTypes, SizeOfStep DEF Sized
<1>2. bytesInFlight = SizeOf(Unanswered) + SizeOf(Waiting)
  BY DEF CountInv, BytesOut
<1>3. SizeOf(Unanswered) = 0 /\ SizeOf(Waiting) = 0
  BY <1>1, <1>2
<1>4. Unanswered = {}
  <2> SUFFICES ASSUME NEW c \in Unanswered PROVE FALSE
    OBVIOUS
  <2>1. SizeOf(Unanswered) >= c.size
    BY <1>1, SizeOfPositive
  <2>2. c.size # 0
    BY <1>1 DEF SizesInv
  <2> QED BY <1>1, <1>3, <2>1, <2>2
<1>5. Waiting = {}
  <2> SUFFICES ASSUME NEW r \in Waiting PROVE FALSE
    OBVIOUS
  <2>1. SizeOf(Waiting) >= r.size
    BY <1>1, SizeOfPositive
  <2>2. r.size # 0
    <3>1. DOMAIN results = 1 .. Len(results)
      BY DEF SharedType
    <3>2. PICK k \in 1 .. Len(results) : r = results[k]
      BY <3>1 DEF Waiting, ToSet
    <3> QED BY <1>1, <3>2 DEF SizesInv
  <2> QED BY <1>1, <1>3, <2>1, <2>2
<1>6. OutReqs = {}
  BY <1>4, <1>5 DEF OutReqs, RequestInv
<1> QED BY <1>6, FS_EmptySet DEF CountInv, ReqsOut, OutReqs

(* The limits from the counters.                                           *)
LEMMA LimitNext ==
  ASSUME CountInv', bytesInFlight' \in Nat, reqsInFlight' \in Nat, nipa' \in [Addresses -> Nat],
         \A a \in Addresses : nipa'[a] <= MaxBlocks,
         External = {} /\ Running' => /\ bytesInFlight' <= MaxBytes \/ reqsInFlight' <= 1
                                      /\ reqsInFlight' <= MaxReqs
  PROVE  LimitInv'
<1>1. ASSUME NEW a \in Addresses PROVE BlocksOut(a)' <= MaxBlocks
  <2>1. BlocksOut(a)' \in 0 .. nipa'[a] /\ nipa'[a] \in Nat /\ nipa'[a] <= MaxBlocks
    BY DEF CountInv
  <2>2. MaxBlocks \in Nat
    BY LimitAssumption
  <2> QED BY <2>1, <2>2
<1> QED BY <1>1 DEF LimitInv

(* The limits when no counter changes and no address has more out.         *)
LEMMA LimitLess ==
  ASSUME SharedType, LimitInv, UNCHANGED flight, Running' => Running,
         \A a \in Addresses \ {Local} : BlocksOut(a)' \in 0 .. BlocksOut(a)
  PROVE  LimitInv'
<1>1. ASSUME NEW a \in Addresses \ {Local} PROVE BlocksOut(a)' <= MaxBlocks
  <2>1. BlocksOut(a)' \in 0 .. BlocksOut(a) /\ BlocksOut(a) \in Nat /\ BlocksOut(a) <= MaxBlocks
    BY OutNaturals DEF LimitInv
  <2>2. MaxBlocks \in Nat
    BY LimitAssumption
  <2> QED BY <2>1, <2>2
<1>2. bytesInFlight' = bytesInFlight /\ reqsInFlight' = reqsInFlight /\ nipa' = nipa
  BY DEF flight
<1> QED BY <1>1, <1>2 DEF LimitInv

(* The limits when nothing in flight changes.                              *)
LEMMA LimitFrame ==
  ASSUME SharedType, LimitInv, UNCHANGED flight, Running' => Running,
         Unanswered' = Unanswered, Waiting' = Waiting
  PROVE  LimitInv'
<1>1. ASSUME NEW a PROVE BlocksOut(a)' \in 0 .. BlocksOut(a)
  <2>1. BlocksOut(a)' = BlocksOut(a)
    BY DEF BlocksOut
  <2> QED BY <2>1, OutNaturals
<1> QED BY <1>1, LimitLess

(* A step that does nothing in flight.                                     *)
LEMMA FlightSame ==
  ASSUME SharedType, Flying, LimitInv, Running' => Running,
         UNCHANGED <<fetchRequests, deferred, flight, remaining, calls, results>>
  PROVE  Flying' /\ LimitInv'
<1>1. Unanswered' = Unanswered /\ Waiting' = Waiting
  BY DEF Unanswered, Waiting
<1>2. RequestInv' /\ CountInv'
  BY <1>1, FlightKept DEF Flying
<1>3. ResultInv' /\ SizesInv'
  BY DEF Flying, ResultInv, SizesInv
<1> QED BY <1>1, <1>2, <1>3, LimitFrame DEF Flying

(* A request that may go out goes out.                                     *)
LEMMA FlightSending ==
  ASSUME "split" \notin Faults, TypeInv, Flying, LimitInv, Running, UNCHANGED <<pc, results>>,
         NEW r \in Requests, Send(r), ~MaxedOut(r),
         \/ bytesInFlight = 0
         \/ reqsInFlight + 1 <= MaxReqs /\ bytesInFlight + SizeOf(r.blocks) <= MaxBytes,
         External = {} => \A b \in r.blocks : b.size # 0
  PROVE  /\ RequestInv' /\ CountInv' /\ ResultInv' /\ LimitInv'
         /\ External = {} => \A c \in calls' : c.kind = "network" /\ c.size # 0
<1>1. /\ SharedType /\ FlightType /\ RequestInv /\ CountInv /\ ResultInv /\ SizesInv
      /\ bytesInFlight \in Nat /\ reqsInFlight \in Nat /\ nipa \in [Addresses -> Nat]
      /\ \A a \in Addresses : nipa[a] <= MaxBlocks
      /\ External = {} => /\ bytesInFlight <= MaxBytes \/ reqsInFlight <= 1
                          /\ reqsInFlight <= MaxReqs
  BY DEF TypeInv, Flying, LimitInv
<1>2. RequestInv' /\ CountInv'
  BY <1>1, FlightSend
<1>3. ResultInv'
  BY <1>1 DEF ResultInv
<1>4. /\ bytesInFlight' \in Nat /\ reqsInFlight' \in Nat
      /\ Cardinality(r.blocks) \in Nat /\ r.addr \in Addresses /\ SizeOf(r.blocks) \in Nat
      /\ nipa' \in {nipa, [nipa EXCEPT ![r.addr] = @ + Cardinality(r.blocks)]}
      /\ External = {} => /\ bytesInFlight' = bytesInFlight + SizeOf(r.blocks)
                          /\ reqsInFlight' = reqsInFlight + 1
                          /\ \A c \in calls' \ calls :
                               c.kind = "network" /\ \E b \in r.blocks : b.size = c.size
  BY <1>1, SendLimits
<1>5. MaxReqs \in Nat \ {0} /\ MaxBytes \in Nat \ {0} /\ MaxBlocks \in Nat \ {0}
  BY LimitAssumption
<1>6. nipa' \in [Addresses -> Nat] /\ \A a \in Addresses : nipa'[a] <= MaxBlocks
  <2>1. nipa[r.addr] + Cardinality(r.blocks) <= MaxBlocks
    BY <1>1, <1>4, <1>5 DEF MaxedOut
  <2> QED BY <1>1, <1>4, <2>1
<1>7. ASSUME External = {}
      PROVE  /\ bytesInFlight' <= MaxBytes \/ reqsInFlight' <= 1
             /\ reqsInFlight' <= MaxReqs
  <2>1. CASE bytesInFlight = 0
    <3>1. reqsInFlight = 0
      BY <1>1, <1>7, <2>1, NothingOut
    <3> QED BY <1>4, <1>5, <1>7, <3>1
  <2>2. CASE reqsInFlight + 1 <= MaxReqs /\ bytesInFlight + SizeOf(r.blocks) <= MaxBytes
    BY <1>4, <1>5, <1>7, <2>2
  <2> QED BY <2>1, <2>2
<1>8. LimitInv'
  BY <1>2, <1>4, <1>6, <1>7, LimitNext
<1>9. External = {} => \A c \in calls' : c.kind = "network" /\ c.size # 0
  BY <1>1, <1>4 DEF SizesInv
<1> QED BY <1>2, <1>3, <1>8, <1>9

(* fetchUpToMaxBytes.                                                      *)
LEMMA FlightFetch ==
  ASSUME "split" \notin Faults, TypeInv, Flying, LimitInv, Running, FetchStep
  PROVE  (Running' => Flying') /\ LimitInv'
<1> USE DEF taskQueues, loops, caller, shared
<1>0. /\ fetchRequests \in Seq(Requests) /\ deferred \in [Addresses -> Seq(Requests)]
      /\ SharedType /\ SizesInv
  BY BlockTypes DEF TypeInv, Flying
<1>1. CASE VisitDeferred \/ LeaveDeferred \/ EndDeferred \/ EndFetch
  <2>1. UNCHANGED <<fetchRequests, deferred, flight, remaining, calls, results>>
    BY <1>1 DEF VisitDeferred, LeaveDeferred, EndDeferred, EndFetch
  <2> QED BY <1>0, <2>1, FlightSame
<1>2. CASE SendRegular
  <2> DEFINE r == Head(fetchRequests)
  <2>1. /\ fetchRequests # <<>> /\ Send(r) /\ fetchRequests' = Tail(fetchRequests) /\ ~MaxedOut(r)
        /\ UNCHANGED <<pc, deferred, results>>
        /\ \/ bytesInFlight = 0
           \/ reqsInFlight + 1 <= MaxReqs /\ bytesInFlight + SizeOf(r.blocks) <= MaxBytes
    BY <1>2 DEF SendRegular, Fetchable
  <2>2. /\ r \in Requests /\ 1 \in 1 .. Len(fetchRequests) /\ r = fetchRequests[1]
        /\ \A k \in 1 .. Len(fetchRequests') : /\ k + 1 \in 1 .. Len(fetchRequests)
                                               /\ fetchRequests'[k] = fetchRequests[k + 1]
    BY <1>0, <2>1, TailFacts
  <2> HIDE DEF r
  <2>3. External = {} => \A b \in r.blocks : b.size # 0
    BY <1>0, <2>2 DEF SizesInv
  <2>4. /\ RequestInv' /\ CountInv' /\ ResultInv' /\ LimitInv'
        /\ External = {} => \A c \in calls' : c.kind = "network" /\ c.size # 0
    BY <2>1, <2>2, <2>3, FlightSending
  <2>5. SizesInv'
    BY <1>0, <2>1, <2>2, <2>4 DEF SizesInv
  <2> QED BY <2>4, <2>5 DEF Flying
<1>3. CASE SendDeferred
  <2> DEFINE r == Head(deferred[at])
  <2>1. /\ deferred[at] # <<>> /\ Send(r) /\ deferred' = [deferred EXCEPT ![at] = Tail(@)]
        /\ ~MaxedOut(r) /\ UNCHANGED <<pc, fetchRequests, results>>
        /\ \/ bytesInFlight = 0
           \/ reqsInFlight + 1 <= MaxReqs /\ bytesInFlight + SizeOf(r.blocks) <= MaxBytes
    BY <1>3 DEF SendDeferred, DeferredReady, Fetchable
  <2>2. at \in Addresses
    BY <1>3 DEF SendDeferred, TypeInv, TaskType
  <2>3. /\ r \in Requests /\ 1 \in 1 .. Len(deferred[at]) /\ r = deferred[at][1]
        /\ \A k \in 1 .. Len(Tail(deferred[at])) : /\ k + 1 \in 1 .. Len(deferred[at])
                                                   /\ Tail(deferred[at])[k] = deferred[at][k + 1]
    BY <1>0, <2>1, <2>2, TailFacts
  <2> HIDE DEF r
  <2>4. External = {} => \A b \in r.blocks : b.size # 0
    BY <1>0, <2>2, <2>3 DEF SizesInv
  <2>5. /\ RequestInv' /\ CountInv' /\ ResultInv' /\ LimitInv'
        /\ External = {} => \A c \in calls' : c.kind = "network" /\ c.size # 0
    BY <2>1, <2>3, <2>4, FlightSending
  <2>6. SizesInv'
    <3>1. \A a \in Addresses : deferred'[a] = IF a = at THEN Tail(deferred[at]) ELSE deferred[a]
      BY <1>0, <2>1, <2>2
    <3>2. External = {} => \A a \in Addresses : \A k \in 1 .. Len(deferred'[a]) :
            \A b \in deferred'[a][k].blocks : b.size # 0
      <4> SUFFICES ASSUME External = {}, NEW a \in Addresses, NEW k \in 1 .. Len(deferred'[a])
                   PROVE  \A b \in deferred'[a][k].blocks : b.size # 0
        OBVIOUS
      <4>1. CASE a = at
        <5>1. deferred'[a] = Tail(deferred[at])
          BY <3>1, <4>1
        <5>2. k + 1 \in 1 .. Len(deferred[at]) /\ deferred'[a][k] = deferred[at][k + 1]
          BY <2>3, <5>1
        <5> QED BY <1>0, <2>2, <5>2 DEF SizesInv
      <4>2. CASE a # at
        <5>1. deferred'[a] = deferred[a]
          BY <3>1, <4>2
        <5> QED BY <1>0, <5>1 DEF SizesInv
      <4> QED BY <4>1, <4>2
    <3> SUFFICES ASSUME External = {} PROVE SizesInv'
      BY DEF SizesInv
    <3>3. fetchRequests' = fetchRequests /\ results' = results
      BY <2>1
    <3>4. \A c \in calls' : c.kind = "network" /\ c.size # 0
      BY <2>5
    <3> QED BY <1>0, <3>2, <3>3, <3>4 DEF SizesInv
  <2> QED BY <2>5, <2>6 DEF Flying
<1>4. CASE DeferRegular
  <2> DEFINE r == Head(fetchRequests)
  <2>1. /\ fetchRequests # <<>> /\ fetchRequests' = Tail(fetchRequests)
        /\ deferred' = [deferred EXCEPT ![r.addr] = Append(@, r)]
        /\ UNCHANGED <<pc, flight, remaining, calls, results>>
    BY <1>4 DEF DeferRegular, Fetchable
  <2>2. /\ r \in Requests /\ r.addr \in Addresses /\ 1 \in 1 .. Len(fetchRequests)
        /\ r = fetchRequests[1]
        /\ \A k \in 1 .. Len(fetchRequests') : /\ k + 1 \in 1 .. Len(fetchRequests)
                                               /\ fetchRequests'[k] = fetchRequests[k + 1]
    BY <1>0, <2>1, TailFacts DEF Requests
  <2> HIDE DEF r
  <2>3. Unanswered' = Unanswered /\ Waiting' = Waiting /\ (Running' => Running)
    BY <2>1 DEF Unanswered, Waiting
  <2>4. RequestInv' /\ CountInv' /\ ResultInv' /\ LimitInv'
    <3>1. RequestInv' /\ CountInv'
      BY <2>1, <2>3, FlightKept DEF Flying
    <3>2. ResultInv'
      BY <2>1 DEF Flying, ResultInv
    <3> QED BY <1>0, <2>1, <2>3, <3>1, <3>2, LimitFrame
  <2>5. SizesInv'
    <3> SUFFICES ASSUME External = {} PROVE SizesInv'
      BY DEF SizesInv
    <3>1. \A b \in r.blocks : b.size # 0
      BY <1>0, <2>2 DEF SizesInv
    <3>2. ASSUME NEW a \in Addresses, NEW k \in 1 .. Len(deferred'[a])
          PROVE  \A b \in deferred'[a][k].blocks : b.size # 0
      <4>1. CASE a = r.addr
        <5>1. deferred'[a] = Append(deferred[a], r) /\ deferred[a] \in Seq(Requests)
          BY <1>0, <2>1, <4>1
        <5>2. \/ k \in 1 .. Len(deferred[a]) /\ deferred'[a][k] = deferred[a][k]
              \/ deferred'[a][k] = r
          BY <2>2, <3>2, <5>1, AppendFacts
        <5> QED BY <1>0, <3>1, <5>2 DEF SizesInv
      <4>2. CASE a # r.addr
        <5>1. deferred'[a] = deferred[a]
          BY <1>0, <2>1, <4>2
        <5> QED BY <1>0, <3>2, <5>1 DEF SizesInv
      <4> QED BY <4>1, <4>2
    <3> QED BY <1>0, <2>1, <2>2, <3>2 DEF SizesInv
  <2> QED BY <2>4, <2>5 DEF Flying
<1>5. CASE StorageThrows
  <2>1. UNCHANGED <<flight, results>> /\ ~Running'
    BY <1>5 DEF StorageThrows, Running
  <2>2. Unanswered' = Unanswered /\ Waiting' = Waiting
    <3>1. PICK K : \E n \in Nat :
            /\ calls' = calls \cup K /\ \A c \in K : c.kind = "storage"
      BY <1>5, ThrowAdds
    <3> QED BY <2>1, <3>1 DEF Unanswered, Waiting
  <2> QED BY <1>0, <2>1, <2>2, LimitFrame
<1> QED BY <1>1, <1>2, <1>3, <1>4, <1>5 DEF FetchStep

(* fetchLocalBlocks.                                                       *)
LEMMA FlightLocal ==
  ASSUME TypeInv, Flying, LimitInv, Running, LocalStep
  PROVE  Flying' /\ LimitInv'
<1> USE DEF taskQueues, loops, caller, shared
<1>0. SharedType /\ localTodo \in Seq(Wanted)
  BY BlockTypes DEF TypeInv
<1>1. CASE FetchLocal \/ LocalFails
  <2> DEFINE b == Head(localTodo)
  <2>1. /\ localTodo # <<>> /\ UNCHANGED <<pc, fetchRequests, deferred, flight, remaining, calls>>
    BY <1>1 DEF FetchLocal, LocalFails
  <2>2. b \in Wanted
    BY <1>0, <2>1
  <2>3. PICK r \in Results : /\ r.kind = "local" /\ results' = Append(results, r)
                             /\ r.ok => r.size = 0 /\ r.addr = Local /\ ~r.done
    <3>1. CASE FetchLocal
      <4> DEFINE r == Success(b.id, Local, 0, Len(refs) + 1, 0, FALSE, "local")
      <4>1. r \in Results
        <5>1. Len(refs) + 1 \in Nat
          BY <1>0 DEF SharedType
        <5> QED BY <2>2, <5>1, ResultTypes
      <4>2. /\ r.kind = "local" /\ results' = Append(results, r)
            /\ r.ok => r.size = 0 /\ r.addr = Local /\ ~r.done
        BY <3>1 DEF FetchLocal, Success, Answered
      <4> QED BY <4>1, <4>2
    <3>2. CASE LocalFails
      <4> DEFINE r == Failure(b.id, Local, 0, 0, "local")
      <4>1. r \in Results
        BY <2>2, ResultTypes
      <4>2. r.kind = "local" /\ results' = Append(results, r) /\ ~r.ok
        BY <3>2 DEF LocalFails, Failure
      <4> QED BY <4>1, <4>2
    <3> QED BY <1>1, <3>1, <3>2
  <2>4. /\ Waiting' = Waiting
        /\ \A k \in 1 .. Len(results') :
             \/ k \in 1 .. Len(results) /\ results'[k] = results[k]
             \/ results'[k] = r
    BY <1>0, <2>3, WaitingMore
  <2>5. Unanswered' = Unanswered /\ (Running' => Running)
    BY <2>1 DEF Unanswered
  <2>6. RequestInv' /\ CountInv'
    BY <2>1, <2>4, <2>5, FlightKept DEF Flying
  <2>7. ResultInv'
    BY <2>3, <2>4 DEF Flying, ResultInv
  <2>8. SizesInv'
    BY <2>1, <2>3, <2>4 DEF Flying, SizesInv
  <2>9. LimitInv'
    BY <1>0, <2>1, <2>4, <2>5, LimitFrame
  <2> QED BY <2>6, <2>7, <2>8, <2>9 DEF Flying
<1>2. CASE EndLocal
  <2>1. UNCHANGED <<fetchRequests, deferred, flight, remaining, calls, results>>
    BY <1>2 DEF EndLocal
  <2> QED BY <1>0, <2>1, FlightSame
<1> QED BY <1>1, <1>2 DEF LocalStep

--------------------------------------------------------------------------------
(* All steps.                                                              *)

(* At the start nothing is in flight.                                      *)
LEMMA FlightInit == Init => FlightInv
<1> SUFFICES ASSUME Init PROVE FlightInv
  OBVIOUS
<1>1. /\ results = <<>> /\ remaining = <<>> /\ calls = {} /\ bytesInFlight = 0 /\ reqsInFlight = 0
      /\ nipa = [a \in Addresses |-> 0] /\ deferred = [a \in Addresses |-> <<>>]
  BY DEF Init
<1>2. Unanswered = {} /\ Waiting = {} /\ OutReqs = {}
  BY <1>1 DEF Unanswered, Waiting, ToSet, OutReqs
<1>3. /\ BytesOut = 0 /\ ReqsOut = 0
      /\ \A a \in Addresses : BlocksOut(a) = 0
  <2>1. SizeOf({}) = 0 /\ Cardinality({}) = 0
    BY SizeOfEmpty, FS_EmptySet
  <2>2. \A a : At(Unanswered, a) = {} /\ At(Waiting, a) = {}
    BY <1>2 DEF At
  <2>3. BytesOut = 0
    BY <1>2, <2>1 DEF BytesOut
  <2>4. ReqsOut = 0
    BY <1>2, <2>1 DEF ReqsOut, OutReqs
  <2>5. \A a \in Addresses : BlocksOut(a) = 0
    BY <2>1, <2>2 DEF BlocksOut, At
  <2> QED BY <2>3, <2>4, <2>5
<1>4. RequestInv /\ ResultInv
  BY <1>1, <1>2 DEF RequestInv, ResultInv
<1>5. CountInv
  BY <1>1, <1>3 DEF CountInv
<1>6. SizesInv
  <2>1. \A k \in 1 .. Len(fetchRequests) : fetchRequests[k] \in RemoteRequests
    <3>1. fetchRequests \in SetToSeqs(RemoteRequests) /\ Cardinality(RemoteRequests) \in Nat
      BY RequestFacts, FS_CardinalityType DEF Init
    <3>2. fetchRequests \in Seq(RemoteRequests)
      BY <3>1 DEF SetToSeqs, IsInjective
    <3> QED BY <3>2
  <2>2. \A k \in 1 .. Len(fetchRequests) : \A b \in fetchRequests[k].blocks : b.size # 0
    BY <2>1, RequestFacts DEF Wanted
  <2> QED BY <1>1, <2>2 DEF SizesInv
<1>7. LimitInv
  BY <1>1, <1>3, LimitAssumption DEF LimitInv
<1> QED BY <1>4, <1>5, <1>6, <1>7 DEF FlightInv, Flying

(* An answer takes the place of its fetch, or is ignored.                  *)
LEMMA OutAnswered ==
  ASSUME SharedType, NEW c \in Unanswered, Unanswered' = Unanswered \ {c},
         NEW r, r.addr = c.addr, Waiting' = Waiting \/ Waiting' = Waiting \cup {r}, NEW a
  PROVE  BlocksOut(a)' \in 0 .. BlocksOut(a)
<1>1. IsFiniteSet(Unanswered) /\ IsFiniteSet(Waiting)
  BY OutTypes DEF Sized
<1>2. /\ Cardinality(At(Unanswered \ {c}, a)) \in Nat
      /\ Cardinality(At(Unanswered, a))
           = Cardinality(At(Unanswered \ {c}, a)) + (IF c.addr = a THEN 1 ELSE 0)
  BY <1>1, CountLess
<1>3. /\ Cardinality(At(Waiting, a)) \in Nat
      /\ Cardinality(At(Waiting', a)) \in {Cardinality(At(Waiting, a)),
           Cardinality(At(Waiting, a)) + (IF r.addr = a THEN 1 ELSE 0)}
  <2>1. At(Waiting, a) \in SUBSET Waiting
    BY DEF At
  <2>2. Cardinality(At(Waiting, a)) \in Nat
    BY <1>1, <2>1, FS_Subset, FS_CardinalityType
  <2>3. CASE Waiting' = Waiting
    BY <2>2, <2>3
  <2>4. CASE Waiting' = Waiting \cup {r} /\ r \notin Waiting
    BY <1>1, <2>4, CountMore
  <2>5. CASE Waiting' = Waiting \cup {r} /\ r \in Waiting
    <3>1. Waiting' = Waiting
      BY <2>5
    <3> QED BY <2>2, <3>1
  <2> QED BY <2>3, <2>4, <2>5
<1>4. /\ BlocksOut(a) = Cardinality(At(Unanswered, a)) + Cardinality(At(Waiting, a))
      /\ BlocksOut(a)' = Cardinality(At(Unanswered \ {c}, a)) + Cardinality(At(Waiting', a))
  BY DEF BlocksOut, At
<1> QED BY <1>2, <1>3, <1>4

(* A callback that comes when the task has stopped.                        *)
LEMMA LateCallback ==
  ASSUME TypeInv, LimitInv, ~Running, Callback
  PROVE  ~Running' /\ LimitInv'
<1> USE DEF shared
<1>1. SharedType
  BY DEF TypeInv
<1>2. PICK c \in calls :
        /\ NetworkSuccess(c) \/ StorageSuccess(c) \/ FetchFails(c)
        /\ calls' = calls \ {c}
        /\ UNCHANGED <<pc, flight>>
  BY DEF Callback
<1>3. c \in Calls /\ Unanswered' = Unanswered \ {c} /\ (c.kind = "network" => c \in Unanswered)
  BY <1>1, <1>2 DEF SharedType, Unanswered
<1>4. \/ results' = results
      \/ \E r \in Results : r.kind = c.kind /\ (r.kind = "network" => r.addr = c.addr)
                            /\ results' = Append(results, r)
  <2>1. CASE NetworkSuccess(c)
    <3> DEFINE left == remaining[c.req] \ {c.id}
               r == Success(c.id, c.addr, c.size, c.num, c.req, left = {}, "network")
    <3>1. r \in Results
      BY <1>3, ResultTypes
    <3>2. /\ results' = results \/ results' = Append(results, r)
          /\ c.kind = "network" /\ r.kind = "network" /\ r.addr = c.addr
      BY <2>1 DEF NetworkSuccess, Success
    <3> QED BY <3>1, <3>2
  <2>2. CASE StorageSuccess(c)
    <3> DEFINE r == Success(c.id, Local, 0, 0, 0, FALSE, "storage")
    <3>1. r \in Results
      BY <1>3, ResultTypes
    <3>2. results' = Append(results, r) /\ c.kind = "storage" /\ r.kind = "storage"
      BY <2>2 DEF StorageSuccess, Success
    <3> QED BY <3>1, <3>2
  <2>3. CASE FetchFails(c)
    <3> DEFINE r == Failure(c.id, c.addr, c.size, c.req, c.kind)
    <3>1. r \in Results
      BY <1>3, ResultTypes
    <3>2. results' = Append(results, r) /\ r.kind = c.kind /\ r.addr = c.addr
      BY <2>3 DEF FetchFails, Failure
    <3> QED BY <3>1, <3>2
  <2> QED BY <1>2, <2>1, <2>2, <2>3
<1>5. \/ Waiting' = Waiting
      \/ c.kind = "network" /\ \E r : r.addr = c.addr /\ Waiting' = Waiting \cup {r}
  <2>1. CASE results' = results
    BY <2>1 DEF Waiting
  <2>2. CASE \E r \in Results : r.kind = c.kind /\ (r.kind = "network" => r.addr = c.addr)
                                /\ results' = Append(results, r)
    <3>1. PICK r \in Results : r.kind = c.kind /\ (r.kind = "network" => r.addr = c.addr)
                               /\ results' = Append(results, r)
      BY <2>2
    <3>2. Waiting' = IF r.kind = "network" THEN Waiting \cup {r} ELSE Waiting
      BY <1>1, <3>1, WaitingMore
    <3> QED BY <3>1, <3>2
  <2> QED BY <1>4, <2>1, <2>2
<1>6. ASSUME NEW a \in Addresses \ {Local} PROVE BlocksOut(a)' \in 0 .. BlocksOut(a)
  <2>1. CASE c.kind = "network"
    <3>1. PICK r : r.addr = c.addr /\ (Waiting' = Waiting \/ Waiting' = Waiting \cup {r})
      BY <1>5
    <3> QED BY <1>1, <1>3, <2>1, <3>1, OutAnswered
  <2>2. CASE c.kind # "network"
    <3>1. Unanswered' = Unanswered /\ Waiting' = Waiting
      BY <1>3, <1>5, <2>2 DEF Unanswered
    <3>2. BlocksOut(a)' = BlocksOut(a)
      BY <3>1 DEF BlocksOut
    <3> QED BY <1>1, <3>2, OutNaturals
  <2> QED BY <2>1, <2>2
<1>7. ~Running'
  BY <1>2 DEF Running
<1>8. UNCHANGED flight
  BY <1>2
<1> QED BY <1>1, <1>6, <1>7, <1>8, LimitLess

(* A failure that is taken is no longer out.                               *)
LEMMA FlightFailure ==
  ASSUME TypeInv, LimitInv, TakeFailure
  PROVE  ~Running' /\ LimitInv'
<1>1. results # <<>> /\ results' = Tail(results) /\ UNCHANGED <<flight, calls>> /\ ~Running'
  BY DEF TakeFailure, Running
<1>2. SharedType
  BY DEF TypeInv
<1>3. Waiting' \subseteq Waiting /\ Unanswered' = Unanswered
  BY <1>1, <1>2, WaitingLess DEF Unanswered
<1>4. ASSUME NEW a \in Addresses \ {Local} PROVE BlocksOut(a)' \in 0 .. BlocksOut(a)
  <2>1. IsFiniteSet(Unanswered) /\ IsFiniteSet(Waiting)
    BY <1>2, OutTypes DEF Sized
  <2>2. /\ At(Unanswered, a) \in SUBSET Unanswered /\ At(Waiting, a) \in SUBSET Waiting
        /\ At(Waiting', a) \in SUBSET At(Waiting, a)
    BY <1>3 DEF At
  <2>3. IsFiniteSet(At(Unanswered, a)) /\ IsFiniteSet(At(Waiting, a)) /\ IsFiniteSet(At(Waiting', a))
    BY <2>1, <2>2, FS_Subset
  <2>4. /\ Cardinality(At(Unanswered, a)) \in Nat /\ Cardinality(At(Waiting', a)) \in Nat
        /\ Cardinality(At(Waiting, a)) \in Nat
        /\ Cardinality(At(Waiting', a)) <= Cardinality(At(Waiting, a))
    BY <2>2, <2>3, FS_CardinalityType, FS_Subset
  <2>5. /\ BlocksOut(a) = Cardinality(At(Unanswered, a)) + Cardinality(At(Waiting, a))
        /\ BlocksOut(a)' = Cardinality(At(Unanswered, a)) + Cardinality(At(Waiting', a))
    BY <1>3 DEF BlocksOut, At
  <2> QED BY <2>4, <2>5
<1>5. UNCHANGED flight
  BY <1>1
<1> QED BY <1>1, <1>2, <1>4, <1>5, LimitLess

(* What is in flight, whatever the step.                                   *)
LEMMA FlightStep ==
  ASSUME "split" \notin Faults, TypeInv, BlockInv, FlightInv, [Next]_vars
  PROVE  FlightInv'
<1> USE DEF taskQueues, loops, caller, shared
<1>0. SharedType /\ LimitInv /\ (Running => Flying)
  BY DEF TypeInv, FlightInv
<1>1. CASE /\ UNCHANGED <<fetchRequests, deferred, flight, remaining, calls, results>>
           /\ Running' => Running
  <2>1. CASE Running
    <3>1. Flying
      BY <1>0, <2>1
    <3> QED BY <1>0, <1>1, <2>1, <3>1, FlightSame DEF FlightInv
  <2>2. CASE ~Running
    <3>1. Unanswered' = Unanswered /\ Waiting' = Waiting /\ UNCHANGED flight
      BY <1>1 DEF Unanswered, Waiting
    <3> QED BY <1>0, <1>1, <2>2, <3>1, LimitFrame DEF FlightInv
  <2> QED BY <2>1, <2>2
<1>2. CASE UNCHANGED vars
  BY <1>1, <1>2 DEF vars, Running
<1>3. CASE FetchStep
  <2>1. Running
    BY <1>3 DEF FetchStep, VisitDeferred, SendDeferred, LeaveDeferred, EndDeferred, DeferRegular,
                SendRegular, EndFetch, StorageThrows, Sending, Running
  <2>2. Flying
    BY <1>0, <2>1
  <2> QED BY <1>0, <1>3, <2>1, <2>2, FlightFetch DEF FlightInv
<1>4. CASE LocalStep
  <2>1. Running
    BY <1>4 DEF LocalStep, FetchLocal, LocalFails, EndLocal, Running
  <2>2. Flying
    BY <1>0, <2>1
  <2> QED BY <1>0, <1>4, <2>1, <2>2, FlightLocal DEF FlightInv
<1>5. CASE CallNext \/ Deliver \/ CloseStream \/ CompleteTask \/ MarkZombie \/ ReleaseAll \/ Finished
  <2>1. UNCHANGED <<fetchRequests, deferred, flight, remaining, calls, results>>
    BY <1>5 DEF CallNext, Deliver, CloseStream, CompleteTask, MarkZombie, ReleaseAll, Finished, vars
  <2>2. Running' => Running
    BY <1>5 DEF CallNext, Deliver, CloseStream, CompleteTask, MarkZombie, ReleaseAll, Finished, vars,
                Running
  <2> QED BY <1>1, <2>1, <2>2
<1>6. CASE TakeFailure
  BY <1>0, <1>6, FlightFailure DEF FlightInv
<1>7. CASE TakeSuccess
  <2>1. Running
    BY <1>7 DEF TakeSuccess, Running
  <2>2. /\ Flying'
        /\ bytesInFlight' \in Nat /\ bytesInFlight' <= bytesInFlight
        /\ reqsInFlight' \in Nat /\ reqsInFlight' <= reqsInFlight
        /\ nipa \in [Addresses -> Nat] => nipa' \in [Addresses -> Nat]
        /\ \A a \in Addresses : nipa'[a] <= nipa[a]
    BY <1>0, <1>7, <2>1, FlightTake
  <2>3. /\ bytesInFlight \in Nat /\ reqsInFlight \in Nat /\ nipa \in [Addresses -> Nat]
        /\ \A a \in Addresses : nipa[a] <= MaxBlocks
        /\ External = {} => /\ bytesInFlight <= MaxBytes \/ reqsInFlight <= 1
                            /\ reqsInFlight <= MaxReqs
    BY <1>0, <2>1 DEF LimitInv
  <2>4. \A a \in Addresses : nipa'[a] <= MaxBlocks
    BY <2>2, <2>3, LimitAssumption
  <2>5. External = {} => /\ bytesInFlight' <= MaxBytes \/ reqsInFlight' <= 1
                         /\ reqsInFlight' <= MaxReqs
    BY <2>2, <2>3, LimitAssumption
  <2>6. LimitInv'
    BY <2>2, <2>3, <2>4, <2>5, LimitNext DEF Flying
  <2> QED BY <2>2, <2>6 DEF FlightInv
<1>8. CASE Callback
  <2>1. CASE Running
    <3>1. Flying
      BY <1>0, <2>1
    <3>2. Flying' /\ UNCHANGED flight
      BY <1>8, <2>1, <3>1, FlightCallback
    <3>3. bytesInFlight' = bytesInFlight /\ reqsInFlight' = reqsInFlight /\ nipa' = nipa
      BY <3>2 DEF flight
    <3>4. LimitInv'
      BY <1>0, <2>1, <3>2, <3>3, LimitNext DEF Flying, LimitInv
    <3> QED BY <3>2, <3>4 DEF FlightInv
  <2>2. CASE ~Running
    BY <1>0, <1>8, <2>2, LateCallback DEF FlightInv
  <2> QED BY <2>1, <2>2
<1> QED BY <1>2, <1>3, <1>4, <1>5, <1>6, <1>7, <1>8 DEF Next, TaskStep

(* Every reachable state counts what is in flight.                         *)
LEMMA FlightCorrect == ASSUME "split" \notin Faults PROVE Spec => []FlightInv
BY FlightInit, TypeCorrect, BlockCorrect, FlightStep, PTL DEF Spec

(* The counters of the task thread agree with what the callbacks have and  *)
(* have not answered (numBlocksInFlightPerAddress, bytesInFlight,          *)
(* reqsInFlight), if no block comes from the external storage.             *)
THEOREM FlightCountedHolds ==
  ASSUME "split" \notin Faults, External = {} PROVE Spec => []FlightCounted
<1>1. FlightInv => FlightCounted
  BY DEF FlightInv, Flying, CountInv, FlightCounted
<1> QED BY <1>1, FlightCorrect, PTL

(* What is in flight exceeds maxBytesInFlight only as one request, and     *)
(* never maxReqsInFlight (fetchUpToMaxBytes).                              *)
THEOREM ThrottledHolds ==
  ASSUME "split" \notin Faults, External = {} PROVE Spec => []Throttled
<1>1. FlightInv => Throttled
  BY DEF FlightInv, Flying, CountInv, LimitInv, Throttled
<1> QED BY <1>1, FlightCorrect, PTL

(* As long as no split of a request throws ("split" is not among Faults):  *)
(* no address has more than maxBlocksInFlightPerAddress blocks in flight   *)
(* (isRemoteAddressMaxedOut), and the counter it is decided by counts at   *)
(* least these, whatever else fails and whatever the storage has.  With    *)
(* that fault it is false: the fallback submits blocks a second time.      *)
THEOREM AddressLimitedHolds == ASSUME "split" \notin Faults PROVE Spec => []AddressLimited
<1>1. FlightInv => AddressLimited
  <2> SUFFICES ASSUME FlightInv, NEW a \in Addresses \ {Local}
               PROVE  /\ BlocksOut(a) <= MaxBlocks
                      /\ Running => BlocksOut(a) <= nipa[a]
                      /\ nipa[a] <= MaxBlocks
    BY DEF AddressLimited
  <2>1. BlocksOut(a) <= MaxBlocks /\ nipa[a] <= MaxBlocks /\ nipa[a] \in Nat
    BY DEF FlightInv, LimitInv
  <2>2. Running => BlocksOut(a) \in 0 .. nipa[a]
    BY DEF FlightInv, Flying, CountInv
  <2> QED BY <2>1, <2>2
<1> QED BY <1>1, FlightCorrect, PTL

(* As long as no split of a request throws: every variable has its type    *)
(* and no counter of the task goes below zero.  With that fault a block    *)
(* may be answered twice and be taken off a counter twice.                 *)
THEOREM TypeOKHolds == ASSUME "split" \notin Faults PROVE Spec => []TypeOK
<1>1. TypeInv /\ BufferInv /\ FlightInv => TypeOK
  <2> SUFFICES ASSUME TypeInv, BufferInv, FlightInv PROVE TypeOK
    OBVIOUS
  <2>1. bytesInFlight \in Nat /\ reqsInFlight \in Nat /\ nipa \in [Addresses -> Nat]
    BY DEF FlightInv, LimitInv
  <2>2. current \in 0 .. Len(refs)
    <3>1. current \in Nat /\ refs \in Seq(Int) /\ current <= Len(refs)
      BY DEF TypeInv, HandedType, SharedType, BufferInv, HoldsInv
    <3> QED BY <3>1
  <2>3. ASSUME NEW c \in calls PROVE c.num \in 1 .. Len(refs) /\ c.addr \in Addresses
    <3>1. c \in Calls /\ c.num <= Len(refs) /\ refs \in Seq(Int)
      BY DEF TypeInv, SharedType
    <3> QED BY <3>1 DEF Calls
  <2>4. \A i \in 1 .. Len(remaining) : remaining[i] \subseteq ToFetch
    <3>1. remaining \in Seq(SUBSET ToFetch)
      BY DEF TypeInv, SharedType
    <3> QED BY <3>1
  <2>5. open \subseteq 1 .. Len(delivered)
    BY DEF TypeInv, HandedType
  <2> QED BY <2>1, <2>2, <2>3, <2>4, <2>5 DEF TypeInv, TaskType, TypeOK
<1> QED BY <1>1, TypeCorrect, BufferCorrect, FlightCorrect, PTL
================================================================================
