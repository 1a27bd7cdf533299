-------------------------- MODULE MonitorRoundProofs --------------------------
(***************************************************************************)
(* Theorems about MonitorRound, for any number of nodes, regions, calls    *)
(* and ports.                                                              *)
(***************************************************************************)
EXTENDS MonitorRound, FoldTheorems, SequenceTheorems

-----------------------------------------------------------------------------
(* The nodes and the selections.                                             *)

Sels == Selections \union {AllIPs}

\* A sequence without repetitions.
Distinct(s) == \A k, l \in DOMAIN s : s[k] = s[l] => k = l

(* The positions of a sequence.                                              *)
LEMMA Segment ==
  ASSUME NEW n \in Nat
  PROVE  IsFiniteSet(1 .. n) /\ Cardinality(1 .. n) = n
BY FS_Interval

(* There are finitely many nodes.                                            *)
LEMMA NodesFinite ==
  /\ AllIPs \in Seq(Node) /\ Len(AllIPs) \in Nat
  /\ IsFiniteSet(Node) /\ Cardinality(Node) = Len(AllIPs)
<1>1. AllIPs \in Seq(Node) /\ Cardinality(Node) = Len(AllIPs) /\ Len(AllIPs) \in Nat
  BY NodesAssumption
<1>2. DOMAIN AllIPs = 1 .. Len(AllIPs)
  BY <1>1
<1>3. IsFiniteSet(DOMAIN AllIPs)
  BY <1>1, <1>2, FS_Interval
<1>4. AllIPs \in Surjection(DOMAIN AllIPs, Node)
  <2>1. AllIPs \in [DOMAIN AllIPs -> Node]
    BY <1>1
  <2>2. \A t \in Node : \E k \in DOMAIN AllIPs : AllIPs[k] = t
    BY DEF Node, Range
  <2> QED  BY <2>1, <2>2 DEF Surjection
<1> QED  BY <1>1, <1>3, <1>4, FS_Surjection

(* As many elements as positions: none is repeated.                          *)
LEMMA CountedDistinct ==
  ASSUME NEW s \in Seq(Node), Cardinality(Range(s)) = Len(s)
  PROVE  Distinct(s)
<1>1. Len(s) \in Nat /\ DOMAIN s = 1 .. Len(s)
  OBVIOUS
<1>2. IsFiniteSet(DOMAIN s) /\ Cardinality(DOMAIN s) = Len(s)
  <2>1. IsFiniteSet(1 .. Len(s)) /\ Cardinality(1 .. Len(s)) = Len(s)
    BY <1>1, Segment
  <2>2. DOMAIN s = 1 .. Len(s)
    BY <1>1
  <2> QED  BY <2>1, <2>2, Zenon
<1>3. s \in Surjection(DOMAIN s, Range(s))
  <2>1. s \in [DOMAIN s -> Range(s)]
    BY DEF Range
  <2>2. \A t \in Range(s) : \E k \in DOMAIN s : s[k] = t
    BY DEF Range
  <2> QED  BY <2>1, <2>2 DEF Surjection
<1>4. IsFiniteSet(Range(s))
  BY <1>2, <1>3, FS_Surjection
<1>5. s \in Injection(DOMAIN s, Range(s))
  BY <1>2, <1>3, <1>4, FS_SurjSameCardinalityImpliesInj
<1> QED  BY <1>5 DEF Injection, IsInjective, Distinct

(* What a call may be given, in positions and as pairs of positions.         *)
LEMMA Selected ==
  ASSUME NEW s \in Sels
  PROVE  /\ s \in Seq(Node) /\ Len(s) \in Nat /\ DOMAIN s = 1 .. Len(s)
         /\ Distinct(s) /\ Range(s) \subseteq Node
         /\ Eligible(s) \subseteq (1 .. Len(s)) \X (1 .. Len(s))
         /\ \A p \in Eligible(s) : /\ p[1] \in 1 .. Len(s) /\ p[2] \in 1 .. Len(s)
                                 /\ p = <<p[1], p[2]>> /\ p[1] # p[2]
                                 /\ s[p[1]] \in Node /\ s[p[2]] \in Node
         /\ IsFiniteSet(Eligible(s))
<1>1. s \in Seq(Node) /\ Cardinality(Range(s)) = Len(s)
  BY SelectionAssumption, NodesAssumption DEF Sels, Node
<1>2. Len(s) \in Nat /\ DOMAIN s = 1 .. Len(s) /\ Range(s) \subseteq Node
  BY <1>1 DEF Range
<1>3. Distinct(s)
  BY <1>1, CountedDistinct
<1>4. /\ Eligible(s) \subseteq (1 .. Len(s)) \X (1 .. Len(s))
      /\ \A p \in Eligible(s) : /\ p[1] \in 1 .. Len(s) /\ p[2] \in 1 .. Len(s)
                              /\ p = <<p[1], p[2]>> /\ p[1] # p[2]
  BY <1>2 DEF Eligible
<1>5. \A p \in Eligible(s) : s[p[1]] \in Node /\ s[p[2]] \in Node
  BY <1>1, <1>2, <1>4
<1>6. IsFiniteSet(Eligible(s))
  <2>1. IsFiniteSet(1 .. Len(s))
    BY <1>2, FS_Interval
  <2>2. IsFiniteSet((1 .. Len(s)) \X (1 .. Len(s)))
    BY <2>1, FS_Product
  <2> QED  BY <1>4, <2>2, FS_Subset
<1> QED  BY <1>1, <1>2, <1>3, <1>4, <1>5, <1>6

-----------------------------------------------------------------------------
(* The types.                                                                *)

Commands == [op : {"start", "fetch", "rm", "cleanup"}, to : Node, arg : Kind \union {None},
             call : 1 .. MaxCalls]

\* The variables of runMonitor: arguments, loops, counters.
CallType ==
  /\ regionOf \in Layouts
  /\ pc \in {"idle", "pairs", "send", "sleep", "collect"}
  /\ call \in [kind : Kind, mode : {1, 2, 3}, sel : Sels]
  /\ calls \in 0 .. MaxCalls
  /\ pc # "idle" => calls \in 1 .. MaxCalls
  /\ cur \in 0 .. Len(call.sel)
  /\ todo \subseteq Eligible(call.sel)
  /\ countPortIncrs \in Nat /\ globalCountPortIncrs \in Nat
  /\ all_send_ips \subseteq Node

\* The nodes it waits for, each once.
StatsType ==
  /\ ip_filtered_stats \in Seq(Node) /\ Distinct(ip_filtered_stats)
  /\ Range(ip_filtered_stats) \subseteq all_send_ips
  /\ statusProcessed \in 0 .. Len(AllIPs)
  /\ pc = "collect" => statusProcessed <= Len(ip_filtered_stats)

\* Its results.
OutputType ==
  /\ resultList \in Seq(Reading)
  /\ output \in [1 .. MaxCalls -> Seq(Reading)]
  /\ ret \in [1 .. MaxCalls -> {None, "error"}]

\* The nodes; one that serves knows what to measure.
NodeType ==
  /\ scripts \in [Node -> [Kind -> SUBSET ScriptType]]
  /\ startFile \in [Node -> Kind \union {None}]
  /\ service \in [Node -> {"waiting", "serving", "done"}]
  /\ servers \in [Node -> SUBSET (0 .. NumPorts - 1)]
  /\ clients \in [Node -> SUBSET ScriptType]
  /\ status \in [Node -> Seq(Reading)] /\ local \in [Node -> Seq(Reading)]
  /\ \A n \in Node : service[n] = "serving" => startFile[n] \in Kind

\* What is on its way.
NetType ==
  /\ net \subseteq Commands
  /\ \A m \in net : m.op \in {"start", "cleanup"} => m.arg \in Kind

\* Before the first call nothing happens on the nodes.
CallsFirst ==
  calls = 0 => /\ net = {}
               /\ \A n \in Node : /\ startFile[n] = None /\ clients[n] = {}
                                 /\ service[n] = "waiting"

TInv == CallType /\ StatsType /\ OutputType /\ NodeType /\ NetType /\ CallsFirst

(* No position of a sequence without repetitions is beyond the nodes.        *)
LEMMA DistinctShort ==
  ASSUME NEW s \in Seq(Node), Distinct(s)
  PROVE  Len(s) \in Nat /\ Len(s) <= Len(AllIPs)
<1>1. Len(s) \in Nat /\ DOMAIN s = 1 .. Len(s)
  OBVIOUS
<1>2. IsFiniteSet(1 .. Len(s)) /\ Cardinality(1 .. Len(s)) = Len(s)
  BY <1>1, FS_Interval
<1>3. s \in Injection(1 .. Len(s), Node)
  <2>1. s \in [1 .. Len(s) -> Node]
    BY <1>1
  <2> QED  BY <1>1, <2>1 DEF Injection, IsInjective, Distinct
<1> QED  BY <1>1, <1>2, <1>3, NodesFinite, FS_Injection

(* They say at least what TypeOK says.                                       *)
LEMMA TypeParts == TInv => TypeOK
<1> SUFFICES ASSUME TInv PROVE TypeOK
  OBVIOUS
<1>1. /\ CallType /\ StatsType /\ OutputType /\ NodeType /\ NetType
  BY DEF TInv
<1>2. /\ Range(resultList) \subseteq Reading /\ DOMAIN output = 1 .. MaxCalls
      /\ \A c \in 1 .. MaxCalls : Range(output[c]) \subseteq Reading
  BY <1>1 DEF OutputType, Range
<1>3. \A n \in Node : Range(status[n]) \union Range(local[n]) \subseteq Reading
  BY <1>1 DEF NodeType, Range
<1>4. \A m \in net : m.op \in {"start", "fetch", "rm", "cleanup"} /\ m.to \in Node
  BY <1>1 DEF NetType, Commands
<1> QED
  BY <1>1, <1>2, <1>3, <1>4 DEF TypeOK, CallType, StatsType, OutputType, NodeType, Sels

(* The initial states are well typed.                                        *)
LEMMA InitTyped == Init => TInv
<1> SUFFICES ASSUME Init PROVE TInv
  OBVIOUS
<1>1. CallType
  <2>1. call \in [kind : Kind, mode : {1, 2, 3}, sel : Sels] /\ call.sel = AllIPs
    BY DEF Init, Kind, Sels
  <2>2. calls = 0 /\ 0 \in 0 .. MaxCalls
    BY MaxCallsAssumption DEF Init
  <2>3. cur \in 0 .. Len(call.sel)
    BY <2>1, NodesFinite DEF Init
  <2> QED  BY <2>1, <2>2, <2>3 DEF Init, CallType
<1>2. StatsType
  <2>1. << >> \in Seq(Node) /\ Distinct(<< >>) /\ Range(<< >>) = {}
    BY DEF Distinct, Range
  <2>2. 0 \in 0 .. Len(AllIPs)
    BY NodesFinite
  <2> QED  BY <2>1, <2>2 DEF Init, StatsType
<1>3. OutputType
  BY DEF Init, OutputType
<1>4. NodeType
  BY DEF Init, NodeType
<1>5. NetType /\ CallsFirst
  BY DEF Init, NetType, CallsFirst
<1> QED  BY <1>1, <1>2, <1>3, <1>4, <1>5 DEF TInv

(* The nodes of a call, one of its pairs, and a number of calls.             *)
LEMMA CallIs ==
  ASSUME CallType
  PROVE  /\ call.sel \in Sels /\ call.kind \in Kind /\ call.mode \in {1, 2, 3}
         /\ \A p \in Here : p \in todo /\ p \in Eligible(call.sel) /\ p[1] = cur
BY DEF CallType, Here

(* The arguments, loops and counters keep their types.                       *)
LEMMA CallStep == TInv /\ [Next]_vars => CallType'
<1> SUFFICES ASSUME TInv, [Next]_vars PROVE CallType'
  OBVIOUS
<1>1. CallType /\ call.sel \in Sels /\ Len(call.sel) \in Nat
  BY CallIs, Selected DEF TInv
<1>2. CASE Call
  <2>1. PICK c \in [kind : Kinds, mode : Modes, sel : Selections] :
          call' = c /\ todo' = Eligible(c.sel)
    BY <1>2 DEF Call
  <2>2. call' \in [kind : Kind, mode : {1, 2, 3}, sel : Sels]
    BY <2>1, EnvironmentAssumption DEF Sels
  <2>3. 0 \in 0 .. Len(call'.sel)
    <3>1. call'.sel \in Sels
      BY <2>2
    <3>2. Len(call'.sel) \in Nat
      BY <3>1, Selected
    <3> QED  BY <3>2
  <2>4. regionOf' = regionOf /\ todo' = Eligible(call.sel)'
    BY <1>2, <2>1 DEF Call, Eligible
  <2>5. calls' \in 1 .. MaxCalls
    BY <1>1, <1>2, MaxCallsAssumption DEF CallType, Call
  <2> QED  BY <1>1, <1>2, <2>2, <2>3, <2>4, <2>5, MaxCallsAssumption DEF CallType, Call
<1>3. CASE NextServer
  <2>1. call.sel[cur + 1] \in Node
    <3>1. cur + 1 \in 1 .. Len(call.sel) /\ call.sel \in Seq(Node)
      BY <1>1, <1>3, Selected DEF CallType, NextServer
    <3> QED  BY <3>1
  <2> QED  BY <1>1, <1>3, <2>1 DEF CallType, NextServer, Eligible
<1>4. CASE PlaceScript
  <2>1. PICK p \in Here :
          /\ todo' = todo \ {p}
          /\ globalCountPortIncrs' = globalCountPortIncrs + 1
          /\ countPortIncrs' = PortAfter(countPortIncrs)
          /\ all_send_ips' = IF call.kind = "static" THEN {call.sel[p[1]], call.sel[p[2]]}
                             ELSE all_send_ips \union {call.sel[p[2]]}
          /\ pc' \in {"send", "pairs"}
    BY <1>4 DEF PlaceScript
  <2>2. call.sel[p[1]] \in Node /\ call.sel[p[2]] \in Node
    BY <1>1, CallIs, Selected
  <2>3. /\ UNCHANGED <<regionOf, call, calls, cur>> /\ Eligible(call.sel)' = Eligible(call.sel)
        /\ pc = "pairs"
    BY <1>4 DEF PlaceScript, Eligible
  <2> QED  BY <1>1, <2>1, <2>2, <2>3 DEF CallType, PortAfter
<1>5. CASE ForceStart
  BY <1>1, <1>5, Selected DEF CallType, ForceStart, Eligible
<1>6. CASE SendStart \/ EndSleep \/ ReadStatus \/ ParseError \/ WriteOutput \/ Return
  BY <1>1, <1>6
     DEF CallType, SendStart, EndSleep, ReadStatus, ParseError, WriteOutput, Return, Eligible
<1>7. CASE UNCHANGED <<regionOf, controller>>
  BY <1>1, <1>7 DEF CallType, controller, Eligible
<1> QED
  BY <1>2, <1>3, <1>4, <1>5, <1>6, <1>7
     DEF Next, Controller, Landing, NodeStep, Finished, StartLands, FetchLands, RmLands,
         CleanupLands, Serve, StartClients, RunClient, vars

(* The nodes that are waited for are different.                              *)
LEMMA StatsStep == TInv /\ [Next]_vars => StatsType'
<1> SUFFICES ASSUME TInv, [Next]_vars PROVE StatsType'
  OBVIOUS
<1>1. /\ CallType /\ StatsType /\ call.sel \in Sels
      /\ Len(ip_filtered_stats) \in Nat /\ Len(ip_filtered_stats) <= Len(AllIPs)
      /\ Len(AllIPs) \in Nat
  BY CallIs, DistinctShort, NodesFinite DEF TInv, StatsType
<1>2. CASE Call
  <2>1. << >> \in Seq(Node) /\ Distinct(<< >>) /\ Range(<< >>) = {}
    BY DEF Distinct, Range
  <2> QED  BY <1>1, <1>2, <2>1 DEF StatsType, Call
<1>3. CASE NextServer
  BY <1>1, <1>3 DEF StatsType, NextServer
<1>4. CASE PlaceScript
  <2>1. PICK p \in Here :
          IF call.kind = "static"
          THEN /\ all_send_ips' = {call.sel[p[1]], call.sel[p[2]]}
               /\ ip_filtered_stats' = <<call.sel[p[2]]>>
          ELSE /\ all_send_ips' = all_send_ips \union {call.sel[p[2]]}
               /\ ip_filtered_stats' = IF call.sel[p[2]] \in Range(ip_filtered_stats)
                                       THEN ip_filtered_stats
                                       ELSE Append(ip_filtered_stats, call.sel[p[2]])
    BY <1>4 DEF PlaceScript
  <2> DEFINE ip2 == call.sel[p[2]]
             s == ip_filtered_stats
  <2>2. ip2 \in Node
    BY <1>1, CallIs, Selected
  <2>3. statusProcessed' = statusProcessed /\ pc' # "collect"
    BY <1>4 DEF PlaceScript
  <2>4. CASE call.kind = "static"
    <3>1. <<ip2>> \in Seq(Node) /\ Distinct(<<ip2>>) /\ Range(<<ip2>>) = {ip2}
      BY <2>2 DEF Distinct, Range
    <3> QED  BY <1>1, <2>1, <2>3, <2>4, <3>1 DEF StatsType
  <2>5. CASE call.kind # "static" /\ ip2 \notin Range(s)
    <3> DEFINE t == Append(s, ip2)
    <3>1. /\ t \in Seq(Node) /\ DOMAIN t = 1 .. Len(s) + 1 /\ DOMAIN s = 1 .. Len(s)
          /\ t[Len(s) + 1] = ip2 /\ \A k \in 1 .. Len(s) : t[k] = s[k]
      BY <1>1, <2>2, AppendProperties DEF StatsType
    <3> HIDE DEF t, s, ip2
    <3>2. \A k \in 1 .. Len(s) : s[k] # ip2
      BY <2>5, <3>1 DEF Range
    <3>3. Distinct(t)
      <4> SUFFICES ASSUME NEW k \in 1 .. Len(s) + 1, NEW l \in 1 .. Len(s) + 1, t[k] = t[l]
                   PROVE  k = l
        BY <3>1 DEF Distinct
      <4>1. CASE k \in 1 .. Len(s) /\ l \in 1 .. Len(s)
        BY <1>1, <3>1, <4>1 DEF Distinct, StatsType, s
      <4>2. CASE k = Len(s) + 1 /\ l = Len(s) + 1
        BY <4>2
      <4>3. CASE k \in 1 .. Len(s) /\ l = Len(s) + 1
        BY <3>1, <3>2, <4>3
      <4>4. CASE k = Len(s) + 1 /\ l \in 1 .. Len(s)
        BY <3>1, <3>2, <4>4
      <4>5. Len(s) \in Nat
        BY <1>1 DEF s
      <4> QED  BY <4>1, <4>2, <4>3, <4>4, <4>5
    <3>4. Range(t) \subseteq Range(s) \union {ip2}
      <4>1. Len(s) \in Nat
        BY <1>1 DEF s
      <4>2. \A k \in 1 .. Len(s) + 1 : t[k] \in Range(s) \union {ip2}
        BY <3>1, <4>1 DEF Range
      <4> QED  BY <3>1, <4>2 DEF Range
    <3>5. ip_filtered_stats' = t /\ all_send_ips' = all_send_ips \union {ip2}
      BY <2>1, <2>5 DEF t, s, ip2
    <3> QED  BY <1>1, <2>3, <3>1, <3>3, <3>4, <3>5 DEF StatsType, s
  <2>6. CASE call.kind # "static" /\ ip2 \in Range(s)
    BY <1>1, <2>1, <2>3, <2>6 DEF StatsType
  <2> QED  BY <2>4, <2>5, <2>6
<1>5. CASE ForceStart
  BY <1>1, <1>5, Selected DEF StatsType, ForceStart
<1>6. CASE EndSleep \/ ReadStatus
  BY <1>1, <1>6 DEF StatsType, EndSleep, ReadStatus
<1>7. CASE SendStart \/ ParseError \/ WriteOutput \/ Return
  BY <1>1, <1>7 DEF StatsType, SendStart, ParseError, WriteOutput, Return
<1>8. CASE UNCHANGED controller
  BY <1>1, <1>8 DEF StatsType, controller
<1> QED
  BY <1>2, <1>3, <1>4, <1>5, <1>6, <1>7, <1>8
     DEF Next, Controller, Landing, NodeStep, Finished, StartLands, FetchLands, RmLands,
         CleanupLands, Serve, StartClients, RunClient, vars

(* The readings that are read and written are readings.                      *)
LEMMA OutputStep == TInv /\ [Next]_vars => OutputType'
<1> SUFFICES ASSUME TInv, [Next]_vars PROVE OutputType'
  OBVIOUS
<1>1. CallType /\ StatsType /\ OutputType /\ NodeType
  BY DEF TInv
<1>2. CASE EndSleep
  BY <1>1, <1>2 DEF OutputType, EndSleep
<1>3. CASE ReadStatus
  <2>1. Awaited \in Node
    BY <1>1, <1>3 DEF StatsType, ReadStatus, Awaited
  <2>2. local[Awaited] \in Seq(Reading) /\ resultList \in Seq(Reading)
    BY <1>1, <2>1 DEF NodeType, OutputType
  <2>3. resultList \o local[Awaited] \in Seq(Reading)
    BY <2>2, ConcatProperties
  <2> QED  BY <1>1, <1>3, <2>3 DEF OutputType, ReadStatus
<1>4. CASE ParseError
  BY <1>1, <1>4 DEF OutputType, ParseError
<1>5. CASE WriteOutput
  <2>1. calls \in 1 .. MaxCalls
    BY <1>1, <1>5 DEF CallType, WriteOutput
  <2>2. output[calls] \o resultList \in Seq(Reading)
    BY <1>1, <2>1, ConcatProperties DEF OutputType
  <2> QED  BY <1>1, <1>5, <2>2 DEF OutputType, WriteOutput
<1>6. CASE UNCHANGED <<resultList, output, ret>>
  BY <1>1, <1>6 DEF OutputType
<1> QED
  BY <1>2, <1>3, <1>4, <1>5, <1>6
     DEF Next, Controller, Landing, NodeStep, Finished, Call, NextServer, PlaceScript,
         ForceStart, SendStart, Return, StartLands, FetchLands, RmLands, CleanupLands,
         Serve, StartClients, RunClient, vars, controller

(* Offset counts pairs, Number counts them from one.                         *)
LEMMA PlanTyped ==
  ASSUME NEW s \in Sels, NEW p \in Eligible(s)
  PROVE  Number(s, p) \in Nat /\ Offset(s, p) \in Nat
<1>1. IsFiniteSet(Eligible(s))
  BY Selected
<1>2. /\ IsFiniteSet({q \in Eligible(s) : q[1] < p[1] \/ (q[1] = p[1] /\ q[2] <= p[2])})
      /\ IsFiniteSet({q \in Eligible(s) : q[1] = p[1] /\ q[2] < p[2]})
  BY <1>1, FS_Subset
<1> QED  BY <1>2, FS_CardinalityType DEF Number, Offset

(* The nodes' files, servers and clients keep their types.                   *)
LEMMA NodeTyped == TInv /\ [Next]_vars => NodeType'
<1> SUFFICES ASSUME TInv, [Next]_vars PROVE NodeType'
  OBVIOUS
<1>1. CallType /\ NodeType /\ NetType /\ CallsFirst
  BY DEF TInv
<1>2. CASE PlaceScript
  <2>1. PICK p \in Here :
          scripts' = [scripts EXCEPT ![call.sel[p[2]]][call.kind] =
                        {s \in @ : s.name # globalCountPortIncrs + 1}
                        \union {Script(globalCountPortIncrs + 1, call.sel[p[1]], countPortIncrs)}]
    BY <1>2 DEF PlaceScript
  <2>2. call.sel[p[1]] \in Node /\ call.sel[p[2]] \in Node /\ call.kind \in Kind
    BY <1>1, CallIs, Selected
  <2>3. Script(globalCountPortIncrs + 1, call.sel[p[1]], countPortIncrs) \in ScriptType
    BY <1>1, <2>2 DEF CallType, Script, ScriptType
  <2>4. {s \in scripts[call.sel[p[2]]][call.kind] : s.name # globalCountPortIncrs + 1}
          \union {Script(globalCountPortIncrs + 1, call.sel[p[1]], countPortIncrs)}
          \in SUBSET ScriptType
    BY <1>1, <2>2, <2>3 DEF NodeType
  <2>5. scripts' \in [Node -> [Kind -> SUBSET ScriptType]]
    BY <1>1, <2>1, <2>2, <2>4 DEF NodeType
  <2> QED  BY <1>1, <1>2, <2>5 DEF NodeType, PlaceScript
<1>3. CASE StartLands
  <2>1. PICK m \in Pending("start") : startFile' = [startFile EXCEPT ![m.to] = m.arg]
    BY <1>3 DEF StartLands
  <2>2. m.to \in Node /\ m.arg \in Kind
    BY <1>1, <2>1 DEF Pending, NetType, Commands
  <2> QED  BY <1>1, <1>3, <2>1, <2>2 DEF NodeType, StartLands
<1>4. CASE FetchLands
  <2>1. PICK m \in Pending("fetch") :
          local' = [local EXCEPT ![m.to] = IF status[m.to] = << >> THEN @ ELSE status[m.to]]
    BY <1>4 DEF FetchLands
  <2>2. m.to \in Node
    BY <1>1, <2>1 DEF Pending, NetType, Commands
  <2>3. local' \in [Node -> Seq(Reading)]
    BY <1>1, <2>1, <2>2 DEF NodeType
  <2> QED  BY <1>1, <1>4, <2>3 DEF NodeType, FetchLands, node
<1>5. CASE RmLands
  <2>1. PICK m \in Pending("rm") : local' = [local EXCEPT ![m.to] = << >>]
    BY <1>5 DEF RmLands
  <2>2. m.to \in Node
    BY <1>1, <2>1 DEF Pending, NetType, Commands
  <2>3. local' \in [Node -> Seq(Reading)]
    <3>1. << >> \in Seq(Reading)
      OBVIOUS
    <3> QED  BY <1>1, <2>1, <2>2, <3>1 DEF NodeType
  <2> QED  BY <1>1, <1>5, <2>3 DEF NodeType, RmLands, node
<1>6. CASE CleanupLands
  <2>1. PICK m \in Pending("cleanup") :
          /\ scripts' = [scripts EXCEPT ![m.to][m.arg] = {}]
          /\ status' = [status EXCEPT ![m.to] = << >>]
          /\ service' = [service EXCEPT ![m.to] = "waiting"]
          /\ servers' = [servers EXCEPT ![m.to] = {}]
          /\ clients' = [clients EXCEPT ![m.to] = {}]
    BY <1>6 DEF CleanupLands, CleanedStatus, Restarted
  <2>2. m.to \in Node /\ m.arg \in Kind
    BY <1>1, <2>1 DEF Pending, NetType, Commands
  <2>3. /\ UNCHANGED <<startFile, local>>
        /\ scripts' \in [Node -> [Kind -> SUBSET ScriptType]]
    BY <1>1, <1>6, <2>1, <2>2 DEF NodeType, CleanupLands
  <2> QED  BY <1>1, <2>1, <2>2, <2>3 DEF NodeType
<1>7. ASSUME NEW n \in Node, Serve(n) PROVE NodeType'
  BY <1>1, <1>7 DEF NodeType, Serve
<1>8. ASSUME NEW n \in Node, StartClients(n) PROVE NodeType'
  <2>1. startFile[n] \in Kind /\ scripts[n][startFile[n]] \in SUBSET ScriptType
    BY <1>1, <1>8 DEF NodeType, StartClients
  <2> QED  BY <1>1, <1>8, <2>1 DEF NodeType, StartClients
<1>9. ASSUME NEW n \in Node, RunClient(n) PROVE NodeType'
  <2>1. PICK s \in clients[n] :
          /\ clients' = [clients EXCEPT ![n] = @ \ {s}]
          /\ IF s.port \in servers[s.server]
             THEN /\ servers' = [servers EXCEPT ![s.server] = @ \ {s.port}]
                  /\ status' = [status EXCEPT ![n] =
                        Append(@, [src |-> n, dest |-> s.server, call |-> calls])]
             ELSE UNCHANGED <<servers, status>>
    BY <1>9 DEF RunClient
  <2>2. s \in ScriptType /\ s.server \in Node
    BY <1>1, <2>1 DEF NodeType, ScriptType
  <2>3. [src |-> n, dest |-> s.server, call |-> calls] \in Reading
    <3>1. calls \in 1 .. MaxCalls
      BY <1>1, <2>1, MaxCallsAssumption DEF CallsFirst, CallType
    <3> QED  BY <2>2, <3>1 DEF Reading
  <2>4. Append(status[n], [src |-> n, dest |-> s.server, call |-> calls]) \in Seq(Reading)
    BY <1>1, <2>3, AppendProperties DEF NodeType
  <2>5. /\ clients' \in [Node -> SUBSET ScriptType]
        /\ servers' \in [Node -> SUBSET (0 .. NumPorts - 1)]
    <3> DEFINE ports == 0 .. NumPorts - 1
    <3>1. servers \in [Node -> SUBSET ports] /\ clients \in [Node -> SUBSET ScriptType]
      BY <1>1 DEF NodeType
    <3> HIDE DEF ports
    <3>2. clients' \in [Node -> SUBSET ScriptType]
      BY <2>1, <3>1
    <3>3. servers' \in [Node -> SUBSET ports]
      <4>1. servers' = servers \/ servers' = [servers EXCEPT ![s.server] = @ \ {s.port}]
        BY <2>1
      <4> QED  BY <2>2, <3>1, <4>1
    <3> QED  BY <3>2, <3>3 DEF ports
  <2>6. status' \in [Node -> Seq(Reading)]
    BY <1>1, <2>1, <2>4 DEF NodeType
  <2> QED  BY <1>1, <1>9, <2>5, <2>6 DEF NodeType, RunClient
<1>10. CASE UNCHANGED <<node, local>>
  BY <1>1, <1>10 DEF NodeType, node
<1> QED
  BY <1>2, <1>3, <1>4, <1>5, <1>6, <1>7, <1>8, <1>9, <1>10
     DEF Next, Controller, Landing, NodeStep, Finished, Call, NextServer, ForceStart,
         SendStart, EndSleep, ReadStatus, ParseError, WriteOutput, Return, vars

(* What is spawned is a command to a node.                                   *)
LEMMA NetStep == TInv /\ [Next]_vars => NetType'
<1> SUFFICES ASSUME TInv, [Next]_vars PROVE NetType'
  OBVIOUS
<1>1. CallType /\ StatsType /\ NetType
  BY DEF TInv
<1>2. ASSUME pc # "idle", NEW op \in {"start", "fetch", "rm", "cleanup"}, NEW to \in Node,
             NEW arg \in Kind \union {None}, op \in {"start", "cleanup"} => arg \in Kind
      PROVE  /\ Command(op, to, arg) \in Commands
             /\ Command(op, to, arg).op \in {"start", "cleanup"} =>
                  Command(op, to, arg).arg \in Kind
  BY <1>1, <1>2 DEF CallType, Command, Commands
<1>3. CASE SendStart
  <2> DEFINE more == {Command("start", n, call.kind) : n \in all_send_ips}
  <2>1. \A m \in more : m \in Commands /\ (m.op \in {"start", "cleanup"} => m.arg \in Kind)
    BY <1>1, <1>2, <1>3 DEF CallType, SendStart
  <2>2. net' = net \union more
    BY <1>3 DEF SendStart
  <2> HIDE DEF more
  <2> QED  BY <1>1, <2>1, <2>2 DEF NetType
<1>4. CASE EndSleep
  <2> DEFINE more == {Command("fetch", n, None) : n \in Range(ip_filtered_stats)}
  <2>1. \A m \in more : m \in Commands /\ (m.op \in {"start", "cleanup"} => m.arg \in Kind)
    BY <1>1, <1>2, <1>4 DEF CallType, StatsType, EndSleep
  <2>2. net' = net \union more
    BY <1>4 DEF EndSleep
  <2> HIDE DEF more
  <2> QED  BY <1>1, <2>1, <2>2 DEF NetType
<1>5. CASE ReadStatus
  <2>1. Awaited \in Node
    BY <1>1, <1>5 DEF StatsType, ReadStatus, Awaited
  <2>2. net' = net \union {Command("rm", Awaited, None)} /\ pc # "idle"
    BY <1>5 DEF ReadStatus
  <2> QED  BY <1>1, <1>2, <2>1, <2>2 DEF NetType
<1>6. CASE ParseError
  <2>1. \A m \in ErrorCleanups :
          m \in Commands /\ (m.op \in {"start", "cleanup"} => m.arg \in Kind)
    BY <1>1, <1>2, <1>6 DEF CallType, ParseError, ErrorCleanups
  <2>2. net' = net \union ErrorCleanups
    BY <1>6 DEF ParseError
  <2> QED  BY <1>1, <2>1, <2>2 DEF NetType
<1>7. CASE WriteOutput
  <2> DEFINE more == {Command("cleanup", n, cleanupArg) : n \in all_send_ips}
  <2>1. cleanupArg \in Kind
    BY <1>1 DEF CallType, cleanupArg, Kind
  <2>2. \A m \in more : m \in Commands /\ (m.op \in {"start", "cleanup"} => m.arg \in Kind)
    BY <1>1, <1>2, <1>7, <2>1 DEF CallType, WriteOutput
  <2>3. net' = net \union more
    BY <1>7 DEF WriteOutput
  <2> HIDE DEF more
  <2> QED  BY <1>1, <2>2, <2>3 DEF NetType
<1>8. CASE Landing
  <2>1. net' \subseteq net
    BY <1>8 DEF Landing, StartLands, FetchLands, RmLands, CleanupLands
  <2> QED  BY <1>1, <2>1 DEF NetType
<1>9. CASE UNCHANGED net
  BY <1>1, <1>9 DEF NetType
<1> QED
  BY <1>3, <1>4, <1>5, <1>6, <1>7, <1>8, <1>9
     DEF Next, Controller, NodeStep, Finished, Call, NextServer, PlaceScript, ForceStart,
         Return, Serve, StartClients, RunClient, vars

(* Nothing is sent and nothing begins on a node before the first call.       *)
LEMMA FirstStep == TInv /\ [Next]_vars => CallsFirst'
<1> SUFFICES ASSUME TInv, [Next]_vars, calls' = 0
             PROVE  /\ net' = {}
                    /\ \A n \in Node : /\ startFile'[n] = None /\ clients'[n] = {}
                                      /\ service'[n] = "waiting"
  BY DEF CallsFirst
<1>1. CallType /\ NodeType /\ NetType /\ CallsFirst /\ MaxCalls \in Nat
  BY MaxCallsAssumption DEF TInv
<1>2. ~Call
  BY <1>1 DEF Call, CallType
<1>3. calls = 0
  BY <1>2 DEF Next, Controller, ParseError, Landing, NodeStep, Finished, NextServer, PlaceScript,
              ForceStart, SendStart, EndSleep, ReadStatus, WriteOutput, Return, StartLands,
              FetchLands, RmLands, CleanupLands, Serve, StartClients, RunClient, vars, controller
<1>4. pc = "idle" /\ net = {}
  BY <1>1, <1>3 DEF CallType, CallsFirst
<1>5. ASSUME NEW n \in Node PROVE ~Serve(n) /\ ~StartClients(n) /\ ~RunClient(n)
  BY <1>1, <1>3 DEF CallsFirst, Serve, StartClients, RunClient
<1>6. ~Landing
  BY <1>4 DEF Landing, StartLands, FetchLands, RmLands, CleanupLands, Pending
<1>7. ~Controller /\ ~ParseError
  BY <1>4 DEF Controller, ParseError, NextServer, PlaceScript, ForceStart, SendStart, EndSleep,
              ReadStatus, WriteOutput, Return
<1>8. UNCHANGED vars
  BY <1>2, <1>5, <1>6, <1>7 DEF Next, NodeStep, Finished
<1> QED  BY <1>1, <1>3, <1>8 DEF CallsFirst, vars, node

(* Every reachable state is well typed.                                      *)
THEOREM Typed == Spec => []TInv
<1>1. TInv /\ [Next]_vars => TInv'
  BY CallStep, StatsStep, OutputStep, NodeTyped, NetStep, FirstStep DEF TInv
<1> QED  BY <1>1, InitTyped, PTL DEF Spec

(* Every variable keeps its type, for any number of nodes and calls: readings *)
(* are of the nodes and of calls that were made, and the loops never leave    *)
(* the caller's selection.                                                    *)
THEOREM RoundTyped == Spec => []TypeOK
BY Typed, TypeParts, PTL

-----------------------------------------------------------------------------
(* The loops over the pairs and the scripts they place.                      *)

Done == Eligible(call.sel) \ todo

\* The counters count the pairs that are done, and these come before the others:
\* the outer loop has not gone past a pair to do, nor done one ahead of it.
LoopInv ==
  pc # "idle" =>
    /\ globalCountPortIncrs = Cardinality(Done)
    /\ cur >= 1 => countPortIncrs = Cardinality({q \in Done : q[1] = cur})
    /\ \A q \in todo : cur <= q[1]
    /\ \A q \in Done : q[1] <= cur
    /\ \A q \in Done, r \in todo : q[1] = r[1] => q[2] < r[2]

(* A pair that has its turn is numbered by the counters.                     *)
LEMMA Counted ==
  ASSUME TInv, LoopInv, pc = "pairs", NEW p \in Here, \A q \in Here : p[2] <= q[2]
  PROVE  /\ Number(call.sel, p) = globalCountPortIncrs + 1
         /\ Offset(call.sel, p) = countPortIncrs
<1> DEFINE E == Eligible(call.sel)
<1>1. /\ call.sel \in Sels /\ todo \subseteq E /\ cur \in Nat
      /\ p \in todo /\ p[1] = cur
  BY CallIs, Selected DEF TInv, CallType
<1>2. /\ IsFiniteSet(E)
      /\ \A q \in E : q = <<q[1], q[2]>> /\ q[1] \in Nat \ {0} /\ q[2] \in Nat
  <2>1. /\ IsFiniteSet(E) /\ Len(call.sel) \in Nat
        /\ \A q \in E : q = <<q[1], q[2]>> /\ q[1] \in 1 .. Len(call.sel)
                        /\ q[2] \in 1 .. Len(call.sel)
    BY <1>1, Selected
  <2> HIDE DEF E
  <2> QED  BY <2>1
<1>3. /\ \A q \in todo : cur <= q[1]
      /\ \A q \in Done : q[1] <= cur
      /\ \A q \in Done : q[1] = cur => q[2] < p[2]
      /\ globalCountPortIncrs = Cardinality(Done)
      /\ countPortIncrs = Cardinality({q \in Done : q[1] = cur})
  BY <1>1, <1>2 DEF LoopInv
<1>4. /\ Done \subseteq E /\ E = Done \union todo /\ p \in E /\ p \notin Done
      /\ \A q \in E : q \in Done \/ q \in todo
      /\ \A q \in todo : q[1] = cur => p[2] <= q[2]
  BY <1>1 DEF Done, Here
<1> HIDE DEF E
<1>5. {q \in E : q[1] < p[1] \/ (q[1] = p[1] /\ q[2] <= p[2])} = Done \union {p}
  <2>1. ASSUME NEW q \in E, q[1] < p[1] \/ (q[1] = p[1] /\ q[2] <= p[2])
        PROVE  q \in Done \union {p}
    BY <1>1, <1>2, <1>3, <1>4, <2>1
  <2>2. ASSUME NEW q \in Done PROVE q[1] < p[1] \/ (q[1] = p[1] /\ q[2] <= p[2])
    BY <1>1, <1>2, <1>3, <1>4
  <2>3. p[1] = p[1] /\ p[2] <= p[2]
    BY <1>2, <1>4
  <2> QED  BY <1>4, <2>1, <2>2, <2>3
<1>6. {q \in E : q[1] = p[1] /\ q[2] < p[2]} = {q \in Done : q[1] = cur}
  <2>1. ASSUME NEW q \in E, q[1] = p[1], q[2] < p[2] PROVE q \in Done
    BY <1>1, <1>2, <1>4, <2>1
  <2> QED  BY <1>1, <1>3, <1>4, <2>1
<1>7. IsFiniteSet(Done)
  BY <1>2, <1>4, FS_Subset
<1>8. Cardinality(Done \union {p}) = Cardinality(Done) + 1
  BY <1>4, <1>7, FS_AddElement
<1> QED  BY <1>3, <1>5, <1>6, <1>8 DEF Number, Offset, E

(* Eligible depends on the regions only, Done on the call.                   *)
LEMMA LoopSame ==
  ASSUME LoopInv, UNCHANGED <<regionOf, call, cur, todo, countPortIncrs, globalCountPortIncrs>>,
         pc' # "idle" => pc # "idle"
  PROVE  LoopInv'
BY DEF LoopInv, Done, Eligible

(* The loops keep their order.                                               *)
LEMMA LoopStep == TInv /\ LoopInv /\ [Next]_vars => LoopInv'
<1> SUFFICES ASSUME TInv, LoopInv, [Next]_vars PROVE LoopInv'
  OBVIOUS
<1>1. CallType /\ call.sel \in Sels /\ todo \subseteq Eligible(call.sel) /\ cur \in Nat
  BY CallIs, Selected DEF TInv, CallType
<1>2. CASE Call
  <2>1. Done' = {} /\ cur' = 0 /\ globalCountPortIncrs' = 0 /\ todo' = Eligible(call'.sel)
    BY <1>2 DEF Call, Done, Eligible
  <2>2. call'.sel \in Sels /\ regionOf' = regionOf
    <3>1. CallType'
      BY CallStep
    <3> QED  BY <1>2, <3>1 DEF CallType, Call
  <2>3. \A q \in todo' : 0 <= q[1]
    BY <2>1, <2>2, Selected
  <2>4. Cardinality({}) = 0
    BY FS_EmptySet
  <2> QED  BY <2>1, <2>3, <2>4 DEF LoopInv
<1>3. CASE NextServer
  <2>1. /\ UNCHANGED <<regionOf, call, todo, globalCountPortIncrs, pc>> /\ pc = "pairs"
        /\ cur' = cur + 1 /\ countPortIncrs' = 0 /\ Here = {} /\ Done' = Done
    BY <1>3 DEF NextServer, Done, Eligible
  <2>2. \A q \in todo : q[1] \in Nat
    BY <1>1, Selected
  <2>3. \A q \in todo : cur <= q[1] /\ q[1] # cur
    BY <2>1 DEF LoopInv, Here
  <2>4. \A q \in todo : cur + 1 <= q[1]
    BY <1>1, <2>2, <2>3
  <2>5. \A q \in Done : q[1] <= cur /\ q[1] \in Nat
    BY <1>1, <2>1, Selected DEF LoopInv, Done
  <2>6. {q \in Done : q[1] = cur + 1} = {} /\ \A q \in Done : q[1] <= cur + 1
    BY <1>1, <2>5
  <2>7. Cardinality({}) = 0
    BY FS_EmptySet
  <2> QED  BY <2>1, <2>4, <2>6, <2>7 DEF LoopInv
<1>4. CASE PlaceScript
  <2>1. PICK p \in Here :
          /\ \A q \in Here : p[2] <= q[2]
          /\ todo' = todo \ {p}
          /\ globalCountPortIncrs' = globalCountPortIncrs + 1
          /\ countPortIncrs' = countPortIncrs + 1
    BY <1>4 DEF PlaceScript, PortAfter
  <2>2. pc = "pairs" /\ UNCHANGED <<regionOf, call, cur>>
    BY <1>4 DEF PlaceScript
  <2>3. p \in todo /\ p[1] = cur /\ p \in Eligible(call.sel)
    BY <2>1, CallIs, <1>1
  <2>4. Done' = Done \union {p} /\ p \notin Done
    BY <2>1, <2>2, <2>3, <1>1 DEF Done, Eligible
  <2>5. IsFiniteSet(Eligible(call.sel)) /\ Done \subseteq Eligible(call.sel)
    BY <1>1, Selected DEF Done
  <2>6. Cardinality(Done \union {p}) = Cardinality(Done) + 1
    BY <2>4, <2>5, FS_Subset, FS_AddElement
  <2>7. /\ {q \in Done' : q[1] = cur} = {q \in Done : q[1] = cur} \union {p}
        /\ Cardinality({q \in Done : q[1] = cur} \union {p}) =
             Cardinality({q \in Done : q[1] = cur}) + 1
    <3>1. {q \in Done : q[1] = cur} \subseteq Eligible(call.sel)
          /\ p \notin {q \in Done : q[1] = cur}
      BY <2>4, <2>5
    <3>2. IsFiniteSet({q \in Done : q[1] = cur})
      BY <2>5, <3>1, FS_Subset
    <3> QED  BY <2>3, <2>4, <3>1, <3>2, FS_AddElement
  <2>8. \A q \in todo' : q \in todo /\ q # p
    BY <2>1
  <2>9. \A r \in todo' : p[1] = r[1] => p[2] < r[2]
    <3> SUFFICES ASSUME NEW r \in todo', p[1] = r[1] PROVE p[2] < r[2]
      OBVIOUS
    <3>1. r \in Here /\ r # p /\ r \in Eligible(call.sel)
      BY <1>1, <2>3, <2>8 DEF Here
    <3>2. /\ p[2] \in 1 .. Len(call.sel) /\ p = <<p[1], p[2]>>
          /\ r[2] \in 1 .. Len(call.sel) /\ r = <<r[1], r[2]>>
          /\ Len(call.sel) \in Nat
      BY <1>1, <2>3, <3>1, Selected
    <3> QED  BY <2>1, <3>1, <3>2
  <2>10. cur <= cur
    BY <1>1
  <2> QED
    BY <2>1, <2>2, <2>3, <2>4, <2>6, <2>7, <2>8, <2>9, <2>10 DEF LoopInv
<1>5. CASE UNCHANGED <<regionOf, call, cur, todo, countPortIncrs, globalCountPortIncrs>>
           /\ (pc' # "idle" => pc # "idle")
  BY <1>5, LoopSame
<1> QED
  BY <1>2, <1>3, <1>4, <1>5
     DEF Next, Controller, ParseError, Landing, NodeStep, Finished, ForceStart, SendStart,
         EndSleep, ReadStatus, WriteOutput, Return, StartLands, FetchLands, RmLands,
         CleanupLands, Serve, StartClients, RunClient, vars, controller

(* Two pairs with the same server and the same offset are one.               *)
LEMMA OffsetsDiffer ==
  ASSUME NEW s \in Sels, NEW p \in Eligible(s), NEW q \in Eligible(s),
         p[1] = q[1], Offset(s, p) = Offset(s, q)
  PROVE  p = q
<1>1. ASSUME NEW a \in Eligible(s), NEW b \in Eligible(s), a[1] = b[1], a[2] < b[2]
      PROVE  Offset(s, a) < Offset(s, b)
  <2> DEFINE A == {r \in Eligible(s) : r[1] = a[1] /\ r[2] < a[2]}
             B == {r \in Eligible(s) : r[1] = b[1] /\ r[2] < b[2]}
  <2>1. /\ IsFiniteSet(Eligible(s)) /\ Len(s) \in Nat
        /\ \A r \in Eligible(s) : r[2] \in 1 .. Len(s)
    BY Selected
  <2>2. A \subseteq B /\ a \in B /\ a \notin A
    BY <1>1, <2>1
  <2>3. IsFiniteSet(A) /\ IsFiniteSet(B)
    BY <2>1, FS_Subset
  <2> HIDE DEF A, B
  <2>4. Cardinality(A \union {a}) = Cardinality(A) + 1 /\ IsFiniteSet(A \union {a})
    BY <2>2, <2>3, FS_AddElement
  <2>5. Cardinality(A \union {a}) <= Cardinality(B)
    BY <2>2, <2>3, FS_Subset
  <2>6. Cardinality(A) \in Nat /\ Cardinality(B) \in Nat
    BY <2>3, FS_CardinalityType
  <2>7. Offset(s, a) = Cardinality(A) /\ Offset(s, b) = Cardinality(B)
    BY DEF Offset, A, B
  <2> QED  BY <2>4, <2>5, <2>6, <2>7
<1>2. Offset(s, p) \in Nat /\ Offset(s, q) \in Nat
  BY PlanTyped
<1>3. /\ p[2] \in 1 .. Len(s) /\ q[2] \in 1 .. Len(s) /\ Len(s) \in Nat
      /\ p = <<p[1], p[2]>> /\ q = <<q[1], q[2]>>
  BY Selected
<1>4. ~(p[2] < q[2]) /\ ~(q[2] < p[2])
  BY <1>1, <1>2
<1> QED  BY <1>3, <1>4

\* The scripts of a measurement are some of those planned for a selection.
Fits(k, sel) == \A n \in Node : scripts[n][k] \subseteq Plan(sel, n)

\* At any time, of the selection of the call that places them.
FilesInv ==
  /\ \A k \in Kind : \E sel \in Sels : Fits(k, sel)
  /\ pc # "idle" /\ call.mode # 3 => Fits(call.kind, call.sel)

(* Initially there are none.                                                 *)
LEMMA FilesInit == Init => LoopInv /\ FilesInv
<1> SUFFICES ASSUME Init PROVE LoopInv /\ FilesInv
  OBVIOUS
<1>1. pc = "idle" /\ AllIPs \in Sels
  BY DEF Init, Sels
<1>2. \A k \in Kind : Fits(k, AllIPs)
  BY DEF Init, Fits
<1> QED  BY <1>1, <1>2 DEF LoopInv, FilesInv

(* Fewer scripts fit as well.                                                *)
LEMMA FewerFit ==
  ASSUME FilesInv, UNCHANGED <<regionOf, call>>, pc' # "idle" => pc # "idle", CallType,
         \A n \in Node, k \in Kind : scripts'[n][k] \subseteq scripts[n][k]
  PROVE  FilesInv'
<1>1. \A sel, n : Plan(sel, n)' = Plan(sel, n)
  BY DEF Plan, Eligible, Number, Offset
<1>2. \A k \in Kind : \A sel : Fits(k, sel) => Fits(k, sel)'
  BY <1>1 DEF Fits
<1>3. call.kind \in Kind
  BY CallIs
<1> QED  BY <1>2, <1>3 DEF FilesInv

(* The scripts always fit, if callers heed what other selections leave.      *)
LEMMA FilesStep ==
  ASSUME "cleared" \in Heeded
  PROVE  TInv /\ LoopInv /\ FilesInv /\ [Next]_vars => FilesInv'
<1> SUFFICES ASSUME TInv, LoopInv, FilesInv, [Next]_vars PROVE FilesInv'
  OBVIOUS
<1>1. CallType /\ NodeType /\ NetType /\ call.sel \in Sels /\ call.kind \in Kind
  BY CallIs DEF TInv
<1>2. CASE Call
  <2>1. PICK c \in [kind : Kinds, mode : Modes, sel : Selections] : call' = c /\ CallAllowed(c)
    BY <1>2 DEF Call
  <2>2. UNCHANGED <<regionOf, scripts>>
    BY <1>2 DEF Call, node
  <2>3. \A sel, n : Plan(sel, n)' = Plan(sel, n)
    BY <2>2 DEF Plan, Eligible, Number, Offset
  <2>4. \A k, sel : Fits(k, sel)' = Fits(k, sel)
    BY <2>2, <2>3 DEF Fits
  <2>5. call'.mode # 3 => Fits(call'.kind, call'.sel)
    BY <2>1, <2>2, <2>3 DEF CallAllowed, Fits
  <2> QED  BY <2>4, <2>5 DEF FilesInv
<1>3. CASE PlaceScript
  <2>1. PICK p \in Here :
          /\ \A q \in Here : p[2] <= q[2]
          /\ scripts' = [scripts EXCEPT ![call.sel[p[2]]][call.kind] =
                            {s \in @ : s.name # globalCountPortIncrs + 1}
                            \union {Script(globalCountPortIncrs + 1, call.sel[p[1]],
                                           countPortIncrs)}]
    BY <1>3 DEF PlaceScript
  <2> DEFINE new == Script(Number(call.sel, p), call.sel[p[1]], Offset(call.sel, p))
  <2>2. pc = "pairs" /\ call.mode # 3 /\ UNCHANGED <<regionOf, call>>
    BY <1>3 DEF PlaceScript
  <2>3. p \in Eligible(call.sel) /\ call.sel[p[2]] \in Node
    BY <1>1, CallIs, Selected
  <2>4. new = Script(globalCountPortIncrs + 1, call.sel[p[1]], countPortIncrs)
    BY <2>1, <2>2, Counted
  <2>5. new \in Plan(call.sel, call.sel[p[2]])
    BY <2>3 DEF Plan
  <2> HIDE DEF new
  <2>6. \A n \in Node, k \in Kind :
          scripts'[n][k] \subseteq scripts[n][k] \union
            (IF n = call.sel[p[2]] /\ k = call.kind THEN {new} ELSE {})
    BY <1>1, <2>1, <2>3, <2>4 DEF NodeType
  <2>7. \A sel, n : Plan(sel, n)' = Plan(sel, n)
    BY <2>2 DEF Plan, Eligible, Number, Offset
  <2>8. Fits(call.kind, call.sel)'
    BY <1>1, <2>2, <2>5, <2>6, <2>7 DEF Fits, FilesInv
  <2>9. ASSUME NEW k \in Kind, k # call.kind PROVE \E sel \in Sels : Fits(k, sel)'
    BY <2>6, <2>7, <2>9 DEF Fits, FilesInv
  <2> QED  BY <1>1, <2>2, <2>8, <2>9 DEF FilesInv
<1>4. CASE CleanupLands
  <2>1. PICK m \in Pending("cleanup") : scripts' = [scripts EXCEPT ![m.to][m.arg] = {}]
    BY <1>4 DEF CleanupLands
  <2>2. \A n \in Node, k \in Kind : scripts'[n][k] \subseteq scripts[n][k]
    BY <1>1, <2>1 DEF NodeType
  <2>3. UNCHANGED <<regionOf, call, pc>>
    BY <1>4 DEF CleanupLands, controller
  <2> QED  BY <1>1, <2>2, <2>3, FewerFit
<1>5. CASE UNCHANGED <<regionOf, call, scripts>> /\ (pc' # "idle" => pc # "idle")
  BY <1>1, <1>5, FewerFit
<1> QED
  BY <1>2, <1>3, <1>4, <1>5
     DEF Next, Controller, ParseError, Landing, NodeStep, Finished, NextServer, ForceStart,
         SendStart, EndSleep, ReadStatus, WriteOutput, Return, StartLands, FetchLands, RmLands,
         Serve, StartClients, RunClient, vars, controller, node

(* They do in every reachable state.                                         *)
THEOREM Filed ==
  ASSUME "cleared" \in Heeded
  PROVE  Spec => [](TInv /\ LoopInv /\ FilesInv)
<1>1. TInv /\ LoopInv /\ FilesInv /\ [Next]_vars => LoopInv' /\ FilesInv'
  BY LoopStep, FilesStep
<1> QED  BY <1>1, Typed, FilesInit, PTL DEF Spec

(* Scripts that fit a selection keep apart.                                  *)
LEMMA ClientsApart == FilesInv => OneClientPerServer
<1> SUFFICES ASSUME FilesInv, NEW k \in Kind, NEW n1 \in Node, NEW n2 \in Node,
                    NEW s1 \in scripts[n1][k], NEW s2 \in scripts[n2][k],
                    s1.server = s2.server, s1.port = s2.port
             PROVE  n1 = n2 /\ s1 = s2
  BY DEF OneClientPerServer
<1>1. PICK sel \in Sels : s1 \in Plan(sel, n1) /\ s2 \in Plan(sel, n2)
  BY DEF FilesInv, Fits
<1>2. PICK p \in Eligible(sel) :
        sel[p[2]] = n1 /\ s1 = Script(Number(sel, p), sel[p[1]], Offset(sel, p))
  BY <1>1 DEF Plan
<1>3. PICK q \in Eligible(sel) :
        sel[q[2]] = n2 /\ s2 = Script(Number(sel, q), sel[q[1]], Offset(sel, q))
  BY <1>1 DEF Plan
<1>4. sel[p[1]] = sel[q[1]] /\ Offset(sel, p) = Offset(sel, q)
  BY <1>2, <1>3 DEF Script
<1>5. p[1] = q[1]
  BY <1>4, Selected DEF Distinct
<1>6. p = q
  BY <1>4, <1>5, OffsetsDiffer
<1> QED  BY <1>2, <1>3, <1>6

(* No two scripts that start together meet at a server's port, if modes 1 and 2 *)
(* are used only where no files of another selection are left; runMonitor does *)
(* not check that.  Calls in mode 3, with whatever nodes, and calls that find  *)
(* some of their own files are covered: the port counts the pairs of a server, *)
(* and the files of a measurement are then never those of two selections.      *)
THEOREM OneClientHolds ==
  ASSUME "cleared" \in Heeded
  PROVE  Spec => []OneClientPerServer
BY Filed, ClientsApart, PTL

-----------------------------------------------------------------------------
(* The number of pairs, as runMonitor works it out from the regions' sizes.  *)

\* Up to three nodes in a region the factorial of their number is the number of
\* their pairs: 2! = 2 and 3! = 6, but 4! = 24 where there are 12.
SmallRegions ==
  \A l \in Layouts : \A r \in Range(l) : Cardinality({n \in DOMAIN l : l[n] = r}) <= 3

(* The factorial is defined on the naturals.                                 *)
LEMMA FactorialIs ==
  /\ Factorial \in [Nat -> Nat]
  /\ \A n \in Nat : Factorial[n] = IF n = 0 THEN 1 ELSE n * Factorial[n - 1]
<1> DEFINE op == [t \in Nat \X Nat |-> t[1] * t[2]]
           Is(f) == f = [n \in Nat |-> IF n = 0 THEN 1 ELSE n * f[n - 1]]
<1>1. \A a, b \in Nat : op[<<a, b>>] = a * b
  OBVIOUS
<1>0. \A a, b \in Nat : op[<<a, b>>] \in Nat
  OBVIOUS
<1> HIDE DEF op
<1>2. PICK f \in [Nat -> Nat] : \A n \in Nat : f[n] = IF n = 0 THEN 1 ELSE op[<<n, f[n - 1]>>]
  <2> DEFINE A == Nat
             one == 1
  <2>1. \A n \in Nat : \A k \in 1 .. n : k \in Nat
    OBVIOUS
  <2>2. \A n \in Nat : Steps(op, n, A)
    BY <1>0, <2>1 DEF Steps
  <2>3. one \in A
    OBVIOUS
  <2>4. \E f \in [Nat -> A] :
          \A n \in Nat : f[n] = IF n = 0 THEN one ELSE op[<<n, f[n - 1]>>]
    <3> HIDE DEF A, one
    <3> QED  BY <2>2, <2>3, NatRecursion
  <2> QED  BY <2>4
<1>3. Is(f)
  <2>1. \A n \in Nat : f[n] = IF n = 0 THEN 1 ELSE n * f[n - 1]
    <3>1. \A n \in Nat : n # 0 => n - 1 \in Nat
      OBVIOUS
    <3> QED  BY <1>1, <1>2, <3>1
  <2> QED  BY <2>1
<1>4. Is(Factorial)
  <2>1. Factorial = CHOOSE g : Is(g)
    BY DEF Factorial
  <2> HIDE DEF Is
  <2> QED  BY <1>3, <2>1
<1>5. \A n \in Nat : Factorial[n] = IF n = 0 THEN 1 ELSE n * Factorial[n - 1]
  BY <1>4
<1>6. ASSUME NEW n \in Nat PROVE Factorial[n] \in Nat
  <2> DEFINE G == {m \in Nat : Factorial[m] \in Nat}
  <2>1. 0 \in G
    BY <1>5
  <2>2. ASSUME NEW m \in Nat, m \in G PROVE m + 1 \in G
    <3>1. Factorial[m + 1] = (m + 1) * Factorial[m]
      BY <1>5
    <3> QED  BY <2>2, <3>1
  <2>3. n \in G
    <3> HIDE DEF G
    <3> QED  BY <2>1, <2>2, CountInduction
  <2> QED  BY <2>3
<1>7. DOMAIN Factorial = Nat /\ Factorial = [n \in Nat |-> Factorial[n]]
  BY <1>4
<1> QED  BY <1>5, <1>6, <1>7

(* In a region of two or three nodes it counts the pairs.                    *)
LEMMA SmallFactorial == \A n \in {2, 3} : Factorial[n] = n * n - n
<1>1. Factorial[0] = 1 /\ Factorial[1] = 1 * Factorial[0]
  BY FactorialIs
<1>2. Factorial[2] = 2 * Factorial[1] /\ Factorial[3] = 3 * Factorial[2]
  BY FactorialIs
<1> QED  BY <1>1, <1>2

\* The regions with more than one node, the one of them that the sum takes next,
\* and the sums over some of them.
Shared == {r \in Range(regionOf) : RegionSize(r) > 1}
First(T) == CHOOSE r \in T : TRUE
Duplicates(f, base) ==
  f = [T \in SUBSET Shared |-> IF T = {} THEN base
                               ELSE Factorial[RegionSize(First(T))] + f[T \ {First(T)}]]

LEMMA SumExpand == \A s : sumOfDuplicates(s) = (CHOOSE f : Duplicates(f, Len(s)))[Shared]
BY DEF sumOfDuplicates, MapThenFoldSet, Duplicates, First, Shared

(* There are finitely many regions, with finitely many nodes.                *)
LEMMA RegionsFinite ==
  ASSUME regionOf \in Layouts
  PROVE  /\ DOMAIN regionOf = Node /\ IsFiniteSet(Range(regionOf)) /\ IsFiniteSet(Shared)
         /\ regionOf \in Surjection(Node, Range(regionOf))
         /\ \A r : /\ IsFiniteSet({n \in Node : regionOf[n] = r}) /\ RegionSize(r) \in Nat
                   /\ RegionSize(r) = Cardinality({n \in Node : regionOf[n] = r})
<1>1. DOMAIN regionOf = Node
  BY LayoutAssumption
<1>2. regionOf \in Surjection(Node, Range(regionOf))
  <2>1. \A t \in Range(regionOf) : \E n \in Node : regionOf[n] = t
    BY <1>1 DEF Range
  <2>2. regionOf \in [Node -> Range(regionOf)]
    BY LayoutAssumption
  <2> QED  BY <2>1, <2>2 DEF Surjection
<1>3. IsFiniteSet(Range(regionOf))
  BY <1>2, NodesFinite, FS_Surjection
<1>4. IsFiniteSet(Shared)
  BY <1>3, FS_Subset DEF Shared
<1>5. \A r : IsFiniteSet({n \in Node : regionOf[n] = r})
  BY NodesFinite, FS_Subset
<1>6. \A r : /\ RegionSize(r) = Cardinality({n \in Node : regionOf[n] = r})
             /\ RegionSize(r) \in Nat
  BY <1>1, <1>5, FS_CardinalityType DEF RegionSize
<1> QED  BY <1>1, <1>2, <1>3, <1>4, <1>5, <1>6

(* The sums exist.                                                           *)
LEMMA SumExist ==
  ASSUME regionOf \in Layouts, NEW base \in Nat
  PROVE  \E f : f \in [SUBSET Shared -> Nat] /\ Duplicates(f, base)
<1> DEFINE size(r) == Factorial[RegionSize(r)]
           pick == [T \in SUBSET Shared |-> First(T)]
           op == [t \in Shared \X Nat |-> size(t[1]) + t[2]]
<1>1. \A T \in SUBSET Shared : T # {} => First(T) \in T
  BY DEF First
<1>2. \A r \in Shared : size(r) \in Nat
  BY RegionsFinite, FactorialIs
<1> HIDE DEF size
<1>3. \A r \in Shared, a \in Nat : op[<<r, a>>] = size(r) + a /\ op[<<r, a>>] \in Nat
  BY <1>2
<1>4. PICK f \in [SUBSET Shared -> Nat] : Folds(f, op, base, pick, Shared)
  <2>1. Picks(pick, Shared) /\ Combines(op, Shared, Nat) /\ IsFiniteSet(Shared)
    BY <1>1, <1>3, RegionsFinite DEF Picks, Combines
  <2> HIDE DEF pick, op
  <2> QED  BY <2>1, SetRecursion
<1>5. \A T \in SUBSET Shared :
        f[T] = IF T = {} THEN base ELSE size(First(T)) + f[T \ {First(T)}]
  <2> TAKE T \in SUBSET Shared
  <2>1. CASE T = {}
    BY <1>4, <2>1 DEF Folds
  <2>2. CASE T # {}
    <3>1. f[T] = op[<<First(T), f[T \ {First(T)}]>>]
      BY <1>4, <2>2 DEF Folds
    <3>2. First(T) \in Shared /\ T \ {First(T)} \in SUBSET Shared
      BY <1>1, <2>2
    <3>3. f[T \ {First(T)}] \in Nat
      BY <3>2
    <3> QED  BY <1>3, <2>2, <3>1, <3>2, <3>3
  <2> QED  BY <2>1, <2>2
<1>6. Duplicates(f, base)
  <2>1. f = [T \in SUBSET Shared |-> f[T]]
    OBVIOUS
  <2> QED  BY <1>5, <2>1 DEF Duplicates, size
<1> QED  BY <1>6

\* The positions of a selection's nodes in the regions of T, and the pairs of them
\* within one region.
Places(s, T) == {k \in DOMAIN s : regionOf[s[k]] \in T}
Within(s, T) == {p \in (DOMAIN s) \X (DOMAIN s) :
                   regionOf[s[p[1]]] = regionOf[s[p[2]]] /\ regionOf[s[p[1]]] \in T}

\* main.py's selections have a node per region; livePredictor.py passes all nodes.
Covering(s) == s = AllIPs \/ Cardinality(Range(regionOf)) = Cardinality(Node)

(* A shared region has as many of the selection's positions as nodes.        *)
LEMMA RegionPlaces ==
  ASSUME regionOf \in Layouts, NEW s \in Sels, Covering(s), NEW r \in Shared
  PROVE  /\ IsFiniteSet(Places(s, {r})) /\ Cardinality(Places(s, {r})) = RegionSize(r)
         /\ RegionSize(r) \in Nat /\ RegionSize(r) > 1
<1>1. RegionSize(r) \in Nat /\ RegionSize(r) > 1
      /\ RegionSize(r) = Cardinality({n \in Node : regionOf[n] = r})
      /\ IsFiniteSet({n \in Node : regionOf[n] = r})
  BY RegionsFinite DEF Shared
<1> DEFINE N == {n \in Node : regionOf[n] = r}
<1>2. s = AllIPs
  <2> SUFFICES ASSUME Cardinality(Range(regionOf)) = Cardinality(Node) PROVE FALSE
    BY DEF Covering
  <2>1. regionOf \in Injection(Node, Range(regionOf))
    BY RegionsFinite, NodesFinite, FS_SurjSameCardinalityImpliesInj
  <2>2. \A m, n \in N : m = n
    BY <2>1 DEF Injection, IsInjective
  <2>3. N # {}
    BY <1>1, FS_EmptySet
  <2>4. PICK n \in N : N = {n}
    BY <2>2, <2>3
  <2>5. Cardinality({n}) = 1
    BY FS_Singleton
  <2> QED  BY <1>1, <2>4, <2>5
<1> DEFINE P == Places(s, {r})
           f == [k \in P |-> s[k]]
<1>3. f \in Bijection(P, N)
  <2>1. s \in Seq(Node) /\ Distinct(s) /\ Node = Range(s)
    BY <1>2, Selected DEF Node
  <2>2. f \in [P -> N]
    BY <2>1 DEF Places
  <2>3. \A k, l \in P : f[k] = f[l] => k = l
    BY <2>1 DEF Places, Distinct
  <2>4. \A n \in N : \E k \in P : f[k] = n
    BY <2>1 DEF Places, Range
  <2> HIDE DEF f, P, N
  <2> QED  BY <2>2, <2>3, <2>4 DEF Bijection, Injection, Surjection, IsInjective
<1>4. IsFiniteSet(P)
  BY Selected, Segment, FS_Subset DEF Places
<1>5. Cardinality(P) = Cardinality(N)
  <2> HIDE DEF f, P, N
  <2> QED  BY <1>3, <1>4, FS_Bijection DEF ExistsBijection
<1> QED  BY <1>1, <1>4, <1>5

(* There is only one such function.                                          *)
LEMMA SumUnique ==
  ASSUME regionOf \in Layouts, NEW base, NEW f, NEW g, Duplicates(f, base), Duplicates(g, base)
  PROVE  f = g
<1> DEFINE Bad == {T \in SUBSET Shared : f[T] # g[T]}
<1>1. IsFiniteSet(Shared)
  BY RegionsFinite
<1>2. Bad = {}
  <2> SUFFICES ASSUME Bad # {} PROVE FALSE
    OBVIOUS
  <2>1. PICK T \in Bad : \A U \in Bad : U \subseteq T => U = T
    <3>1. Bad \in SUBSET (SUBSET Shared)
      OBVIOUS
    <3> HIDE DEF Bad
    <3> QED  BY <1>1, <3>1, SmallestSubset
  <2>2. T # {}
    BY <2>1 DEF Duplicates
  <2> DEFINE U == T \ {First(T)}
  <2>3. U \in SUBSET Shared /\ U \subseteq T /\ U # T
    <3>1. First(T) \in T
      BY <2>2 DEF First
    <3> QED  BY <2>1, <3>1
  <2>4. f[U] = g[U]
    BY <2>1, <2>3
  <2>5. /\ f[T] = Factorial[RegionSize(First(T))] + f[U]
        /\ g[T] = Factorial[RegionSize(First(T))] + g[U]
    BY <2>1, <2>2 DEF Duplicates
  <2> QED  BY <2>1, <2>4, <2>5
<1>3. f = [T \in SUBSET Shared |-> f[T]] /\ g = [T \in SUBSET Shared |-> g[T]]
  <2> DEFINE ff == [T \in SUBSET Shared |-> IF T = {} THEN base
                      ELSE Factorial[RegionSize(First(T))] + f[T \ {First(T)}]]
             gg == [T \in SUBSET Shared |-> IF T = {} THEN base
                      ELSE Factorial[RegionSize(First(T))] + g[T \ {First(T)}]]
  <2>1. f = ff /\ g = gg
    BY DEF Duplicates
  <2>2. ff = [T \in SUBSET Shared |-> ff[T]] /\ gg = [T \in SUBSET Shared |-> gg[T]]
    OBVIOUS
  <2> HIDE DEF ff, gg
  <2> QED  BY <2>1, <2>2
<1>4. \A T \in SUBSET Shared : f[T] = g[T]
  BY <1>2
<1> QED  BY <1>3, <1>4

(* In the shared regions the sums count the pairs.                           *)
LEMMA SharedPairs ==
  ASSUME regionOf \in Layouts, SmallRegions, NEW s \in Sels, Covering(s),
         NEW f \in [SUBSET Shared -> Nat], Duplicates(f, Len(s)), NEW T \in SUBSET Shared
  PROVE  /\ IsFiniteSet(Within(s, T)) /\ IsFiniteSet(Places(s, T))
         /\ Cardinality(Within(s, T)) + Len(s) = Cardinality(Places(s, T)) + f[T]
<1> DEFINE D == DOMAIN s
           Holds(V) == Cardinality(Within(s, V)) + Len(s) = Cardinality(Places(s, V)) + f[V]
           Bad == {V \in SUBSET Shared : ~Holds(V)}
<1>1. Len(s) \in Nat /\ IsFiniteSet(D) /\ IsFiniteSet(D \X D) /\ IsFiniteSet(Shared)
  BY Selected, Segment, RegionsFinite, FS_Product
<1>2. \A V : Within(s, V) \subseteq D \X D /\ Places(s, V) \subseteq D
  BY DEF Within, Places
<1> HIDE DEF D
<1>3. \A V : IsFiniteSet(Within(s, V)) /\ IsFiniteSet(Places(s, V))
  BY <1>1, <1>2, FS_Subset
<1>4. SUFFICES ASSUME Bad # {} PROVE FALSE
  BY <1>3
<1>5. PICK V \in Bad : \A W \in Bad : W \subseteq V => W = V
  <2>1. Bad \in SUBSET (SUBSET Shared)
    OBVIOUS
  <2> HIDE DEF Bad
  <2> QED  BY <1>1, <1>4, <2>1, SmallestSubset
<1>6. V # {}
  <2>1. Within(s, {}) = {} /\ Places(s, {}) = {} /\ Cardinality({}) = 0
    BY FS_EmptySet DEF Within, Places
  <2>2. f[{}] = Len(s)
    BY DEF Duplicates
  <2>3. Holds({})
    BY <1>1, <2>1, <2>2
  <2> QED  BY <1>5, <2>3
<1> DEFINE r == First(V)
           U == V \ {r}
           P == Places(s, {r})
           n == RegionSize(r)
<1>7. r \in V /\ r \in Shared /\ U \in SUBSET Shared /\ U \subseteq V /\ U # V
  <2>1. r \in V
    BY <1>6 DEF First
  <2> HIDE DEF r
  <2> QED  BY <1>5, <2>1
<1>8. Holds(U)
  <2> HIDE DEF Holds, r, U
  <2> QED  BY <1>5, <1>7
<1>9. f[V] = Factorial[n] + f[U]
  BY <1>5, <1>6, <1>7 DEF Duplicates
<1> HIDE DEF r
<1>10. /\ n \in {2, 3} /\ IsFiniteSet(P) /\ Cardinality(P) = n
  <2>1. n \in Nat /\ n > 1 /\ IsFiniteSet(P) /\ Cardinality(P) = n
    BY <1>7, RegionPlaces
  <2>2. n <= 3
    BY <1>7 DEF SmallRegions, RegionSize, Shared
  <2> HIDE DEF n, P
  <2> QED  BY <2>1, <2>2
<1>11. Places(s, V) = Places(s, U) \union P /\ Places(s, U) \cap P = {}
  BY <1>7 DEF Places
<1>12. Within(s, V) = Within(s, U) \union (P \X P) /\ Within(s, U) \cap (P \X P) = {}
  <2>1. Within(s, V) \subseteq Within(s, U) \union (P \X P)
    BY DEF Within, Places, D
  <2>2. Within(s, U) \subseteq Within(s, V)
    BY DEF Within
  <2>3. P \X P \subseteq Within(s, V)
    BY <1>7 DEF Within, Places, D
  <2>4. Within(s, U) \cap (P \X P) = {}
    BY DEF Within, Places
  <2> HIDE DEF P, U
  <2> QED  BY <2>1, <2>2, <2>3, <2>4
<1>13. Cardinality(Places(s, V)) = Cardinality(Places(s, U)) + n
  <2> HIDE DEF P, U, n
  <2>1. Cardinality(Places(s, U) \union P) =
          Cardinality(Places(s, U)) + Cardinality(P) - Cardinality({})
    BY <1>3, <1>10, <1>11, FS_Union
  <2>2. Cardinality(Places(s, U)) \in Nat /\ Cardinality({}) = 0 /\ Cardinality(P) \in Nat
    BY <1>3, <1>10, FS_CardinalityType, FS_EmptySet
  <2> QED  BY <1>10, <1>11, <2>1, <2>2
<1>14. Cardinality(Within(s, V)) = Cardinality(Within(s, U)) + n * n
  <2> HIDE DEF P, U, n
  <2>1. IsFiniteSet(P \X P) /\ Cardinality(P \X P) = n * n
    BY <1>10, FS_Product
  <2>2. Cardinality(Within(s, U) \union (P \X P)) =
          Cardinality(Within(s, U)) + Cardinality(P \X P) - Cardinality({})
    BY <1>3, <1>12, <2>1, FS_Union
  <2>3. Cardinality(Within(s, U)) \in Nat /\ Cardinality({}) = 0 /\ n * n \in Nat
    BY <1>3, <1>10, FS_CardinalityType, FS_EmptySet
  <2> QED  BY <1>12, <2>1, <2>2, <2>3
<1>15. /\ Cardinality(Places(s, U)) \in Nat /\ Cardinality(Within(s, U)) \in Nat
       /\ f[U] \in Nat /\ Factorial[n] = n * n - n
  <2>1. f[U] \in Nat
    BY <1>7
  <2>2. Factorial[n] = n * n - n
    <3> HIDE DEF n
    <3> QED  BY <1>10, SmallFactorial
  <2> QED  BY <1>3, <2>1, <2>2, FS_CardinalityType
<1>16. Holds(V)
  <2> HIDE DEF P, U, n
  <2> DEFINE sq == n * n
  <2>1. sq \in Nat /\ n \in Nat
    BY <1>10
  <2>2. Cardinality(Within(s, V)) = Cardinality(Within(s, U)) + sq /\ f[V] = sq - n + f[U]
    BY <1>9, <1>14, <1>15
  <2> HIDE DEF sq
  <2> QED  BY <1>1, <1>8, <1>13, <1>15, <2>1, <2>2
<1> QED  BY <1>5, <1>16

(* The pairs between regions are all pairs but those runMonitor subtracts.   *)
LEMMA PairsCounted ==
  ASSUME regionOf \in Layouts, SmallRegions, NEW s \in Sels, Covering(s)
  PROVE  Cardinality(Eligible(s)) = Len(s) * Len(s) - sumOfDuplicates(s)
<1> DEFINE D == DOMAIN s
           R == Range(regionOf)
           Single == R \ Shared
           f == CHOOSE g : Duplicates(g, Len(s))
<1>1. /\ Len(s) \in Nat /\ D = 1 .. Len(s) /\ s \in Seq(Node) /\ Distinct(s)
      /\ DOMAIN regionOf = Node /\ \A k \in D : s[k] \in Node /\ regionOf[s[k]] \in R
  <2>1. Len(s) \in Nat /\ D = 1 .. Len(s) /\ s \in Seq(Node) /\ Distinct(s)
    BY Selected
  <2>2. DOMAIN regionOf = Node
    BY RegionsFinite
  <2> QED  BY <2>1, <2>2 DEF Range
<1>2. IsFiniteSet(D) /\ Cardinality(D) = Len(s)
  <2> HIDE DEF D
  <2> QED  BY <1>1, Segment
<1>3. IsFiniteSet(D \X D) /\ Cardinality(D \X D) = Len(s) * Len(s)
  <2> HIDE DEF D
  <2> QED  BY <1>2, FS_Product
<1>4. f \in [SUBSET Shared -> Nat] /\ Duplicates(f, Len(s)) /\ sumOfDuplicates(s) = f[Shared]
  <2>1. PICK g : g \in [SUBSET Shared -> Nat] /\ Duplicates(g, Len(s))
    BY <1>1, SumExist
  <2>2. Duplicates(f, Len(s))
    BY <2>1
  <2>3. f \in [SUBSET Shared -> Nat]
    BY <2>1, <2>2, <1>1, SumUnique
  <2> QED  BY <2>2, <2>3, SumExpand
<1> HIDE DEF f
<1>5. Cardinality(Within(s, Shared)) + Len(s) = Cardinality(Places(s, Shared)) + f[Shared]
  BY <1>4, SharedPairs
<1> DEFINE WR == Within(s, R)
           WS == Within(s, Shared)
           PS == Places(s, Shared)
           P1 == Places(s, Single)
           diag == [k \in P1 |-> <<k, k>>]
           Diag == {<<k, k>> : k \in P1}
<1>6. /\ IsFiniteSet(WR) /\ IsFiniteSet(WS) /\ IsFiniteSet(PS) /\ IsFiniteSet(P1)
      /\ IsFiniteSet(Eligible(s))
  <2>1. WR \subseteq D \X D /\ WS \subseteq D \X D /\ PS \subseteq D /\ P1 \subseteq D
    BY DEF Within, Places
  <2> HIDE DEF D, WR, WS, PS, P1
  <2> QED  BY <1>2, <1>3, <2>1, FS_Subset, Selected
<1>7. D = PS \union P1 /\ PS \cap P1 = {}
  BY <1>1 DEF Places
<1>8. D \X D = Eligible(s) \union WR /\ Eligible(s) \cap WR = {}
  <2>1. \A p \in D \X D : p[1] \in D /\ regionOf[s[p[1]]] \in R
    BY <1>1
  <2> HIDE DEF R
  <2> QED  BY <2>1 DEF Eligible, Within
<1>9. ASSUME NEW m \in Node, NEW n \in Node, regionOf[m] = regionOf[n], regionOf[m] \in Single
      PROVE  m = n
  <2> DEFINE r == regionOf[m]
             N == {o \in Node : regionOf[o] = r}
  <2>1. RegionSize(r) <= 1 /\ RegionSize(r) \in Nat /\ RegionSize(r) = Cardinality(N)
        /\ IsFiniteSet(N)
    <3>1. r \in Range(regionOf) /\ r \notin Shared
      BY <1>9
    <3>2. RegionSize(r) \in Nat /\ RegionSize(r) = Cardinality(N) /\ IsFiniteSet(N)
      BY RegionsFinite
    <3> QED  BY <3>1, <3>2 DEF Shared
  <2>2. {m, n} \subseteq N
    BY <1>9
  <2>3. ASSUME m # n PROVE FALSE
    <3>1. IsFiniteSet({m}) /\ Cardinality({m}) = 1
      BY FS_Singleton
    <3>2. Cardinality({m} \union {n}) = 2
      BY <2>3, <3>1, FS_AddElement
    <3>3. Cardinality({m, n}) <= Cardinality(N)
      <4> HIDE DEF N
      <4> QED  BY <2>1, <2>2, FS_Subset
    <3>4. {m} \union {n} = {m, n}
      OBVIOUS
    <3> QED  BY <2>1, <3>2, <3>3, <3>4
  <2> QED  BY <2>3
<1>10. WR = WS \union Diag /\ WS \cap Diag = {}
  <2>1. ASSUME NEW p \in WR, p \notin WS PROVE p \in Diag
    <3>1. /\ p \in D \X D /\ regionOf[s[p[1]]] = regionOf[s[p[2]]]
          /\ regionOf[s[p[1]]] \in Single
      BY <2>1 DEF Within
    <3>2. s[p[1]] = s[p[2]]
      <4>1. s[p[1]] \in Node /\ s[p[2]] \in Node
        BY <1>1, <3>1
      <4> QED  BY <1>9, <3>1, <4>1
    <3>3. p[1] = p[2] /\ p = <<p[1], p[2]>> /\ p[1] \in P1
      BY <1>1, <3>1, <3>2 DEF Distinct, Places
    <3> QED  BY <3>3
  <2>2. Diag \subseteq WR
    BY DEF Within, Places
  <2>3. WS \subseteq WR
    BY DEF Within, Shared
  <2>4. WS \cap Diag = {}
    BY DEF Within, Places
  <2> HIDE DEF WS, WR, Diag
  <2> QED  BY <2>1, <2>2, <2>3, <2>4
<1>11. IsFiniteSet(Diag) /\ Cardinality(Diag) = Cardinality(P1)
  <2>1. diag \in Bijection(P1, Diag)
    <3>1. diag \in [P1 -> Diag]
      OBVIOUS
    <3>2. \A k, l \in P1 : diag[k] = diag[l] => k = l
      OBVIOUS
    <3>3. \A t \in Diag : \E k \in P1 : diag[k] = t
      OBVIOUS
    <3> HIDE DEF diag, Diag, P1
    <3> QED  BY <3>1, <3>2, <3>3 DEF Bijection, Injection, Surjection, IsInjective
  <2> HIDE DEF diag, Diag, P1
  <2> QED  BY <1>6, <2>1, FS_Bijection DEF ExistsBijection
<1> HIDE DEF D, WR, WS, PS, P1, diag, Diag
<1>12. Cardinality({}) = 0
  BY FS_EmptySet
<1>13. Len(s) = Cardinality(PS) + Cardinality(P1) - 0
  BY <1>2, <1>6, <1>7, <1>12, FS_Union
<1>14. Len(s) * Len(s) = Cardinality(Eligible(s)) + Cardinality(WR) - 0
  BY <1>3, <1>6, <1>8, <1>12, FS_Union
<1>15. Cardinality(WR) = Cardinality(WS) + Cardinality(P1) - 0
  BY <1>6, <1>10, <1>11, <1>12, FS_Union
<1>16. /\ Cardinality(WR) \in Nat /\ Cardinality(WS) \in Nat /\ Cardinality(PS) \in Nat
       /\ Cardinality(P1) \in Nat /\ Cardinality(Eligible(s)) \in Nat /\ f[Shared] \in Nat
  <2>1. f[Shared] \in Nat
    BY <1>4
  <2> QED  BY <1>6, <2>1, FS_CardinalityType
<1>17. Cardinality(WS) + Len(s) = Cardinality(PS) + f[Shared]
  BY <1>5 DEF WS, PS
<1> DEFINE sq == Len(s) * Len(s)
<1>18. sq \in Nat
  BY <1>1
<1>19. sq = Cardinality(Eligible(s)) + Cardinality(WR)
  BY <1>14, <1>16
<1> HIDE DEF sq
<1>20. Cardinality(Eligible(s)) = sq - f[Shared]
  BY <1>1, <1>13, <1>15, <1>16, <1>17, <1>18, <1>19
<1> QED  BY <1>4, <1>20 DEF sq

-----------------------------------------------------------------------------
(* The scripts that are in place when start.txt goes out.                    *)

(* No two pairs have the same number.                                        *)
LEMMA NumbersDiffer ==
  ASSUME NEW s \in Sels, NEW p \in Eligible(s), NEW q \in Eligible(s),
         Number(s, p) = Number(s, q)
  PROVE  p = q
<1> DEFINE Before(a, b) == a[1] < b[1] \/ (a[1] = b[1] /\ a[2] <= b[2])
<1>1. /\ IsFiniteSet(Eligible(s)) /\ Len(s) \in Nat
      /\ \A r \in Eligible(s) : /\ r[1] \in 1 .. Len(s) /\ r[2] \in 1 .. Len(s)
                              /\ r = <<r[1], r[2]>>
  BY Selected
<1>2. ASSUME NEW a \in Eligible(s), NEW b \in Eligible(s), Before(a, b), a # b
      PROVE  Number(s, a) < Number(s, b)
  <2> DEFINE A == {r \in Eligible(s) : Before(r, a)}
             B == {r \in Eligible(s) : Before(r, b)}
  <2>1. A \subseteq B
    BY <1>1, <1>2
  <2>2. b \in B
    BY <1>1
  <2>3. b \notin A
    BY <1>1, <1>2
  <2>4. IsFiniteSet(A) /\ IsFiniteSet(B)
    BY <1>1, FS_Subset
  <2>5. Number(s, a) = Cardinality(A) /\ Number(s, b) = Cardinality(B)
    BY DEF Number
  <2> HIDE DEF A, B
  <2>6. Cardinality(A \union {b}) = Cardinality(A) + 1 /\ IsFiniteSet(A \union {b})
    BY <2>3, <2>4, FS_AddElement
  <2>7. Cardinality(A \union {b}) <= Cardinality(B)
    BY <2>1, <2>2, <2>4, FS_Subset
  <2>8. Cardinality(A) \in Nat /\ Cardinality(B) \in Nat
    BY <2>4, FS_CardinalityType
  <2> QED  BY <2>5, <2>6, <2>7, <2>8
<1>3. Before(p, q) \/ Before(q, p)
  BY <1>1
<1>4. Number(s, p) \in Nat /\ Number(s, q) \in Nat
  BY PlanTyped
<1> QED  BY <1>2, <1>3, <1>4

\* The script of a pair is where it belongs.
Placed(q) == Script(Number(call.sel, q), call.sel[q[1]], Offset(call.sel, q))
               \in scripts[call.sel[q[2]]][call.kind]

\* A snapshot or dynamic call that has not written its output has no cleanup to
\* fear, has placed the scripts of the pairs that are done, and is done with all
\* of them before it starts the nodes; a mode 3 that is heeded finds them.
PlacedInv ==
  pc # "idle" =>
    /\ Covering(call.sel)
    /\ call.kind # "static" =>
         /\ pc # "pairs" \/ todo # {} \/ call.mode = 3 => Pending("cleanup") = {}
         /\ call.mode # 3 /\ pc # "pairs" => todo = {}
         /\ call.mode # 3 /\ (pc # "pairs" \/ todo # {}) => \A q \in Done : Placed(q)
         /\ call.mode = 3 /\ "sent" \in Heeded => Transferred(call)

(* It depends on the regions, the arguments, the loops and the scripts only. *)
LEMMA PlacedSame ==
  ASSUME PlacedInv, UNCHANGED <<regionOf, call, todo, scripts>>,
         \A m \in Pending("cleanup")' : m \in Pending("cleanup"),
         pc' # "idle" => pc' = pc \/ (pc # "idle" /\ call.mode = 3)
                         \/ (pc \notin {"idle", "pairs"} /\ pc' # "pairs")
  PROVE  PlacedInv'
<1> SUFFICES ASSUME pc' # "idle" PROVE PlacedInv'
  BY DEF PlacedInv
<1>1. pc # "idle"
  OBVIOUS
<1>2. Covering(call.sel)' = Covering(call.sel)
  BY DEF Covering
<1>3. Done' = Done /\ \A q : Placed(q)' = Placed(q)
  BY DEF Done, Placed, Eligible, Number, Offset
<1>4. Transferred(call)' = Transferred(call)
  BY DEF Transferred, Eligible
<1>5. pc' # "pairs" /\ call.mode # 3 => pc # "pairs"
  OBVIOUS
<1>6. Pending("cleanup") = {} => Pending("cleanup")' = {}
  OBVIOUS
<1> QED  BY <1>1, <1>2, <1>3, <1>4, <1>5, <1>6 DEF PlacedInv

(* What is spawned before the output is written is no cleanup.               *)
LEMMA NoCleanup ==
  ASSUME SendStart \/ EndSleep \/ ReadStatus \/ StartLands \/ FetchLands \/ RmLands
         \/ UNCHANGED net
  PROVE  \A m \in Pending("cleanup")' : m \in Pending("cleanup")
<1>1. ASSUME NEW m \in net', m.op = "cleanup" PROVE m \in net
  <2>1. CASE SendStart
    BY <1>1, <2>1 DEF SendStart, Command
  <2>2. CASE EndSleep
    BY <1>1, <2>2 DEF EndSleep, Command
  <2>3. CASE ReadStatus
    BY <1>1, <2>3 DEF ReadStatus, Command
  <2>4. CASE StartLands \/ FetchLands \/ RmLands \/ UNCHANGED net
    BY <1>1, <2>4 DEF StartLands, FetchLands, RmLands
  <2> QED  BY <2>1, <2>2, <2>3, <2>4
<1> QED  BY <1>1 DEF Pending

(* A script is placed without taking away another, and the start follows the *)
(* last of them.                                                             *)
LEMMA PlaceStep ==
  ASSUME TInv, LoopInv, PlacedInv, SmallRegions, PlaceScript
  PROVE  PlacedInv'
<1>1. /\ CallType /\ NodeType /\ call.sel \in Sels /\ call.kind \in Kind /\ regionOf \in Layouts
      /\ IsFiniteSet(Eligible(call.sel)) /\ todo \subseteq Eligible(call.sel)
  BY CallIs, Selected DEF TInv, CallType
<1>2. PICK p \in Here :
        /\ \A q \in Here : p[2] <= q[2]
        /\ todo' = todo \ {p}
        /\ scripts' = [scripts EXCEPT ![call.sel[p[2]]][call.kind] =
                          {s \in @ : s.name # globalCountPortIncrs + 1}
                          \union {Script(globalCountPortIncrs + 1, call.sel[p[1]],
                                         countPortIncrs)}]
        /\ pc' = IF GateOpens(call, globalCountPortIncrs + 1) THEN "send" ELSE "pairs"
        /\ globalCountPortIncrs' = globalCountPortIncrs + 1
  BY <1>1 DEF PlaceScript
<1>3. pc = "pairs" /\ call.mode # 3 /\ UNCHANGED <<regionOf, call, net>>
  BY DEF PlaceScript
<1> DEFINE number == globalCountPortIncrs + 1
           new == Script(number, call.sel[p[1]], countPortIncrs)
<1>4. /\ p \in todo /\ p \in Eligible(call.sel) /\ call.sel[p[2]] \in Node
      /\ number = Number(call.sel, p) /\ countPortIncrs = Offset(call.sel, p)
  <2>1. p \in todo /\ p \in Eligible(call.sel) /\ call.sel[p[2]] \in Node
    BY <1>1, CallIs, Selected
  <2> QED  BY <1>2, <1>3, <2>1, Counted
<1>5. Covering(call.sel)' /\ Covering(call.sel)
  BY <1>3 DEF PlacedInv, Covering
<1> SUFFICES ASSUME call.kind # "static"
             PROVE  /\ Pending("cleanup")' = {}
                    /\ pc' # "pairs" => todo' = {}
                    /\ \A q \in Done' : Placed(q)'
  BY <1>3, <1>5 DEF PlacedInv
<1>6. Pending("cleanup")' = {}
  BY <1>3, <1>4 DEF PlacedInv, Pending
<1>7. Done' = Done \union {p} /\ Done \subseteq Eligible(call.sel) /\ p \notin Done
  BY <1>1, <1>2, <1>3, <1>4 DEF Done, Eligible
<1>8. \A q : Placed(q)' =
               (Script(Number(call.sel, q), call.sel[q[1]], Offset(call.sel, q))
                  \in scripts'[call.sel[q[2]]][call.kind])
  BY <1>3 DEF Placed, Eligible, Number, Offset
<1>9. ASSUME NEW q \in Done PROVE Placed(q)'
  <2> DEFINE old == Script(Number(call.sel, q), call.sel[q[1]], Offset(call.sel, q))
  <2>1. q \in Eligible(call.sel) /\ call.sel[q[2]] \in Node /\ q # p
    BY <1>1, <1>7, Selected
  <2>2. old \in scripts[call.sel[q[2]]][call.kind]
    BY <1>3, <1>4 DEF PlacedInv, Placed
  <2>3. old.name # number
    BY <1>1, <1>4, <2>1, NumbersDiffer DEF Script
  <2> HIDE DEF old, number
  <2>4. old \in scripts'[call.sel[q[2]]][call.kind]
    BY <1>1, <1>2, <1>4, <2>1, <2>2, <2>3 DEF NodeType, number
  <2> QED  BY <1>8, <2>4 DEF old
<1>10. Placed(p)'
  <2>1. new \in scripts'[call.sel[p[2]]][call.kind]
    BY <1>1, <1>2, <1>4 DEF NodeType
  <2> QED  BY <1>4, <1>8, <2>1
<1>11. pc' # "pairs" => todo' = {}
  <2> SUFFICES ASSUME pc' # "pairs" PROVE todo' = {}
    OBVIOUS
  <2>1. number = Len(call.sel) * Len(call.sel) - sumOfDuplicates(call.sel)
    BY <1>2 DEF GateOpens
  <2>2. number = Cardinality(Eligible(call.sel))
    BY <1>1, <1>5, <2>1, PairsCounted
  <2>3. Cardinality(Done \union {p}) = Cardinality(Done) + 1
    BY <1>1, <1>7, FS_Subset, FS_AddElement
  <2>4. Cardinality(Done \union {p}) = Cardinality(Eligible(call.sel))
    BY <1>3, <2>2, <2>3 DEF LoopInv
  <2>5. Done \union {p} = Eligible(call.sel)
    BY <1>1, <1>4, <1>7, <2>4, FS_Subset
  <2> QED  BY <1>1, <1>2, <2>5 DEF Done
<1> QED  BY <1>6, <1>7, <1>9, <1>10, <1>11

(* Until the output is written, what has been placed stays.                  *)
LEMMA PlacedStep ==
  ASSUME "cleanup" \in Prompt, SmallRegions
  PROVE  TInv /\ LoopInv /\ PlacedInv /\ [Next]_vars => PlacedInv'
<1> SUFFICES ASSUME TInv, LoopInv, PlacedInv, [Next]_vars PROVE PlacedInv'
  OBVIOUS
<1>1. CallType /\ NodeType /\ NetType
  BY DEF TInv
<1>2. CASE Call
  <2>1. PICK c \in [kind : Kinds, mode : Modes, sel : Selections] :
          call' = c /\ CallAllowed(c) /\ todo' = Eligible(c.sel)
    BY <1>2 DEF Call
  <2>2. net' = {} /\ pc' = "pairs" /\ UNCHANGED <<regionOf, scripts>>
    BY <1>2 DEF Call, node
  <2>3. Pending("cleanup")' = {}
    BY <2>2 DEF Pending
  <2>4. Covering(call.sel)'
    BY <2>1, <2>2 DEF CallAllowed, Covering
  <2>5. Done' = {}
    BY <2>1, <2>2 DEF Done, Eligible
  <2>6. call'.mode = 3 /\ "sent" \in Heeded => Transferred(call)'
    <3>1. Transferred(call)' = Transferred(c)
      BY <2>1, <2>2 DEF Transferred, Eligible
    <3> QED  BY <2>1, <3>1 DEF CallAllowed
  <2> QED  BY <2>2, <2>3, <2>4, <2>5, <2>6 DEF PlacedInv
<1>3. CASE PlaceScript
  BY <1>3, PlaceStep
<1>4. CASE NextServer \/ ForceStart \/ SendStart \/ EndSleep \/ ReadStatus \/ Return
           \/ StartLands \/ FetchLands \/ RmLands \/ UNCHANGED <<regionOf, controller, scripts, net>>
  <2>1. \A m \in Pending("cleanup")' : m \in Pending("cleanup")
    BY <1>4, NoCleanup DEF NextServer, ForceStart, Return
  <2>2. UNCHANGED <<regionOf, call, todo, scripts>>
    BY <1>4 DEF NextServer, ForceStart, SendStart, EndSleep, ReadStatus, Return, StartLands,
                FetchLands, RmLands, controller, node
  <2>3. pc' # "idle" => pc' = pc \/ (pc # "idle" /\ call.mode = 3)
                        \/ (pc \notin {"idle", "pairs"} /\ pc' # "pairs")
    BY <1>4 DEF NextServer, ForceStart, SendStart, EndSleep, ReadStatus, Return, StartLands,
                FetchLands, RmLands, controller, node
  <2> QED  BY <2>1, <2>2, <2>3, PlacedSame
<1>5. CASE ParseError
  BY <1>5 DEF ParseError, PlacedInv
<1>6. CASE WriteOutput
  <2>1. pc # "idle" /\ pc # "pairs" /\ UNCHANGED <<regionOf, call, todo>>
        /\ pc' = IF call.mode = 3 THEN "idle" ELSE "pairs"
    BY <1>6 DEF WriteOutput
  <2>2. Covering(call.sel)' = Covering(call.sel)
    BY <2>1 DEF Covering
  <2> QED  BY <2>1, <2>2 DEF PlacedInv
<1>7. CASE CleanupLands
  <2>1. /\ Pending("cleanup") # {} /\ UNCHANGED <<regionOf, controller>>
    BY <1>7 DEF CleanupLands
  <2>2. UNCHANGED <<pc, call, todo>> /\ Covering(call.sel)' = Covering(call.sel)
    BY <2>1 DEF Covering, controller
  <2> QED  BY <2>1, <2>2 DEF PlacedInv
<1> QED
  BY <1>2, <1>3, <1>4, <1>5, <1>6, <1>7
     DEF Next, Controller, Landing, NodeStep, Finished, Serve, StartClients, RunClient, vars, node

\* The nodes have been told to start and the output is not written.
RoundPc == pc \in {"send", "sleep", "collect"}

\* Callers heed what runMonitor takes on trust.
Careful == {"sent", "cleared"} \subseteq Heeded

(* In a round of a snapshot or dynamic call the scripts are those of all     *)
(* pairs.                                                                    *)
LEMMA InPlace ==
  ASSUME call.mode = 3 => "sent" \in Heeded,
         TInv, FilesInv, PlacedInv, RoundPc, call.kind # "static"
  PROVE  Transferred(call)
<1>1. pc # "idle" /\ pc # "pairs"
  BY DEF RoundPc
<1> SUFFICES ASSUME call.mode # 3 PROVE Transferred(call)
  BY <1>1 DEF PlacedInv
<1>2. Done = Eligible(call.sel) /\ \A q \in Done : Placed(q)
  BY <1>1 DEF PlacedInv, Done
<1>3. \A p \in Eligible(call.sel) :
        \E s \in scripts[call.sel[p[2]]][call.kind] : s.server = call.sel[p[1]]
  BY <1>2 DEF Placed, Script
<1>4. ASSUME NEW n \in Node, NEW s \in scripts[n][call.kind]
      PROVE  \E p \in Eligible(call.sel) : n = call.sel[p[2]] /\ s.server = call.sel[p[1]]
  <2>1. s \in Plan(call.sel, n)
    BY <1>1 DEF FilesInv, Fits
  <2> QED  BY <2>1 DEF Plan, Script
<1> QED  BY <1>3, <1>4 DEF Transferred

(* When start.txt goes out for a snapshot or dynamic measurement in mode 1 or 2, *)
(* the scripts of all pairs are in place and no others, provided that cleanup.sh *)
(* is done before the next call, that files of other selections are not left,  *)
(* and that no region has more than three nodes: then the count of pairs that  *)
(* opens the gate is that of the pairs between regions.                        *)
THEOREM StartsCompleteHolds ==
  ASSUME "cleanup" \in Prompt, "cleared" \in Heeded, SmallRegions
  PROVE  Spec => []StartsComplete
<1>1. Init => PlacedInv
  BY DEF Init, PlacedInv
<1>2. TInv /\ LoopInv /\ PlacedInv /\ [Next]_vars => PlacedInv'
  BY PlacedStep
<1>3. TInv /\ FilesInv /\ PlacedInv => StartsComplete
  BY InPlace DEF StartsComplete, RoundPc
<1> QED  BY <1>1, <1>2, <1>3, Filed, PTL DEF Spec

-----------------------------------------------------------------------------
(* A round of measurements, from the moment the nodes are told to start to   *)
(* the output, when the bets of runMonitor are won: cleanup.sh is done before *)
(* the next call or script, every node has its servers when the clients      *)
(* start, and the sleep lasts until the clients are through.                 *)

Timely == {"cleanup", "start", "sleep"} \subseteq Prompt

\* A server has at most one client per other node.
EnoughPorts == Len(AllIPs) <= NumPorts + 1

\* Nothing is on its way when the nodes are told to start, then only that, and no
\* cleanup before the output is written.
NetInv ==
  /\ pc \in {"idle", "pairs"} => Pending("start") = {}
  /\ pc = "pairs" /\ call.mode = 3 => net = {}
  /\ pc = "send" => net = {}
  /\ pc = "sleep" => \A m \in net : \E n \in all_send_ips : m = Command("start", n, call.kind)
  /\ pc = "collect" => Pending("start") = {} /\ Pending("cleanup") = {}

(* What is spawned in a round is spawned at its place.                       *)
LEMMA NetRoundStep ==
  ASSUME Timely
  PROVE  TInv /\ NetInv /\ [Next]_vars => NetInv'
<1> SUFFICES ASSUME TInv, NetInv, [Next]_vars PROVE NetInv'
  OBVIOUS
<1>1. "cleanup" \in Prompt /\ "sleep" \in Prompt
  BY DEF Timely
<1>2. CASE Call \/ PlaceScript
  BY <1>1, <1>2 DEF Call, PlaceScript, NetInv, Pending
<1>3. CASE NextServer \/ ForceStart \/ Return
  BY <1>3 DEF NextServer, ForceStart, Return, NetInv, Pending
<1>4. CASE SendStart
  <2>1. \A m \in net' : \E n \in all_send_ips : m = Command("start", n, call.kind)
    BY <1>4 DEF SendStart, NetInv
  <2> QED  BY <1>4, <2>1 DEF SendStart, NetInv, Command
<1>5. CASE EndSleep
  <2>1. net = {}
    BY <1>1, <1>5 DEF EndSleep, Measured, Pending, NetInv, Command
  <2>2. \A m \in net' : m.op = "fetch"
    BY <1>5, <2>1 DEF EndSleep, Command
  <2>3. pc' = "collect"
    BY <1>5 DEF EndSleep
  <2> QED  BY <2>2, <2>3 DEF NetInv, Pending
<1>6. CASE ReadStatus
  <2>1. \A m \in net' : m \in net \/ m.op = "rm"
    BY <1>6 DEF ReadStatus, Command
  <2>2. pc' = "collect" /\ pc = "collect"
    BY <1>6 DEF ReadStatus
  <2> QED  BY <2>1, <2>2 DEF NetInv, Pending
<1>7. CASE ParseError \/ WriteOutput
  <2>1. \A m \in net' : m \in net \/ m.op = "cleanup"
    BY <1>7 DEF ParseError, ErrorCleanups, WriteOutput, Command
  <2>2. pc = "collect" /\ call' = call /\ pc' \in {"idle", "pairs"}
        /\ (pc' = "pairs" => call.mode # 3)
    BY <1>7 DEF ParseError, WriteOutput
  <2> QED  BY <2>1, <2>2 DEF NetInv, Pending
<1>8. CASE net' \subseteq net /\ UNCHANGED controller
  BY <1>8 DEF NetInv, Pending, controller, Command
<1> QED
  BY <1>2, <1>3, <1>4, <1>5, <1>6, <1>7, <1>8
     DEF Next, Controller, Landing, NodeStep, Finished, StartLands, FetchLands, RmLands,
         CleanupLands, Serve, StartClients, RunClient, vars

\* The nodes of a pair.
Both(q) == {call.sel[q[1]], call.sel[q[2]]}

\* The round of a static call is that of one pair.
OnePair(p) ==
  /\ all_send_ips = Both(p) /\ ip_filtered_stats = <<call.sel[p[2]]>>
  /\ \A n \in Node : {s.server : s \in scripts[n]["static"]} =
                       IF n = call.sel[p[2]] THEN {call.sel[p[1]]} ELSE {}

\* A cleanup of the static directory, or of anything, is on its way to the node.
StaticCleaned(n) == \E m \in Pending("cleanup") : m.to = n /\ m.arg = "static"
Cleaned(n) == \E m \in Pending("cleanup") : m.to = n

\* The directory for static measurements is empty but for the script of one pair
\* while this pair is measured.
StaticInv ==
  /\ pc # "idle" /\ call.kind = "static" => call.mode = 1
  /\ ~(RoundPc /\ call.kind = "static") =>
       \A n \in Node : scripts[n]["static"] = {} \/ StaticCleaned(n)
  /\ RoundPc /\ call.kind = "static" => \E p \in Done : OnePair(p)

(* The pair of a static call that has its turn gets the only script.         *)
LEMMA StaticPlaced ==
  ASSUME Timely, TInv, StaticInv, PlaceScript, call.kind = "static"
  PROVE  StaticInv'
<1>1. PICK p \in Here :
        /\ todo' = todo \ {p}
        /\ scripts' = [scripts EXCEPT ![call.sel[p[2]]][call.kind] =
                          {s \in @ : s.name # globalCountPortIncrs + 1}
                          \union {Script(globalCountPortIncrs + 1, call.sel[p[1]],
                                         countPortIncrs)}]
        /\ all_send_ips' = {call.sel[p[1]], call.sel[p[2]]}
        /\ ip_filtered_stats' = <<call.sel[p[2]]>>
        /\ pc' = "send"
  BY DEF PlaceScript, GateOpens
<1>2. pc = "pairs" /\ net = {} /\ UNCHANGED <<regionOf, call>>
  BY DEF PlaceScript, Timely
<1>3. CallType /\ NodeType /\ call.sel \in Sels /\ call.sel[p[2]] \in Node
      /\ p \in todo /\ p \in Eligible(call.sel) /\ "static" \in Kind
  BY CallIs, Selected DEF TInv, Kind
<1>4. \A n \in Node : scripts[n]["static"] = {}
  BY <1>2 DEF StaticInv, StaticCleaned, Pending, RoundPc
<1>5. p \in Done'
  BY <1>1, <1>2, <1>3 DEF Done, Eligible
<1> DEFINE new == Script(globalCountPortIncrs + 1, call.sel[p[1]], countPortIncrs)
<1>6. \A n \in Node : scripts'[n]["static"] = IF n = call.sel[p[2]] THEN {new} ELSE {}
  <2>1. scripts'[call.sel[p[2]]]["static"] = {new}
    BY <1>1, <1>3, <1>4 DEF NodeType
  <2>2. \A n \in Node : n # call.sel[p[2]] => scripts'[n]["static"] = {}
    BY <1>1, <1>3, <1>4 DEF NodeType
  <2> QED  BY <2>1, <2>2
<1>7. new.server = call.sel[p[1]]
  BY DEF Script
<1>8. \A n \in Node : {s.server : s \in scripts'[n]["static"]} =
                        IF n = call.sel[p[2]] THEN {call.sel[p[1]]} ELSE {}
  <2> HIDE DEF new
  <2> QED  BY <1>6, <1>7
<1>9. OnePair(p)'
  BY <1>1, <1>2, <1>8 DEF OnePair, Both
<1> QED  BY <1>1, <1>2, <1>5, <1>9 DEF StaticInv, RoundPc

(* The static directory is emptied with every round.                         *)
LEMMA StaticStep ==
  ASSUME Timely
  PROVE  TInv /\ NetInv /\ StaticInv /\ [Next]_vars => StaticInv'
<1> SUFFICES ASSUME TInv, NetInv, StaticInv, [Next]_vars PROVE StaticInv'
  OBVIOUS
<1>1. /\ CallType /\ NodeType /\ NetType /\ call.sel \in Sels /\ call.kind \in Kind
      /\ "static" \in Kind
  BY CallIs DEF TInv, Kind
<1>2. CASE Call
  <2>1. PICK c \in [kind : Kinds, mode : Modes, sel : Selections] : call' = c /\ CallAllowed(c)
    BY <1>2 DEF Call
  <2>2. net = {} /\ net' = {} /\ pc = "idle" /\ pc' = "pairs" /\ scripts' = scripts
    BY <1>2 DEF Call, Timely, node
  <2>3. call'.kind = "static" => call'.mode = 1
    BY <2>1 DEF CallAllowed
  <2>4. \A n \in Node : scripts'[n]["static"] = {}
    BY <2>2 DEF StaticInv, StaticCleaned, Pending, RoundPc
  <2> QED  BY <2>2, <2>3, <2>4 DEF StaticInv, RoundPc
<1>3. CASE PlaceScript
  <2>1. CASE call.kind = "static"
    BY <1>3, <2>1, StaticPlaced
  <2>2. CASE call.kind # "static"
    <3>1. PICK p \in Here :
            scripts' = [scripts EXCEPT ![call.sel[p[2]]][call.kind] =
                          {s \in @ : s.name # globalCountPortIncrs + 1}
                          \union {Script(globalCountPortIncrs + 1, call.sel[p[1]],
                                         countPortIncrs)}]
      BY <1>3 DEF PlaceScript
    <3>2. \A n \in Node : scripts'[n]["static"] = scripts[n]["static"]
      BY <1>1, <2>2, <3>1 DEF NodeType
    <3>3. UNCHANGED <<call, net>>
      BY <1>3 DEF PlaceScript
    <3> QED  BY <2>2, <3>2, <3>3 DEF StaticInv, StaticCleaned, Pending, RoundPc
  <2> QED  BY <2>1, <2>2
<1>4. CASE NextServer \/ Return
  BY <1>4 DEF NextServer, Return, StaticInv, StaticCleaned, Pending, RoundPc, node
<1>5. CASE ForceStart
  <2>1. pc = "pairs" /\ call.mode = 3 /\ UNCHANGED <<call, scripts, net>>
    BY <1>5 DEF ForceStart, node
  <2> QED  BY <2>1 DEF StaticInv, StaticCleaned, Pending, RoundPc
<1>6. CASE SendStart \/ EndSleep \/ ReadStatus
  <2>1. /\ UNCHANGED <<regionOf, call, todo, scripts, all_send_ips, ip_filtered_stats>>
        /\ RoundPc /\ RoundPc'
    BY <1>6 DEF SendStart, EndSleep, ReadStatus, RoundPc, node
  <2>2. \A m \in Pending("cleanup") : m \in Pending("cleanup")'
    BY <1>6 DEF SendStart, EndSleep, ReadStatus, Pending
  <2>3. Done' = Done /\ \A p : OnePair(p)' = OnePair(p)
    BY <2>1 DEF Done, OnePair, Both, Eligible
  <2>4. call.kind = "static" => call.mode = 1 /\ \E p \in Done' : OnePair(p)'
    <3>1. call.kind = "static" => call.mode = 1 /\ \E p \in Done : OnePair(p)
      BY <2>1 DEF StaticInv, RoundPc
    <3> QED  BY <2>3, <3>1
  <2>5. ~(call.kind = "static") => \A n \in Node : scripts[n]["static"] = {} \/ StaticCleaned(n)
    BY DEF StaticInv
  <2> QED  BY <2>1, <2>2, <2>4, <2>5 DEF StaticInv, StaticCleaned
<1>7. CASE ParseError \/ WriteOutput
  <2>1. /\ pc = "collect" /\ UNCHANGED <<call, scripts>> /\ ~RoundPc'
        /\ net \subseteq net' /\ pc' \in {"idle", "pairs"}
    BY <1>7 DEF ParseError, WriteOutput, RoundPc, node
  <2>2. \A m \in Pending("cleanup") : m \in Pending("cleanup")'
    BY <2>1 DEF Pending
  <2>3. ASSUME NEW n \in Node PROVE scripts[n]["static"] = {} \/ StaticCleaned(n)'
    <3>1. CASE call.kind # "static"
      BY <2>1, <2>2, <3>1 DEF StaticInv, StaticCleaned, RoundPc
    <3>2. CASE call.kind = "static"
      <4>1. PICK p \in Done : OnePair(p)
        BY <2>1, <3>2 DEF StaticInv, RoundPc
      <4>2. CASE n # call.sel[p[2]]
        BY <4>1, <4>2 DEF OnePair
      <4>3. CASE n = call.sel[p[2]]
        <5>1. n \in all_send_ips /\ call.mode = 1
          BY <2>1, <3>2, <4>1, <4>3 DEF OnePair, Both, StaticInv
        <5>2. Command("cleanup", n, "static") \in net'
          BY <1>1, <1>7, <3>2, <5>1 DEF ParseError, ErrorCleanups, WriteOutput, cleanupArg
        <5>3. Command("cleanup", n, "static") \in Pending("cleanup")'
          BY <5>2 DEF Pending, Command
        <5> QED  BY <5>3 DEF StaticCleaned, Command
      <4> QED  BY <4>2, <4>3
    <3> QED  BY <3>1, <3>2
  <2>4. pc' # "idle" /\ call.kind = "static" => call.mode = 1
    BY <2>1 DEF StaticInv
  <2> QED  BY <2>1, <2>3, <2>4 DEF StaticInv
<1>8. CASE CleanupLands
  <2>1. PICK m \in Pending("cleanup") : /\ scripts' = [scripts EXCEPT ![m.to][m.arg] = {}]
                                        /\ net' = net \ {m}
    BY <1>8 DEF CleanupLands
  <2>2. m \in net /\ m.op = "cleanup" /\ m.to \in Node /\ m.arg \in Kind
    BY <1>1, <2>1 DEF Pending, NetType, Commands
  <2>3. UNCHANGED <<regionOf, controller>>
    BY <1>8 DEF CleanupLands
  <2>4. ~RoundPc
    BY <2>1, <2>2 DEF NetInv, RoundPc, Command
  <2>5. ASSUME NEW n \in Node PROVE scripts'[n]["static"] = {} \/ StaticCleaned(n)'
    <3>1. CASE m.to = n /\ m.arg = "static"
      BY <1>1, <2>1, <2>2, <3>1 DEF NodeType
    <3>2. CASE ~(m.to = n /\ m.arg = "static")
      <4>1. scripts'[n]["static"] = scripts[n]["static"]
        BY <1>1, <2>1, <2>2, <3>2 DEF NodeType
      <4>2. scripts[n]["static"] = {} \/ StaticCleaned(n)
        BY <2>4 DEF StaticInv
      <4>3. StaticCleaned(n) => StaticCleaned(n)'
        BY <2>1, <3>2 DEF StaticCleaned, Pending
      <4> QED  BY <4>1, <4>2, <4>3
    <3> QED  BY <3>1, <3>2
  <2> QED  BY <2>3, <2>4, <2>5 DEF StaticInv, RoundPc, controller
<1>9. CASE /\ UNCHANGED <<regionOf, controller, scripts>>
           /\ \A m \in net : m.op = "cleanup" => m \in net'
  <2>1. \A m \in Pending("cleanup") : m \in Pending("cleanup")'
    BY <1>9 DEF Pending
  <2>2. Done' = Done /\ \A p : OnePair(p)' = OnePair(p)
    BY <1>9 DEF Done, OnePair, Both, Eligible, controller
  <2> QED  BY <1>9, <2>1, <2>2 DEF StaticInv, StaticCleaned, RoundPc, controller
<1>10. CASE StartLands \/ FetchLands \/ RmLands
  BY <1>9, <1>10 DEF StartLands, FetchLands, RmLands, Pending, node
<1>11. CASE UNCHANGED <<regionOf, controller, scripts, net>>
  BY <1>9, <1>11
<1> QED
  BY <1>2, <1>3, <1>4, <1>5, <1>6, <1>7, <1>8, <1>10, <1>11
     DEF Next, Controller, Landing, NodeStep, Finished, Serve, StartClients, RunClient, vars, node

\* The nodes of the pairs that are done are among those to be started, and the
\* second ones among those whose status file is waited for.
SentInv ==
  pc # "idle" /\ call.kind # "static" =>
    /\ call.mode # 3 =>
         /\ cur >= 1 => call.sel[cur] \in all_send_ips
         /\ \A q \in Done : /\ Both(q) \subseteq all_send_ips
                            /\ call.sel[q[2]] \in Range(ip_filtered_stats)
    /\ call.mode = 3 /\ RoundPc =>
         all_send_ips = Range(call.sel) /\ ip_filtered_stats = call.sel

(* The nodes to be started grow with the pairs.                              *)
LEMMA SentStep == TInv /\ SentInv /\ [Next]_vars => SentInv'
<1> SUFFICES ASSUME TInv, SentInv, [Next]_vars PROVE SentInv'
  OBVIOUS
<1>1. CallType /\ StatsType /\ call.sel \in Sels /\ cur \in Nat
  BY CallIs, Selected DEF TInv, CallType
<1>2. CASE Call
  <2>1. Done' = {} /\ cur' = 0 /\ pc' = "pairs"
    BY <1>2 DEF Call, Done, Eligible
  <2> QED  BY <2>1 DEF SentInv, RoundPc
<1>3. CASE NextServer
  <2>1. /\ pc = "pairs" /\ UNCHANGED <<regionOf, call, todo, ip_filtered_stats, pc>>
        /\ all_send_ips' = all_send_ips \union {call.sel[cur']} /\ cur' = cur + 1
    BY <1>3 DEF NextServer
  <2>2. Done' = Done /\ \A q : Both(q)' = Both(q)
    BY <2>1 DEF Done, Both, Eligible
  <2> QED  BY <2>1, <2>2 DEF SentInv, RoundPc
<1>4. CASE PlaceScript
  <2> SUFFICES ASSUME call.kind # "static" PROVE SentInv'
    BY <1>4 DEF PlaceScript, SentInv
  <2>1. PICK p \in Here :
          /\ todo' = todo \ {p}
          /\ all_send_ips' = all_send_ips \union {call.sel[p[2]]}
          /\ ip_filtered_stats' = IF call.sel[p[2]] \in Range(ip_filtered_stats)
                                  THEN ip_filtered_stats
                                  ELSE Append(ip_filtered_stats, call.sel[p[2]])
    BY <1>4 DEF PlaceScript
  <2>2. pc = "pairs" /\ call.mode # 3 /\ UNCHANGED <<regionOf, call, cur>>
    BY <1>4 DEF PlaceScript
  <2>3. p \in todo /\ p \in Eligible(call.sel) /\ p[1] = cur /\ call.sel[p[2]] \in Node /\ cur >= 1
    BY <1>1, CallIs, Selected
  <2>4. Range(ip_filtered_stats) \union {call.sel[p[2]]} \subseteq Range(ip_filtered_stats')
    <3>1. CASE call.sel[p[2]] \in Range(ip_filtered_stats)
      BY <2>1, <3>1
    <3>2. CASE call.sel[p[2]] \notin Range(ip_filtered_stats)
      <4> DEFINE t == ip_filtered_stats
                 x == call.sel[p[2]]
      <4>1. t \in Seq(Node) /\ x \in Node /\ Len(t) \in Nat /\ DOMAIN t = 1 .. Len(t)
        BY <1>1, <2>3 DEF StatsType
      <4> HIDE DEF t, x
      <4>2. /\ DOMAIN Append(t, x) = 1 .. Len(t) + 1 /\ Append(t, x)[Len(t) + 1] = x
            /\ \A k \in 1 .. Len(t) : Append(t, x)[k] = t[k]
        BY <4>1, AppendProperties
      <4>3. x \in Range(Append(t, x))
        BY <4>1, <4>2 DEF Range
      <4>4. \A y \in Range(t) : y \in Range(Append(t, x))
        BY <4>1, <4>2 DEF Range
      <4> QED  BY <2>1, <3>2, <4>3, <4>4 DEF t, x
    <3> QED  BY <3>1, <3>2
  <2>5. \A q \in Done' : q \in Done \/ q = p
    BY <2>1, <2>2 DEF Done, Eligible
  <2>6. \A q : Both(q)' = Both(q)
    BY <2>2 DEF Both
  <2>7. call.sel[cur] \in all_send_ips
    BY <2>2, <2>3 DEF SentInv
  <2>8. Both(p) \subseteq all_send_ips'
    BY <2>1, <2>3, <2>7 DEF Both
  <2>9. \A q \in Done' : Both(q)' \subseteq all_send_ips'
                         /\ call.sel[q[2]] \in Range(ip_filtered_stats')
    BY <2>1, <2>2, <2>4, <2>5, <2>6, <2>8 DEF SentInv
  <2> QED  BY <2>1, <2>2, <2>7, <2>9 DEF SentInv
<1>5. CASE ForceStart
  BY <1>5 DEF ForceStart, SentInv
<1>6. CASE UNCHANGED <<regionOf, call, cur, todo, all_send_ips, ip_filtered_stats>>
           /\ (pc' # "idle" => pc # "idle") /\ (RoundPc' => RoundPc)
  <2>1. Done' = Done /\ \A q : Both(q)' = Both(q)
    BY <1>6 DEF Done, Both, Eligible
  <2> QED  BY <1>6, <2>1 DEF SentInv
<1> QED
  BY <1>2, <1>3, <1>4, <1>5, <1>6
     DEF Next, Controller, ParseError, Landing, NodeStep, Finished, SendStart, EndSleep,
         ReadStatus, WriteOutput, Return, StartLands, FetchLands, RmLands, CleanupLands,
         Serve, StartClients, RunClient, vars, controller, RoundPc

\* The pairs with a script in place.
Round == {q \in Eligible(call.sel) :
            \E s \in scripts[call.sel[q[2]]][call.kind] : s.server = call.sel[q[1]]}

(* The scripts of a round are those of its pairs, which are one pair or all, *)
(* and their nodes are those that are started.                               *)
LEMMA RoundScripts ==
  ASSUME Careful, TInv, FilesInv, PlacedInv, StaticInv, SentInv, RoundPc
  PROVE  /\ \A n \in Node : \A s \in scripts[n][call.kind] :
              /\ n \in all_send_ips /\ s.server \in all_send_ips
              /\ n \in Range(ip_filtered_stats)
              /\ \E q \in Round : n = call.sel[q[2]] /\ s.server = call.sel[q[1]]
         /\ call.kind = "static" => \E p \in Done : Round = {p}
         /\ call.kind # "static" => Round = Eligible(call.sel)
<1>1. CallType /\ call.sel \in Sels /\ pc # "idle" /\ pc # "pairs"
  BY CallIs DEF TInv, RoundPc
<1>2. CASE call.kind = "static"
  <2>1. PICK p \in Done : OnePair(p)
    BY <1>2 DEF StaticInv
  <2>2. p \in Eligible(call.sel) /\ call.sel[p[1]] \in Node /\ call.sel[p[2]] \in Node
    BY <1>1, <2>1, Selected DEF Done
  <2>3. \E s \in scripts[call.sel[p[2]]][call.kind] : s.server = call.sel[p[1]]
    <3>1. call.sel[p[1]] \in {s.server : s \in scripts[call.sel[p[2]]]["static"]}
      BY <2>1, <2>2 DEF OnePair
    <3> QED  BY <1>2, <3>1
  <2>4. \A n \in Node : \A s \in scripts[n][call.kind] :
          n = call.sel[p[2]] /\ s.server = call.sel[p[1]]
    <3> SUFFICES ASSUME NEW n \in Node, NEW s \in scripts[n][call.kind]
                 PROVE  n = call.sel[p[2]] /\ s.server = call.sel[p[1]]
      OBVIOUS
    <3>1. s.server \in {x.server : x \in scripts[n]["static"]}
      BY <1>2
    <3>2. {x.server : x \in scripts[n]["static"]} =
            IF n = call.sel[p[2]] THEN {call.sel[p[1]]} ELSE {}
      BY <2>1 DEF OnePair
    <3> QED  BY <3>1, <3>2
  <2>5. p \in Round
    BY <2>2, <2>3 DEF Round
  <2>6. ASSUME NEW q \in Round PROVE q = p
    <3>1. q \in Eligible(call.sel) /\ call.sel[q[2]] \in Node
          /\ \E s \in scripts[call.sel[q[2]]][call.kind] : s.server = call.sel[q[1]]
      BY <1>1, Selected DEF Round
    <3>2. call.sel[q[2]] = call.sel[p[2]] /\ call.sel[q[1]] = call.sel[p[1]]
      BY <2>4, <3>1
    <3>3. q[1] = p[1] /\ q[2] = p[2] /\ q = <<q[1], q[2]>> /\ p = <<p[1], p[2]>>
      BY <1>1, <2>2, <3>1, <3>2, Selected DEF Distinct
    <3> QED  BY <3>3
  <2>7. Round = {p}
    BY <2>5, <2>6
  <2>8. all_send_ips = Both(p) /\ call.sel[p[2]] \in Range(ip_filtered_stats)
    BY <2>1 DEF OnePair, Range
  <2> QED  BY <1>2, <2>1, <2>4, <2>5, <2>7, <2>8 DEF Both
<1>3. CASE call.kind # "static"
  <2>1. Transferred(call)
    BY <1>3, InPlace DEF Careful
  <2>2. Round = Eligible(call.sel)
    BY <2>1 DEF Transferred, Round
  <2>3. ASSUME NEW q \in Eligible(call.sel)
        PROVE  Both(q) \subseteq all_send_ips /\ call.sel[q[2]] \in Range(ip_filtered_stats)
    <3>1. CASE call.mode # 3
      BY <1>1, <1>3, <2>3, <3>1 DEF SentInv, PlacedInv, Done
    <3>2. CASE call.mode = 3
      <4>1. all_send_ips = Range(call.sel) /\ ip_filtered_stats = call.sel
        BY <1>1, <1>3, <3>2 DEF SentInv
      <4>2. call.sel[q[1]] \in Range(call.sel) /\ call.sel[q[2]] \in Range(call.sel)
        BY <1>1, <2>3, Selected DEF Range
      <4> QED  BY <4>1, <4>2 DEF Both
    <3> QED  BY <3>1, <3>2
  <2> QED  BY <1>3, <2>1, <2>2, <2>3 DEF Transferred, Both
<1> QED  BY <1>2, <1>3

(* A node has one script per server, on a port that the server opens.        *)
LEMMA OneScript ==
  ASSUME FilesInv, NEW k \in Kind, NEW n \in Node, NEW s1 \in scripts[n][k],
         NEW s2 \in scripts[n][k], s1.server = s2.server
  PROVE  s1 = s2
<1>1. PICK sel \in Sels : s1 \in Plan(sel, n) /\ s2 \in Plan(sel, n)
  BY DEF FilesInv, Fits
<1>2. PICK p \in Eligible(sel) :
        sel[p[2]] = n /\ s1 = Script(Number(sel, p), sel[p[1]], Offset(sel, p))
  BY <1>1 DEF Plan
<1>3. PICK q \in Eligible(sel) :
        sel[q[2]] = n /\ s2 = Script(Number(sel, q), sel[q[1]], Offset(sel, q))
  BY <1>1 DEF Plan
<1>4. sel[p[1]] = sel[q[1]] /\ sel[p[2]] = sel[q[2]]
  BY <1>2, <1>3 DEF Script
<1>5. p[1] = q[1] /\ p[2] = q[2] /\ p = <<p[1], p[2]>> /\ q = <<q[1], q[2]>>
  BY <1>4, Selected DEF Distinct
<1> QED  BY <1>2, <1>3, <1>5

(* The offsets of a server's pairs are less than its ports.                  *)
LEMMA OffsetBound ==
  ASSUME NEW s \in Sels, NEW p \in Eligible(s)
  PROVE  Offset(s, p) \in Nat /\ Offset(s, p) + 2 <= Len(AllIPs)
<1> DEFINE S == {q \in Eligible(s) : q[1] = p[1] /\ q[2] < p[2]}
           f == [q \in S |-> q[2]]
           T == ((1 .. Len(s)) \ {p[1]}) \ {p[2]}
<1>1. /\ s \in Seq(Node) /\ Distinct(s) /\ Len(s) \in Nat
      /\ \A q \in Eligible(s) : /\ q[1] \in 1 .. Len(s) /\ q[2] \in 1 .. Len(s)
                              /\ q = <<q[1], q[2]>> /\ q[1] # q[2]
  BY Selected
<1>2. f \in Injection(S, T)
  <2>1. f \in [S -> T]
    BY <1>1
  <2>2. \A a, b \in S : f[a] = f[b] => a = b
    BY <1>1
  <2> HIDE DEF f, S, T
  <2> QED  BY <2>1, <2>2 DEF Injection, IsInjective
<1>3. IsFiniteSet(T) /\ Cardinality(T) = Len(s) - 2
  <2> DEFINE D == 1 .. Len(s)
  <2>1. IsFiniteSet(D) /\ Cardinality(D) = Len(s)
    BY <1>1, Segment
  <2>2. p[1] \in D /\ p[2] \in D \ {p[1]}
    BY <1>1
  <2> HIDE DEF D
  <2>3. IsFiniteSet(D \ {p[1]}) /\ Cardinality(D \ {p[1]}) = Len(s) - 1
    BY <2>1, <2>2, FS_RemoveElement
  <2> DEFINE E == D \ {p[1]}
  <2>4. IsFiniteSet(E) /\ p[2] \in E /\ Cardinality(E) = Len(s) - 1
    BY <2>2, <2>3
  <2> HIDE DEF E
  <2>5. IsFiniteSet(E \ {p[2]}) /\ Cardinality(E \ {p[2]}) = (Len(s) - 1) - 1
    BY <2>4, FS_RemoveElement
  <2> QED  BY <1>1, <2>5 DEF D, E
<1>4. Cardinality(S) <= Cardinality(T)
  <2> HIDE DEF f, S, T
  <2> QED  BY <1>2, <1>3, FS_Injection
<1>5. Offset(s, p) = Cardinality(S) /\ Offset(s, p) \in Nat
  BY PlanTyped DEF Offset
<1>6. Len(s) <= Len(AllIPs) /\ Len(AllIPs) \in Nat
  BY <1>1, DistinctShort, NodesFinite
<1> HIDE DEF S, T
<1> QED  BY <1>1, <1>3, <1>4, <1>5, <1>6

(* So every script connects to a port that its server opens.                 *)
LEMMA PortOpen ==
  ASSUME EnoughPorts, FilesInv, NEW k \in Kind, NEW n \in Node, NEW s \in scripts[n][k]
  PROVE  s.port \in 0 .. NumPorts - 1
<1>1. PICK sel \in Sels : s \in Plan(sel, n)
  BY DEF FilesInv, Fits
<1>2. PICK p \in Eligible(sel) : s = Script(Number(sel, p), sel[p[1]], Offset(sel, p))
  BY <1>1 DEF Plan
<1>3. Offset(sel, p) \in Nat /\ Offset(sel, p) + 2 <= Len(AllIPs) /\ Len(AllIPs) \in Nat
  BY OffsetBound, NodesFinite
<1>4. s.port = Offset(sel, p)
  BY <1>2 DEF Script
<1> QED  BY <1>3, <1>4, NumPortsAssumption DEF EnoughPorts

-----------------------------------------------------------------------------
(* Sequences of readings.                                                    *)

\* The sequence holds the elements of S, each once.
Records(seq, S) == Distinct(seq) /\ Range(seq) = S

LEMMA RecordsAppend ==
  ASSUME NEW X, NEW seq \in Seq(X), NEW S, Records(seq, S), NEW x \in X, x \notin S
  PROVE  Records(Append(seq, x), S \union {x})
<1> DEFINE t == Append(seq, x)
           n == Len(seq)
<1>1. n \in Nat /\ DOMAIN seq = 1 .. n
  OBVIOUS
<1>2. DOMAIN t = 1 .. n + 1 /\ t[n + 1] = x /\ \A k \in 1 .. n : t[k] = seq[k]
  BY AppendProperties
<1> HIDE DEF t, n
<1>3. \A k \in 1 .. n : t[k] \in S
  BY <1>1, <1>2 DEF Records, Range
<1>4. \A k \in 1 .. n + 1 : k \in 1 .. n \/ k = n + 1
  BY <1>1
<1>5. Distinct(t)
  BY <1>1, <1>2, <1>3, <1>4 DEF Distinct, Records
<1>6. \A y \in S : \E k \in 1 .. n + 1 : t[k] = y
  BY <1>1, <1>2 DEF Records, Range
<1>7. n + 1 \in 1 .. n + 1
  BY <1>1
<1>8. Range(t) = S \union {x}
  BY <1>2, <1>3, <1>4, <1>6, <1>7 DEF Range
<1> QED  BY <1>5, <1>8 DEF Records, t

LEMMA RecordsConcat ==
  ASSUME NEW X, NEW s \in Seq(X), NEW t \in Seq(X), NEW S, NEW T,
         Records(s, S), Records(t, T), S \cap T = {}
  PROVE  Records(s \o t, S \union T)
<1> DEFINE u == s \o t
           m == Len(s)
           n == Len(t)
<1>1. m \in Nat /\ n \in Nat /\ DOMAIN s = 1 .. m /\ DOMAIN t = 1 .. n
  OBVIOUS
<1>2. /\ u \in Seq(X) /\ Len(u) = m + n
      /\ \A k \in 1 .. m + n : u[k] = IF k <= m THEN s[k] ELSE t[k - m]
  BY ConcatProperties
<1>3. DOMAIN u = 1 .. m + n
  <2>1. DOMAIN u = 1 .. Len(u)
    BY <1>2
  <2> QED  BY <1>2, <2>1
<1> HIDE DEF u, m, n
<1>4. \A k \in 1 .. m : k \in 1 .. m + n /\ u[k] = s[k] /\ s[k] \in S
  <2> TAKE k \in 1 .. m
  <2>1. k \in 1 .. m + n /\ k <= m
    BY <1>1
  <2>2. u[k] = s[k]
    BY <1>2, <2>1
  <2>3. s[k] \in S
    BY <1>1 DEF Records, Range
  <2> QED  BY <2>1, <2>2, <2>3
<1>5. \A k \in 1 .. n : k + m \in 1 .. m + n /\ u[k + m] = t[k] /\ t[k] \in T
  <2> TAKE k \in 1 .. n
  <2>1. k + m \in 1 .. m + n /\ ~(k + m <= m) /\ (k + m) - m = k
    BY <1>1
  <2>2. u[k + m] = t[k]
    BY <1>2, <2>1
  <2>3. t[k] \in T
    BY <1>1 DEF Records, Range
  <2> QED  BY <2>1, <2>2, <2>3
<1>6. \A k \in 1 .. m + n : k \in 1 .. m \/ \E l \in 1 .. n : k = l + m
  <2> TAKE k \in 1 .. m + n
  <2>1. CASE k <= m
    BY <1>1, <2>1
  <2>2. CASE ~(k <= m)
    <3>1. k - m \in 1 .. n /\ k = (k - m) + m
      BY <1>1, <2>2
    <3> QED  BY <3>1
  <2> QED  BY <2>1, <2>2
<1>7. Distinct(u)
  <2> SUFFICES ASSUME NEW k \in 1 .. m + n, NEW l \in 1 .. m + n, u[k] = u[l] PROVE k = l
    BY <1>3 DEF Distinct
  <2>1. CASE k \in 1 .. m /\ l \in 1 .. m
    BY <1>1, <1>4, <2>1 DEF Records, Distinct
  <2>2. ASSUME NEW i \in 1 .. n, NEW j \in 1 .. n, k = i + m, l = j + m PROVE k = l
    <3>1. t[i] = t[j]
      BY <1>5, <2>2
    <3>2. i = j
      BY <1>1, <3>1 DEF Records, Distinct
    <3> QED  BY <2>2, <3>2
  <2>3. ASSUME NEW j \in 1 .. n, k \in 1 .. m, l = j + m PROVE FALSE
    BY <1>4, <1>5, <2>3
  <2>4. ASSUME NEW i \in 1 .. n, k = i + m, l \in 1 .. m PROVE FALSE
    BY <1>4, <1>5, <2>4
  <2> QED  BY <1>6, <2>1, <2>2, <2>3, <2>4
<1>8. Range(u) \subseteq S \union T
  BY <1>3, <1>4, <1>5, <1>6 DEF Range
<1>9. \A y \in S : y \in Range(u)
  <2> TAKE y \in S
  <2>1. PICK k \in 1 .. m : s[k] = y
    BY <1>1 DEF Records, Range
  <2> QED  BY <1>3, <1>4, <2>1 DEF Range
<1>10. \A y \in T : y \in Range(u)
  <2> TAKE y \in T
  <2>1. PICK k \in 1 .. n : t[k] = y
    BY <1>1 DEF Records, Range
  <2> QED  BY <1>3, <1>5, <2>1 DEF Range
<1>11. Range(u) = S \union T
  BY <1>8, <1>9, <1>10
<1> QED  BY <1>7, <1>11 DEF Records, u

LEMMA RecordsCount ==
  ASSUME NEW X, NEW s \in Seq(X), NEW S, Records(s, S)
  PROVE  Len(s) = Cardinality(S)
<1>1. Len(s) \in Nat /\ DOMAIN s = 1 .. Len(s)
  OBVIOUS
<1>2. s \in Bijection(1 .. Len(s), S)
  <2>1. s \in [1 .. Len(s) -> S]
    BY <1>1 DEF Records, Range
  <2>2. \A k, l \in 1 .. Len(s) : s[k] = s[l] => k = l
    BY <1>1 DEF Records, Distinct
  <2>3. \A y \in S : \E k \in 1 .. Len(s) : s[k] = y
    BY <1>1 DEF Records, Range
  <2> QED  BY <2>1, <2>2, <2>3 DEF Bijection, Injection, Surjection, IsInjective
<1>3. IsFiniteSet(1 .. Len(s)) /\ Cardinality(1 .. Len(s)) = Len(s)
  BY <1>1, Segment
<1> DEFINE D == 1 .. Len(s)
<1>4. Cardinality(S) = Cardinality(D)
  <2>1. s \in Bijection(D, S) /\ IsFiniteSet(D)
    BY <1>2, <1>3
  <2> HIDE DEF D
  <2> QED  BY <2>1, FS_Bijection DEF ExistsBijection
<1> QED  BY <1>3, <1>4

-----------------------------------------------------------------------------
(* The nodes during a round and between two.                                 *)

\* The reading of the client at n against the server at m.
Rd(n, m) == [src |-> n, dest |-> m, call |-> calls]

\* A node that waits for a start.txt or has nothing left to do, and one with
\* nothing left behind either.
Idle(n) == startFile[n] = None /\ clients[n] = {} /\ service[n] # "serving"
Quiet(n) == Idle(n) /\ status[n] = << >> /\ service[n] = "waiting"

\* start.txt is on its way to the node; the node has it; its clients are started,
\* and those that are through have left one reading each.
Told(n) == \E m \in Pending("start") : m.to = n
Waits(n) == Quiet(n) /\ Told(n)
Starts(n) == /\ startFile[n] = call.kind /\ service[n] \in {"waiting", "serving"}
             /\ clients[n] = {} /\ status[n] = << >> /\ ~Told(n)
Ran(n) == /\ startFile[n] = None /\ service[n] = "done" /\ ~Told(n)
          /\ clients[n] \subseteq scripts[n][call.kind]
          /\ Records(status[n], {Rd(n, s.server) : s \in scripts[n][call.kind] \ clients[n]})

\* Outside a round a node is quiet or about to be cleaned.  In a round those that
\* are not started are; of the others none starts its clients before all have
\* their servers, and when the status files are fetched all are through.
NodesInv ==
  /\ pc \in {"idle", "pairs"} => \A n \in Node : Idle(n) /\ (Quiet(n) \/ Cleaned(n))
  /\ RoundPc => \A n \in Node \ all_send_ips : Quiet(n)
  /\ pc = "send" => \A n \in all_send_ips : Quiet(n)
  /\ pc = "sleep" =>
       /\ \A n \in all_send_ips : Waits(n) \/ Starts(n) \/ Ran(n)
       /\ (\E n \in all_send_ips : Ran(n)) =>
            \A n \in all_send_ips : service[n] \in {"serving", "done"}
  /\ pc = "collect" => \A n \in all_send_ips : Ran(n) /\ clients[n] = {}

\* A server keeps the port open of every client that has not run.
Unrun(n, s) == service[n] # "done" \/ s \in clients[n]
PortsInv ==
  pc = "sleep" =>
    \A m \in all_send_ips : service[m] \in {"serving", "done"} =>
      \A n \in Node : \A s \in scripts[n][call.kind] :
        s.server = m /\ Unrun(n, s) => s.port \in servers[m]

(* When nothing is on its way outside a round, all nodes are quiet.          *)
LEMMA AllQuiet ==
  ASSUME NodesInv, net = {}, pc \in {"idle", "pairs"}
  PROVE  \A n \in Node : Quiet(n)
BY DEF NodesInv, Cleaned, Pending

(* What the invariants of the nodes depend on.                               *)
LEMMA NodesSame ==
  ASSUME NodesInv, PortsInv, UNCHANGED <<pc, call, calls, all_send_ips, node>>,
         \A m : m.op \in {"start", "cleanup"} => (m \in net' <=> m \in net)
  PROVE  NodesInv' /\ PortsInv'
<1>1. \A n : Told(n)' = Told(n) /\ Cleaned(n)' = Cleaned(n)
  BY DEF Told, Cleaned, Pending
<1>2. \A n : Idle(n)' = Idle(n) /\ Quiet(n)' = Quiet(n) /\ Waits(n)' = Waits(n)
             /\ Starts(n)' = Starts(n) /\ Ran(n)' = Ran(n)
  BY <1>1 DEF Idle, Quiet, Waits, Starts, Ran, Records, Distinct, Rd, node
<1>3. NodesInv'
  BY <1>1, <1>2 DEF NodesInv, RoundPc, node
<1>4. PortsInv'
  BY DEF PortsInv, Unrun, node
<1> QED  BY <1>3, <1>4

(* A call begins, the loops go on or end, and a round begins while all nodes *)
(* are quiet.                                                                *)
LEMMA NodesBetween ==
  ASSUME Timely, CallType', NetInv, NodesInv,
         Call \/ NextServer \/ PlaceScript \/ ForceStart \/ Return
  PROVE  NodesInv' /\ PortsInv'
<1>1. UNCHANGED <<startFile, service, clients, status, net>>
      /\ pc \in {"idle", "pairs"} /\ pc' \in {"idle", "pairs", "send"}
  BY DEF Call, NextServer, PlaceScript, ForceStart, Return, node
<1>2. \A n : Idle(n)' = Idle(n) /\ Quiet(n)' = Quiet(n) /\ Cleaned(n)' = Cleaned(n)
  BY <1>1 DEF Idle, Quiet, Cleaned, Pending
<1>3. PortsInv'
  BY <1>1 DEF PortsInv
<1>4. CASE pc' # "send"
  BY <1>1, <1>2, <1>3, <1>4 DEF NodesInv, RoundPc
<1>5. CASE pc' = "send"
  <2>1. net = {}
    BY <1>5 DEF Call, NextServer, PlaceScript, ForceStart, Return, Timely, NetInv
  <2>2. \A n \in Node : Quiet(n)
    BY <1>1, <2>1, AllQuiet
  <2>3. all_send_ips' \subseteq Node
    BY DEF CallType
  <2> QED  BY <1>2, <1>3, <1>5, <2>2, <2>3 DEF NodesInv, RoundPc
<1> QED  BY <1>4, <1>5

(* All are told to start, and when the sleep is over all have run.           *)
LEMMA NodesTold ==
  ASSUME Timely, NetInv, NodesInv, SendStart \/ EndSleep
  PROVE  NodesInv' /\ PortsInv'
<1>1. CASE SendStart
  <2>1. /\ UNCHANGED <<startFile, service, clients, status, all_send_ips>>
        /\ pc = "send" /\ pc' = "sleep"
    BY <1>1 DEF SendStart, node
  <2>2. \A n : Quiet(n)' = Quiet(n)
    BY <2>1 DEF Quiet, Idle
  <2>3. ASSUME NEW n \in all_send_ips PROVE Told(n)'
    <3>1. Command("start", n, call.kind) \in net'
      BY <1>1, <2>3 DEF SendStart
    <3>2. Command("start", n, call.kind) \in Pending("start")'
      BY <3>1 DEF Pending, Command
    <3> QED  BY <3>2 DEF Told, Command
  <2>4. \A n \in all_send_ips : Waits(n)' /\ ~Ran(n)' /\ service'[n] = "waiting"
    BY <2>1, <2>2, <2>3 DEF NodesInv, Waits, Ran, Quiet
  <2>5. \A n \in Node \ all_send_ips : Quiet(n)'
    BY <2>1, <2>2 DEF NodesInv, RoundPc
  <2>6. NodesInv'
    BY <2>1, <2>4, <2>5 DEF NodesInv
  <2>7. PortsInv'
    BY <2>1, <2>4 DEF PortsInv
  <2> QED  BY <2>6, <2>7
<1>2. CASE EndSleep
  <2>1. /\ UNCHANGED <<call, calls, all_send_ips, scripts, startFile, service, clients, status>>
        /\ pc = "sleep" /\ pc' = "collect"
        /\ Pending("start") = {} /\ \A n \in all_send_ips : service[n] = "done" /\ clients[n] = {}
    BY <1>2 DEF EndSleep, Timely, Measured, node
  <2>2. \A n : ~Told(n)'
    BY <1>2, <2>1 DEF EndSleep, Told, Pending, Command
  <2>3. \A n \in all_send_ips : Ran(n) /\ clients[n] = {}
    BY <2>1 DEF NodesInv, Waits, Quiet, Starts
  <2>4. \A n : Quiet(n)' = Quiet(n) /\ (Ran(n) => Ran(n)')
    BY <2>1, <2>2 DEF Quiet, Idle, Ran, Records, Distinct, Rd
  <2>5. NodesInv'
    BY <2>1, <2>3, <2>4 DEF NodesInv, RoundPc
  <2> QED  BY <2>1, <2>5 DEF PortsInv
<1> QED  BY <1>1, <1>2

(* After the round the nodes that were started are about to be cleaned.      *)
LEMMA NodesEnd ==
  ASSUME TInv, NodesInv, ParseError \/ WriteOutput
  PROVE  NodesInv' /\ PortsInv'
<1>1. /\ UNCHANGED <<startFile, service, clients, status>>
      /\ pc = "collect" /\ pc' \in {"idle", "pairs"} /\ call.kind \in Kind
  BY CallIs DEF TInv, ParseError, WriteOutput, node
<1>2. ASSUME NEW n \in all_send_ips PROVE Cleaned(n)'
  <2>1. PICK k : Command("cleanup", n, k) \in net'
    BY <1>1, <1>2 DEF ParseError, WriteOutput, ErrorCleanups
  <2>2. Command("cleanup", n, k) \in Pending("cleanup")'
    BY <2>1 DEF Pending, Command
  <2> QED  BY <2>2 DEF Cleaned, Command
<1>3. \A n \in all_send_ips : Idle(n)
  BY <1>1 DEF NodesInv, Ran, Idle
<1>4. \A n \in Node \ all_send_ips : Quiet(n)
  BY <1>1 DEF NodesInv, RoundPc
<1>5. \A n : Idle(n)' = Idle(n) /\ Quiet(n)' = Quiet(n)
  BY <1>1 DEF Idle, Quiet
<1>6. \A n \in Node : Idle(n)' /\ (Quiet(n)' \/ Cleaned(n)')
  BY <1>2, <1>3, <1>4, <1>5 DEF Quiet
<1> QED  BY <1>1, <1>6 DEF NodesInv, PortsInv, RoundPc

(* start.txt arrives.                                                        *)
LEMMA NodesStartLands ==
  ASSUME TInv, NetInv, NodesInv, PortsInv, StartLands
  PROVE  NodesInv' /\ PortsInv'
<1>1. PICK m \in Pending("start") :
        startFile' = [startFile EXCEPT ![m.to] = m.arg] /\ net' = net \ {m}
  BY DEF StartLands
<1>2. UNCHANGED <<pc, call, calls, all_send_ips, scripts, service, servers, clients, status>>
  BY DEF StartLands, controller
<1>3. pc = "sleep"
  BY <1>1 DEF NetInv, Pending, TInv, CallType
<1>4. /\ m.to \in all_send_ips /\ m.arg = call.kind /\ m.to \in Node /\ call.kind \in Kind
      /\ \A x \in Pending("start") : x.to = m.to => x = m
  <2>1. \A x \in Pending("start") : \E n \in all_send_ips : x = Command("start", n, call.kind)
    BY <1>3 DEF NetInv, Pending
  <2>2. all_send_ips \subseteq Node /\ call.kind \in Kind
    BY CallIs DEF TInv, CallType
  <2> QED  BY <1>1, <2>1, <2>2 DEF Command
<1>5. Told(m.to) /\ ~Told(m.to)' /\ \A n : n # m.to => Told(n)' = Told(n)
  BY <1>1, <1>4 DEF Told, Pending
<1>6. Waits(m.to) /\ \A n \in all_send_ips : ~Ran(n)
  <2>1. Waits(m.to)
    BY <1>3, <1>4, <1>5 DEF NodesInv, Starts, Ran
  <2> QED  BY <1>3, <1>4, <2>1 DEF NodesInv, Waits, Quiet
<1>7. startFile \in [Node -> Kind \union {None}]
  BY DEF TInv, NodeType
<1>8. Starts(m.to)'
  BY <1>1, <1>2, <1>4, <1>5, <1>6, <1>7 DEF Starts, Waits, Quiet, Idle
<1>9. ASSUME NEW n \in Node, n # m.to
      PROVE  /\ Quiet(n)' = Quiet(n) /\ Waits(n)' = Waits(n) /\ Starts(n)' = Starts(n)
             /\ Ran(n)' = Ran(n)
  <2>1. startFile'[n] = startFile[n]
    BY <1>1, <1>7, <1>9
  <2> QED  BY <1>2, <1>5, <1>9, <2>1 DEF Quiet, Idle, Waits, Starts, Ran, Records, Distinct, Rd
<1>10. \A n \in all_send_ips : n \in Node
  BY DEF TInv, CallType
<1>11. ~Ran(m.to)'
  BY <1>4, <1>8 DEF Ran, Starts, Kind, None
<1>12. NodesInv'
  <2>1. \A n \in all_send_ips : (Waits(n)' \/ Starts(n)' \/ Ran(n)') /\ ~Ran(n)'
    BY <1>3, <1>6, <1>8, <1>9, <1>10, <1>11 DEF NodesInv
  <2>2. \A n \in Node \ all_send_ips : Quiet(n)'
    BY <1>3, <1>4, <1>9 DEF NodesInv, RoundPc
  <2> QED  BY <1>2, <1>3, <2>1, <2>2 DEF NodesInv
<1>13. PortsInv'
  BY <1>2 DEF PortsInv, Unrun
<1> QED  BY <1>12, <1>13

(* cleanup.sh leaves its node quiet.                                         *)
LEMMA NodesCleanupLands ==
  ASSUME TInv, NetInv, NodesInv, CleanupLands
  PROVE  NodesInv' /\ PortsInv'
<1>1. PICK m \in Pending("cleanup") :
        /\ status' = [status EXCEPT ![m.to] = << >>]
        /\ service' = [service EXCEPT ![m.to] = "waiting"]
        /\ clients' = [clients EXCEPT ![m.to] = {}]
        /\ net' = net \ {m}
  BY DEF CleanupLands, CleanedStatus, Restarted
<1>2. UNCHANGED <<pc, call, startFile, all_send_ips>> /\ m \in net /\ m.op = "cleanup"
  BY DEF CleanupLands, controller, Pending
<1>3. pc \in {"idle", "pairs"}
  BY <1>1, <1>2 DEF NetInv, Command, TInv, CallType
<1>4. m.to \in Node /\ NodeType
  BY <1>2 DEF TInv, NetType, Commands
<1>5. ASSUME NEW n \in Node PROVE Idle(n)' /\ (Quiet(n)' \/ Cleaned(n)')
  <2>1. Idle(n) /\ (Quiet(n) \/ Cleaned(n))
    BY <1>3 DEF NodesInv
  <2>2. CASE n = m.to
    BY <1>1, <1>2, <1>4, <2>1, <2>2 DEF Quiet, Idle, NodeType
  <2>3. CASE n # m.to
    <3>1. UNCHANGED <<status[n], service[n], clients[n], startFile[n]>>
      BY <1>1, <1>2, <1>4, <2>3 DEF NodeType
    <3>2. Idle(n)' = Idle(n) /\ Quiet(n)' = Quiet(n)
      BY <3>1 DEF Idle, Quiet
    <3>3. Cleaned(n) => Cleaned(n)'
      BY <1>1, <2>3 DEF Cleaned, Pending
    <3> QED  BY <2>1, <3>2, <3>3
  <2> QED  BY <2>2, <2>3
<1> QED  BY <1>2, <1>3, <1>5 DEF NodesInv, PortsInv, RoundPc

(* The servers of a node start, before any client does.                      *)
LEMMA NodesServe ==
  ASSUME TInv, FilesInv, EnoughPorts, NodesInv, PortsInv, NEW n \in Node, Serve(n)
  PROVE  NodesInv' /\ PortsInv'
<1>1. /\ service[n] = "waiting" /\ startFile[n] # None
      /\ service' = [service EXCEPT ![n] = "serving"]
      /\ servers' = [servers EXCEPT ![n] = 0 .. NumPorts - 1]
      /\ UNCHANGED <<regionOf, pc, call, calls, all_send_ips, scripts, startFile, clients,
                     status, net>>
  BY DEF Serve, controller
<1>2. NodeType /\ CallType /\ all_send_ips \subseteq Node /\ call.kind \in Kind
  BY CallIs DEF TInv, CallType
<1>3. pc = "sleep" /\ n \in all_send_ips /\ Starts(n)
  <2>1. ~Idle(n) /\ ~Waits(n) /\ ~Quiet(n) /\ ~Ran(n)
    BY <1>1 DEF Idle, Quiet, Waits, Ran
  <2>2. pc = "sleep"
    BY <1>2, <2>1 DEF NodesInv, RoundPc, CallType
  <2> QED  BY <2>1, <2>2 DEF NodesInv, RoundPc
<1>4. \A m \in all_send_ips : ~Ran(m)
  BY <1>1, <1>3 DEF NodesInv
<1>5. \A m : Told(m)' = Told(m)
  BY <1>1 DEF Told, Pending
<1>6. ASSUME NEW m \in Node, m # n
      PROVE  service'[m] = service[m] /\ Quiet(m)' = Quiet(m) /\ Waits(m)' = Waits(m)
             /\ Starts(m)' = Starts(m) /\ Ran(m)' = Ran(m)
  <2>1. service'[m] = service[m]
    BY <1>1, <1>2, <1>6 DEF NodeType
  <2> QED  BY <1>1, <1>5, <2>1 DEF Quiet, Idle, Waits, Starts, Ran, Records, Distinct, Rd
<1>7. Starts(n)' /\ ~Ran(n)' /\ service'[n] = "serving"
  <2>1. service'[n] = "serving"
    BY <1>1, <1>2 DEF NodeType
  <2> QED  BY <1>1, <1>3, <1>5, <2>1 DEF Starts, Ran
<1>8. NodesInv'
  <2>1. \A m \in all_send_ips : (Waits(m)' \/ Starts(m)' \/ Ran(m)') /\ ~Ran(m)'
    BY <1>2, <1>3, <1>4, <1>6, <1>7 DEF NodesInv
  <2>2. \A m \in Node \ all_send_ips : Quiet(m)'
    BY <1>3, <1>6 DEF NodesInv, RoundPc
  <2> QED  BY <1>1, <1>3, <2>1, <2>2 DEF NodesInv
<1>9. ASSUME NEW m \in all_send_ips, service'[m] \in {"serving", "done"}, NEW o \in Node,
             NEW s \in scripts[o][call.kind], s.server = m, Unrun(o, s)'
      PROVE  s.port \in servers'[m]
  <2>1. CASE m = n
    <3>1. servers'[m] = 0 .. NumPorts - 1
      BY <1>1, <1>2, <2>1 DEF NodeType
    <3> QED  BY <1>2, <3>1, PortOpen
  <2>2. CASE m # n
    <3>1. service[m] \in {"serving", "done"} /\ servers'[m] = servers[m]
      BY <1>1, <1>2, <1>6, <1>9, <2>2 DEF NodeType
    <3>2. Unrun(o, s)
      <4>1. CASE o = n
        BY <1>1, <4>1 DEF Unrun
      <4>2. CASE o # n
        BY <1>1, <1>6, <1>9, <4>2 DEF Unrun
      <4> QED  BY <4>1, <4>2
    <3> QED  BY <1>3, <1>9, <3>1, <3>2 DEF PortsInv
  <2> QED  BY <2>1, <2>2
<1>10. PortsInv'
  BY <1>1, <1>9 DEF PortsInv
<1> QED  BY <1>8, <1>10

(* The clients of a node start when all servers stand.                       *)
LEMMA NodesStartClients ==
  ASSUME Timely, TInv, NodesInv, PortsInv, NEW n \in Node, StartClients(n)
  PROVE  NodesInv' /\ PortsInv'
<1>1. /\ service[n] = "serving" /\ Pending("start") = {}
      /\ \A o \in Node : startFile[o] # None => service[o] = "serving"
      /\ clients' = [clients EXCEPT ![n] = scripts[n][startFile[n]]]
      /\ startFile' = [startFile EXCEPT ![n] = None]
      /\ service' = [service EXCEPT ![n] = "done"]
      /\ UNCHANGED <<regionOf, pc, call, calls, all_send_ips, scripts, servers, status, net>>
  BY DEF StartClients, controller, Timely
<1>2. NodeType /\ CallType /\ all_send_ips \subseteq Node /\ call.kind \in Kind
  BY CallIs DEF TInv, CallType
<1>3. pc = "sleep" /\ n \in all_send_ips /\ Starts(n)
  <2>1. ~Idle(n) /\ ~Waits(n) /\ ~Quiet(n) /\ ~Ran(n)
    BY <1>1 DEF Idle, Quiet, Waits, Ran
  <2>2. pc = "sleep"
    BY <1>2, <2>1 DEF NodesInv, RoundPc, CallType
  <2> QED  BY <2>1, <2>2 DEF NodesInv, RoundPc
<1>4. \A m \in all_send_ips : service[m] \in {"serving", "done"}
  <2> SUFFICES ASSUME NEW m \in all_send_ips PROVE service[m] \in {"serving", "done"}
    OBVIOUS
  <2>1. ~Told(m)
    BY <1>1 DEF Told
  <2>2. Starts(m) \/ Ran(m)
    BY <1>3, <2>1 DEF NodesInv, Waits
  <2>3. Starts(m) => startFile[m] # None
    BY <1>2 DEF Starts, Kind, None
  <2> QED  BY <1>1, <1>2, <2>2, <2>3 DEF Ran
<1>5. \A m : Told(m)' = Told(m)
  BY <1>1 DEF Told, Pending
<1>6. ASSUME NEW m \in Node, m # n
      PROVE  /\ service'[m] = service[m] /\ clients'[m] = clients[m]
             /\ Quiet(m)' = Quiet(m) /\ Waits(m)' = Waits(m)
             /\ Starts(m)' = Starts(m) /\ Ran(m)' = Ran(m)
  <2>1. UNCHANGED <<service[m], clients[m], startFile[m]>>
    BY <1>1, <1>2, <1>6 DEF NodeType
  <2> QED  BY <1>1, <1>5, <2>1 DEF Quiet, Idle, Waits, Starts, Ran, Records, Distinct, Rd
<1>7. service'[n] = "done" /\ startFile'[n] = None
      /\ clients'[n] = scripts[n][call.kind] /\ status'[n] = << >> /\ ~Told(n)'
  BY <1>1, <1>2, <1>3, <1>5 DEF NodeType, Starts
<1>8. Ran(n)'
  <2>1. Records(<< >>, {})
    BY DEF Records, Distinct, Range
  <2>2. {Rd(n, s.server)' : s \in scripts'[n][call'.kind] \ clients'[n]} = {}
    BY <1>1, <1>7
  <2> QED  BY <1>1, <1>7, <2>1, <2>2 DEF Ran, Records, Distinct
<1>9. NodesInv'
  <2>1. \A m \in all_send_ips : /\ Waits(m)' \/ Starts(m)' \/ Ran(m)'
                               /\ service'[m] \in {"serving", "done"}
    BY <1>2, <1>3, <1>4, <1>6, <1>7, <1>8 DEF NodesInv
  <2>2. \A m \in Node \ all_send_ips : Quiet(m)'
    BY <1>3, <1>6 DEF NodesInv, RoundPc
  <2> QED  BY <1>1, <1>3, <2>1, <2>2 DEF NodesInv
<1>10. ASSUME NEW o \in Node, NEW s \in scripts[o][call.kind], Unrun(o, s)' PROVE Unrun(o, s)
  BY <1>1, <1>6, <1>7, <1>10 DEF Unrun
<1>11. PortsInv'
  BY <1>1, <1>3, <1>4, <1>10 DEF PortsInv
<1> QED  BY <1>9, <1>11

(* A client finds its port open, and leaves every other client's port.       *)
LEMMA NodesRunClient ==
  ASSUME Careful, TInv, FilesInv, PlacedInv, StaticInv, SentInv, NodesInv, PortsInv,
         NEW n \in Node, RunClient(n)
  PROVE  NodesInv' /\ PortsInv'
<1>1. PICK s \in clients[n] :
        /\ clients' = [clients EXCEPT ![n] = @ \ {s}]
        /\ IF s.port \in servers[s.server]
             THEN /\ servers' = [servers EXCEPT ![s.server] = @ \ {s.port}]
                  /\ status' = [status EXCEPT ![n] =
                        Append(@, [src |-> n, dest |-> s.server, call |-> calls])]
             ELSE UNCHANGED <<servers, status>>
  BY DEF RunClient
<1>2. UNCHANGED <<regionOf, pc, call, calls, all_send_ips, scripts, service, startFile, net>>
  BY DEF RunClient, controller
<1>3. NodeType /\ CallType /\ all_send_ips \subseteq Node /\ call.kind \in Kind
  BY CallIs DEF TInv, CallType
<1>4. pc = "sleep" /\ n \in all_send_ips /\ Ran(n)
  <2>1. ~Idle(n) /\ ~Waits(n) /\ ~Quiet(n) /\ ~Starts(n)
    BY <1>1 DEF Idle, Quiet, Waits, Starts
  <2>2. pc = "sleep"
    BY <1>1, <1>3, <2>1 DEF NodesInv, RoundPc, CallType
  <2> QED  BY <2>1, <2>2 DEF NodesInv, RoundPc
<1>5. s \in scripts[n][call.kind] /\ s.server \in all_send_ips /\ s.server \in Node
  <2>1. s \in scripts[n][call.kind]
    BY <1>4 DEF Ran
  <2>2. RoundPc
    BY <1>4 DEF RoundPc
  <2> QED  BY <1>3, <2>1, <2>2, RoundScripts
<1>6. \A m \in all_send_ips : service[m] \in {"serving", "done"}
  BY <1>4 DEF NodesInv
<1>7. s.port \in servers[s.server]
  BY <1>4, <1>5, <1>6 DEF PortsInv, Unrun
<1> DEFINE S == {Rd(n, x.server) : x \in scripts[n][call.kind] \ clients[n]}
<1>8. Rd(n, s.server) \in Reading /\ status[n] \in Seq(Reading) /\ Records(status[n], S)
      /\ service[n] = "done" /\ startFile[n] = None
  <2>1. calls \in 1 .. MaxCalls
    BY <1>3, <1>4 DEF CallType
  <2> QED  BY <1>3, <1>4, <1>5, <2>1 DEF Rd, Reading, NodeType, Ran
<1>9. Rd(n, s.server) \notin S
  <2> SUFFICES ASSUME NEW x \in scripts[n][call.kind] \ clients[n],
                      Rd(n, x.server) = Rd(n, s.server)
               PROVE  FALSE
    OBVIOUS
  <2>1. x.server = s.server
    BY DEF Rd
  <2>2. x = s
    BY <1>3, <1>5, <2>1, OneScript
  <2> QED  BY <2>2
<1>10. Records(Append(status[n], Rd(n, s.server)), S \union {Rd(n, s.server)})
  <2> HIDE DEF S
  <2> QED  BY <1>8, <1>9, RecordsAppend
<1>11. /\ clients'[n] = clients[n] \ {s}
       /\ status'[n] = Append(status[n], Rd(n, s.server))
       /\ \A m \in Node : m # n => clients'[m] = clients[m] /\ status'[m] = status[m]
       /\ servers'[s.server] = servers[s.server] \ {s.port}
       /\ \A m \in Node : m # s.server => servers'[m] = servers[m]
  BY <1>1, <1>3, <1>5, <1>7 DEF NodeType, Rd
<1>12. \A m : Told(m)' = Told(m)
  BY <1>2 DEF Told, Pending
<1>13. Ran(n)'
  <2>1. S \union {Rd(n, s.server)} =
          {Rd(n, x.server) : x \in scripts[n][call.kind] \ clients'[n]}
    BY <1>1, <1>5, <1>11
  <2>2. Records(status'[n], S \union {Rd(n, s.server)})
    <3> HIDE DEF S
    <3> QED  BY <1>10, <1>11
  <2>3. Records(status'[n], {Rd(n, x.server) : x \in scripts[n][call.kind] \ clients'[n]})
    BY <2>1, <2>2
  <2>4. UNCHANGED <<scripts[n][call.kind], calls, call>>
    BY <1>2
  <2> QED  BY <1>2, <1>4, <1>8, <1>11, <1>12, <2>3, <2>4 DEF Ran, Records, Distinct, Rd
<1>14. ASSUME NEW m \in Node, m # n
       PROVE  Quiet(m)' = Quiet(m) /\ Waits(m)' = Waits(m)
              /\ Starts(m)' = Starts(m) /\ Ran(m)' = Ran(m)
  BY <1>2, <1>11, <1>12, <1>14 DEF Quiet, Idle, Waits, Starts, Ran, Records, Distinct, Rd
<1>15. NodesInv'
  <2>1. \A m \in all_send_ips : Waits(m)' \/ Starts(m)' \/ Ran(m)'
    BY <1>3, <1>4, <1>13, <1>14 DEF NodesInv
  <2>2. \A m \in Node \ all_send_ips : Quiet(m)'
    BY <1>4, <1>14 DEF NodesInv, RoundPc
  <2> QED  BY <1>2, <1>4, <1>6, <2>1, <2>2 DEF NodesInv
<1>16. ASSUME NEW m \in all_send_ips, service[m] \in {"serving", "done"}, NEW o \in Node,
              NEW x \in scripts[o][call.kind], x.server = m, Unrun(o, x)'
       PROVE  x.port \in servers'[m]
  <2>1. Unrun(o, x) /\ ~(o = n /\ x = s)
    BY <1>2, <1>8, <1>11, <1>16 DEF Unrun
  <2>2. x.port \in servers[m]
    BY <1>4, <1>16, <2>1 DEF PortsInv
  <2>3. CASE m # s.server
    BY <1>3, <1>11, <2>2, <2>3
  <2>4. CASE m = s.server
    <3>1. x.port # s.port
      BY <1>3, <1>5, <1>16, <2>1, <2>4, ClientsApart DEF OneClientPerServer
    <3> QED  BY <1>11, <2>2, <2>4, <3>1
  <2> QED  BY <2>3, <2>4
<1>17. PortsInv'
  BY <1>2, <1>16 DEF PortsInv
<1> QED  BY <1>15, <1>17

\* What the round of a call rests on.
RoundInv == TInv /\ LoopInv /\ FilesInv /\ PlacedInv /\ NetInv /\ StaticInv /\ SentInv
            /\ NodesInv /\ PortsInv

(* Every step keeps it.                                                      *)
LEMMA RoundStep ==
  ASSUME Timely, Careful, SmallRegions, EnoughPorts, TInv', LoopInv', FilesInv'
  PROVE  RoundInv /\ [Next]_vars => RoundInv'
<1> SUFFICES ASSUME RoundInv, [Next]_vars PROVE RoundInv'
  OBVIOUS
<1>1. TInv /\ LoopInv /\ FilesInv /\ PlacedInv /\ NetInv /\ StaticInv /\ SentInv
      /\ NodesInv /\ PortsInv
  BY DEF RoundInv
<1>2. PlacedInv' /\ NetInv' /\ StaticInv' /\ SentInv'
  BY <1>1, PlacedStep, NetRoundStep, StaticStep, SentStep DEF Timely
<1>3. CallType'
  BY DEF TInv
<1>4. NodesInv' /\ PortsInv'
  <2>1. CASE Call \/ NextServer \/ PlaceScript \/ ForceStart \/ Return
    BY <1>1, <1>3, <2>1, NodesBetween
  <2>2. CASE SendStart \/ EndSleep
    BY <1>1, <2>2, NodesTold
  <2>3. CASE ParseError \/ WriteOutput
    BY <1>1, <2>3, NodesEnd
  <2>4. CASE StartLands
    BY <1>1, <2>4, NodesStartLands
  <2>5. CASE CleanupLands
    BY <1>1, <2>5, NodesCleanupLands
  <2>6. ASSUME NEW n \in Node, NodeStep(n) PROVE NodesInv' /\ PortsInv'
    BY <1>1, <2>6, NodesServe, NodesStartClients, NodesRunClient DEF NodeStep
  <2>7. CASE ReadStatus \/ FetchLands \/ RmLands \/ UNCHANGED vars
    <3>1. UNCHANGED <<pc, call, calls, all_send_ips, node>>
      BY <2>7 DEF ReadStatus, FetchLands, RmLands, controller, vars
    <3>2. ASSUME NEW m, m.op \in {"start", "cleanup"} PROVE m \in net' <=> m \in net
      BY <2>7, <3>2 DEF ReadStatus, FetchLands, RmLands, Pending, Command, vars
    <3> QED  BY <1>1, <3>1, <3>2, NodesSame
  <2> QED
    BY <2>1, <2>2, <2>3, <2>4, <2>5, <2>6, <2>7 DEF Next, Controller, Landing, Finished
<1> QED  BY <1>1, <1>2, <1>4 DEF RoundInv

-----------------------------------------------------------------------------
(* What a call collects and records.                                         *)

NoFail == \A c \in 1 .. calls : ret[c] = None

\* The nodes whose file has been read; an rm of the copy is on its way; the
\* readings of the clients of a node.
ReadNodes == {ip_filtered_stats[k] : k \in 1 .. statusProcessed}
Removed(n) == \E m \in Pending("rm") : m.to = n
Readings(n) == {Rd(n, s.server) : s \in scripts[n][call.kind]}

\* No copy of a status file outlives its round but for one about to be removed.  In
\* a round only the copies of nodes not read yet are to come, and what has been read
\* are the readings of the nodes read, each once.
LocalInv ==
  /\ pc \in {"idle", "pairs"} => /\ Pending("fetch") = {}
                                 /\ \A n \in Node : local[n] = << >> \/ Removed(n)
  /\ pc \in {"send", "sleep"} => \A n \in Node : local[n] = << >>
  /\ pc = "collect" =>
       /\ \A m \in Pending("fetch") :
            \E n \in Range(ip_filtered_stats) \ ReadNodes :
               m = Command("fetch", n, None) /\ local[n] = << >>
       /\ \A n \in Node : /\ local[n] \in {<< >>, status[n]}
                          /\ n \in ReadNodes => local[n] = << >> \/ Removed(n)
                          /\ n \notin Range(ip_filtered_stats) => local[n] = << >>
       /\ Records(resultList, UNION {Readings(n) : n \in ReadNodes})

(* A file that is read holds the readings of its node, and none read before. *)
LEMMA LocalRead ==
  ASSUME RoundInv, LocalInv, ReadStatus
  PROVE  LocalInv'
<1>0. PICK a : a = Awaited
  OBVIOUS
<1> DEFINE k == statusProcessed + 1
           S == UNION {Readings(n) : n \in ReadNodes}
<1>1. /\ pc = "collect" /\ statusProcessed < Len(ip_filtered_stats) /\ local[a] # << >>
      /\ resultList' = resultList \o local[a] /\ net' = net \union {Command("rm", a, None)}
      /\ statusProcessed' = k
      /\ UNCHANGED <<pc, call, calls, ip_filtered_stats, scripts, status, local>>
  BY <1>0 DEF ReadStatus, node
<1>2. TInv /\ NodesInv /\ CallType /\ StatsType /\ NodeType /\ OutputType
  BY DEF RoundInv, TInv
<1>3. /\ statusProcessed \in Nat /\ Len(ip_filtered_stats) \in Nat
      /\ DOMAIN ip_filtered_stats = 1 .. Len(ip_filtered_stats)
      /\ k \in DOMAIN ip_filtered_stats /\ a = ip_filtered_stats[k]
  BY <1>0, <1>1, <1>2, NodesFinite DEF StatsType, Awaited
<1>4. a \in Range(ip_filtered_stats) /\ a \in all_send_ips /\ a \in Node
  BY <1>2, <1>3 DEF StatsType, CallType, Range
<1>5. a \notin ReadNodes
  BY <1>2, <1>3 DEF ReadNodes, StatsType, Distinct
<1>6. ReadNodes' = ReadNodes \union {a}
  <2>1. \A i : i \in 1 .. k <=> i \in 1 .. statusProcessed \/ i = k
    BY <1>3
  <2> QED  BY <1>1, <1>3, <2>1 DEF ReadNodes
<1> HIDE DEF k
<1>7. local[a] = status[a] /\ local[a] \in Seq(Reading) /\ resultList \in Seq(Reading)
  BY <1>1, <1>2, <1>4 DEF LocalInv, NodeType, OutputType
<1>8. Records(local[a], Readings(a))
  <2>1. Ran(a) /\ clients[a] = {}
    BY <1>1, <1>2, <1>4 DEF NodesInv
  <2> QED  BY <1>7, <2>1 DEF Ran, Readings
<1>9. S \cap Readings(a) = {}
  <2> SUFFICES ASSUME NEW n \in ReadNodes, NEW r \in Readings(n), r \in Readings(a)
               PROVE  FALSE
    OBVIOUS
  <2>1. r.src = n /\ r.src = a
    BY DEF Readings, Rd
  <2> QED  BY <1>5, <2>1
<1>10. Records(resultList, S)
  BY <1>1 DEF LocalInv
<1>11. Records(resultList', S \union Readings(a))
  <2> HIDE DEF S
  <2> QED  BY <1>1, <1>7, <1>8, <1>9, <1>10, RecordsConcat
<1>12. \A n : Readings(n)' = Readings(n)
  BY <1>1 DEF Readings, Rd
<1>13. UNION {Readings(n)' : n \in ReadNodes'} = S \union Readings(a)
  BY <1>6, <1>12
<1>14. Records(resultList', UNION {Readings(n)' : n \in ReadNodes'})
  BY <1>11, <1>13
<1>15. \A m \in Pending("fetch")' : m \in Pending("fetch")
  BY <1>1 DEF Pending, Command
<1>16. \A n : Removed(n) => Removed(n)'
  BY <1>1 DEF Removed, Pending
<1>17. Removed(a)'
  <2>1. Command("rm", a, None) \in Pending("rm")'
    BY <1>1 DEF Pending, Command
  <2> QED  BY <2>1 DEF Removed, Command
<1>18. ASSUME NEW m \in Pending("fetch")'
       PROVE  \E n \in Range(ip_filtered_stats') \ ReadNodes' :
                 m = Command("fetch", n, None)' /\ local'[n] = << >>
  <2>1. PICK n \in Range(ip_filtered_stats) \ ReadNodes :
          m = Command("fetch", n, None) /\ local[n] = << >>
    BY <1>1, <1>15 DEF LocalInv
  <2>2. n # a
    BY <1>1, <2>1
  <2>3. m = Command("fetch", n, None)'
    BY <1>1, <2>1 DEF Command
  <2> QED  BY <1>1, <1>6, <2>1, <2>2, <2>3
<1>19. \A n \in Node : /\ local'[n] \in {<< >>, status'[n]}
                       /\ n \in ReadNodes' => local'[n] = << >> \/ Removed(n)'
                       /\ n \notin Range(ip_filtered_stats') => local'[n] = << >>
  BY <1>1, <1>6, <1>16, <1>17 DEF LocalInv
<1>20. pc' = "collect"
  BY <1>1
<1> HIDE DEF S
<1> QED  BY <1>14, <1>18, <1>19, <1>20 DEF LocalInv, Records, Distinct

(* As long as no call fails, the copies are those of the round.              *)
LEMMA LocalStep ==
  ASSUME Timely
  PROVE  RoundInv /\ LocalInv /\ ~ParseError /\ [Next]_vars => LocalInv'
<1> SUFFICES ASSUME RoundInv, LocalInv, ~ParseError, [Next]_vars PROVE LocalInv'
  OBVIOUS
<1>1. TInv /\ NetInv /\ NodesInv /\ CallType /\ StatsType /\ NodeType /\ NetType
  BY DEF RoundInv, TInv
<1>2. pc \in {"send", "sleep"} => Pending("fetch") = {} /\ Pending("rm") = {}
                                  /\ Pending("cleanup") = {}
  BY <1>1 DEF NetInv, Pending, Command
<1>3. CASE Call \/ NextServer \/ PlaceScript \/ ForceStart \/ Return
  <2>1. /\ UNCHANGED <<net, local>> /\ pc \in {"idle", "pairs"}
        /\ pc' \in {"idle", "pairs", "send"}
    BY <1>3 DEF Call, NextServer, PlaceScript, ForceStart, Return
  <2>2. \A n : Removed(n)' = Removed(n)
    BY <2>1 DEF Removed, Pending
  <2>3. CASE pc' # "send"
    BY <2>1, <2>2, <2>3 DEF LocalInv, Pending
  <2>4. CASE pc' = "send"
    <3>1. net = {}
      BY <1>1, <1>3, <2>4 DEF Call, NextServer, PlaceScript, ForceStart, Return, Timely, NetInv
    <3>2. \A n : ~Removed(n)
      BY <3>1 DEF Removed, Pending
    <3> QED  BY <2>1, <2>4, <3>2 DEF LocalInv
  <2> QED  BY <2>3, <2>4
<1>4. CASE SendStart
  BY <1>4 DEF SendStart, LocalInv
<1>5. CASE EndSleep
  <2>1. net = {} /\ pc = "sleep" /\ pc' = "collect" /\ statusProcessed' = 0
        /\ resultList' = << >> /\ UNCHANGED <<ip_filtered_stats, local, status, calls>>
    BY <1>1, <1>5 DEF EndSleep, Timely, Measured, Pending, NetInv, Command, node
  <2>2. net' = {Command("fetch", n, None) : n \in Range(ip_filtered_stats)}
    BY <1>5, <2>1 DEF EndSleep
  <2>3. ReadNodes' = {}
    BY <2>1 DEF ReadNodes
  <2>4. Records(resultList', UNION {Readings(n)' : n \in ReadNodes'})
    BY <2>1, <2>3 DEF Records, Distinct, Range
  <2>5. \A n \in Node : local'[n] = << >>
    BY <2>1 DEF LocalInv
  <2>6. ASSUME NEW m \in Pending("fetch")'
        PROVE  \E n \in Range(ip_filtered_stats') \ ReadNodes' :
                  m = Command("fetch", n, None)' /\ local'[n] = << >>
    <3>1. PICK n \in Range(ip_filtered_stats) : m = Command("fetch", n, None)
      BY <2>2 DEF Pending
    <3>2. n \in Node /\ m = Command("fetch", n, None)'
      BY <1>1, <2>1, <3>1 DEF StatsType, CallType, Command
    <3> QED  BY <2>1, <2>3, <2>5, <3>1, <3>2
  <2> QED  BY <2>1, <2>3, <2>4, <2>5, <2>6 DEF LocalInv, Records, Distinct
<1>6. CASE ReadStatus
  BY <1>6, LocalRead
<1>7. CASE WriteOutput
  <2>1. /\ pc = "collect" /\ pc' \in {"idle", "pairs"} /\ UNCHANGED local
        /\ statusProcessed = Len(ip_filtered_stats)
        /\ net' = net \union {Command("cleanup", n, cleanupArg) : n \in all_send_ips}
    BY <1>7 DEF WriteOutput
  <2>2. Range(ip_filtered_stats) \subseteq ReadNodes
    BY <1>1, <2>1 DEF Range, ReadNodes, StatsType
  <2>3. Pending("fetch")' = {}
    <3>1. Pending("fetch") = {}
      BY <2>1, <2>2 DEF LocalInv
    <3> QED  BY <2>1, <3>1 DEF Pending, Command
  <2>4. \A n : Removed(n) => Removed(n)'
    BY <2>1 DEF Removed, Pending
  <2>5. \A n \in Node : local'[n] = << >> \/ Removed(n)'
    BY <2>1, <2>2, <2>4 DEF LocalInv
  <2> QED  BY <2>1, <2>3, <2>5 DEF LocalInv
<1>8. CASE StartLands \/ FetchLands \/ RmLands
  <2>1. PICK m \in net : /\ m.op \in {"start", "fetch", "rm"} /\ net' = net \ {m}
                         /\ StartLands => m.op = "start" /\ UNCHANGED local
                         /\ FetchLands => m.op = "fetch" /\ local' =
                              [local EXCEPT ![m.to] = IF status[m.to] = << >> THEN @
                                                      ELSE status[m.to]]
                         /\ RmLands => m.op = "rm" /\ local' = [local EXCEPT ![m.to] = << >>]
    BY <1>8 DEF StartLands, FetchLands, RmLands, Pending
  <2>2. UNCHANGED <<pc, call, calls, ip_filtered_stats, statusProcessed, resultList, scripts, status>>
    BY <1>8 DEF StartLands, FetchLands, RmLands, controller, node
  <2>3. m.to \in Node
    BY <1>1, <2>1 DEF NetType, Commands
  <2>4. \A n \in Node : n # m.to => local'[n] = local[n]
    BY <1>1, <1>8, <2>1 DEF NodeType
  <2>5. \A x \in Pending("fetch")' : x \in Pending("fetch") /\ x # m
    BY <2>1 DEF Pending
  <2>6. \A n : Removed(n) => Removed(n)' \/ (n = m.to /\ m.op = "rm")
    BY <2>1 DEF Removed, Pending
  <2>7. ReadNodes' = ReadNodes /\ \A n : Readings(n)' = Readings(n)
        /\ Command("fetch", n, None)' = Command("fetch", n, None)
    BY <2>2 DEF ReadNodes, Readings, Rd, Command
  <2>8. m.op = "fetch" => pc = "collect" /\ \E n \in Range(ip_filtered_stats) \ ReadNodes :
                              m = Command("fetch", n, None) /\ local[n] = << >>
    <3> SUFFICES ASSUME m \in Pending("fetch")
                 PROVE  pc = "collect" /\ \E n \in Range(ip_filtered_stats) \ ReadNodes :
                              m = Command("fetch", n, None) /\ local[n] = << >>
      BY <2>1 DEF Pending
    <3>1. pc = "collect"
      BY <1>1, <1>2 DEF LocalInv, CallType
    <3> QED  BY <3>1 DEF LocalInv
  <2>9. m.op # "fetch" => local'[m.to] = IF m.op = "rm" THEN << >> ELSE local[m.to]
    BY <1>1, <1>8, <2>1, <2>3 DEF NodeType
  <2>10. m.op = "fetch" => m.to \in Range(ip_filtered_stats) \ ReadNodes
                           /\ local'[m.to] \in {<< >>, status[m.to]}
    BY <1>1, <1>8, <2>1, <2>3, <2>8 DEF NodeType, Command
  <2>11. CASE pc \in {"idle", "pairs"}
    <3>1. \A n \in Node : local'[n] = << >> \/ Removed(n)'
      BY <2>4, <2>6, <2>8, <2>9, <2>11 DEF LocalInv
    <3> QED  BY <2>2, <2>5, <2>11, <3>1 DEF LocalInv
  <2>12. CASE pc \in {"send", "sleep"}
    BY <2>2, <2>4, <2>8, <2>9, <2>12 DEF LocalInv
  <2>13. CASE pc = "collect"
    <3>1. ASSUME NEW x \in Pending("fetch")'
          PROVE  \E n \in Range(ip_filtered_stats') \ ReadNodes' :
                    x = Command("fetch", n, None)' /\ local'[n] = << >>
      <4>1. PICK n \in Range(ip_filtered_stats) \ ReadNodes :
              x = Command("fetch", n, None) /\ local[n] = << >>
        BY <2>5, <2>13 DEF LocalInv
      <4>2. n \in Node
        BY <1>1, <4>1 DEF StatsType, CallType
      <4>3. local'[n] = << >>
        <5>1. CASE n # m.to
          BY <2>4, <4>1, <4>2, <5>1
        <5>2. CASE n = m.to
          <6>1. m.op # "fetch"
            BY <2>5, <2>8, <4>1, <5>2 DEF Command
          <6> QED  BY <2>9, <4>1, <5>2, <6>1
        <5> QED  BY <5>1, <5>2
      <4> QED  BY <2>2, <2>7, <4>1, <4>3
    <3>2. \A n \in Node : local'[n] \in {<< >>, status'[n]}
      BY <2>1, <2>2, <2>4, <2>9, <2>10, <2>13 DEF LocalInv
    <3>3. \A n \in Node : n \in ReadNodes' => local'[n] = << >> \/ Removed(n)'
      BY <2>1, <2>4, <2>6, <2>7, <2>9, <2>10, <2>13 DEF LocalInv
    <3>4. \A n \in Node : n \notin Range(ip_filtered_stats') => local'[n] = << >>
      BY <2>1, <2>2, <2>4, <2>9, <2>10, <2>13 DEF LocalInv
    <3>5. Records(resultList', UNION {Readings(n)' : n \in ReadNodes'})
      <4>1. Records(resultList, UNION {Readings(n) : n \in ReadNodes})
        BY <2>13 DEF LocalInv
      <4> QED  BY <2>2, <2>7, <4>1 DEF Records, Distinct
    <3> QED  BY <2>2, <2>13, <3>1, <3>2, <3>3, <3>4, <3>5 DEF LocalInv, Records, Distinct
  <2> QED  BY <1>1, <2>11, <2>12, <2>13 DEF CallType
<1>9. CASE CleanupLands
  <2>1. /\ UNCHANGED <<pc, local>> /\ Pending("cleanup") # {}
        /\ Pending("fetch")' = Pending("fetch") /\ Pending("rm")' = Pending("rm")
    BY <1>9 DEF CleanupLands, controller, Pending
  <2>2. pc \in {"idle", "pairs"}
    BY <1>1, <1>2, <2>1 DEF NetInv, CallType
  <2> QED  BY <2>1, <2>2 DEF LocalInv, Removed
<1>10. CASE UNCHANGED <<controller, scripts, net, local>>
            /\ (pc = "collect" => UNCHANGED status)
  <2>1. \A n : Removed(n)' = Removed(n) /\ Readings(n)' = Readings(n)
               /\ Command("fetch", n, None)' = Command("fetch", n, None)
    BY <1>10 DEF Removed, Pending, Readings, Rd, controller, Command
  <2>2. ReadNodes' = ReadNodes /\ Pending("fetch")' = Pending("fetch")
        /\ UNCHANGED <<pc, ip_filtered_stats, resultList>>
    BY <1>10 DEF ReadNodes, Pending, controller
  <2>3. CASE pc # "collect"
    BY <1>10, <2>1, <2>2, <2>3 DEF LocalInv
  <2>4. CASE pc = "collect"
    BY <1>10, <2>1, <2>2, <2>4 DEF LocalInv, Records, Distinct
  <2> QED  BY <2>3, <2>4
<1>11. ASSUME NEW n \in Node, NodeStep(n) PROVE LocalInv'
  <2>1. CASE Serve(n) \/ StartClients(n)
    BY <1>10, <2>1 DEF Serve, StartClients
  <2>2. CASE RunClient(n)
    <3>1. clients[n] # {}
      BY <2>2 DEF RunClient
    <3>2. pc # "collect"
      BY <1>1, <3>1 DEF NodesInv, Quiet, Idle, RoundPc
    <3> QED  BY <1>10, <2>2, <3>2 DEF RunClient
  <2> QED  BY <1>11, <2>1, <2>2 DEF NodeStep
<1>12. CASE UNCHANGED vars
  BY <1>10, <1>12 DEF vars, node
<1> QED
  BY <1>3, <1>4, <1>5, <1>6, <1>7, <1>8, <1>9, <1>11, <1>12
     DEF Next, Controller, Landing, Finished

\* The readings of pairs of positions, and the pairs a call has recorded: those done
\* and not being measured for static measurements, all or none for the others.
Rds(Q) == {Rd(call.sel[q[2]], call.sel[q[1]]) : q \in Q}
Written ==
  IF call.kind = "static" THEN Done \ (IF RoundPc THEN Round ELSE {})
  ELSE IF pc = "idle" \/ (pc = "pairs" /\ todo = {}) THEN Eligible(call.sel) ELSE {}

\* The output holds their readings, each once, and a static call ends when no pair
\* is left; later calls have no output yet.
WrittenInv ==
  /\ calls > 0 => Records(output[calls], Rds(Written))
  /\ pc = "idle" /\ call.kind = "static" /\ calls > 0 => todo = {}
EmptyInv == \A c \in 1 .. MaxCalls : c > calls => output[c] = << >>

(* Different pairs have different readings.                                  *)
LEMMA ReadingsDiffer ==
  ASSUME CallType, NEW p \in Eligible(call.sel), NEW q \in Eligible(call.sel),
         Rd(call.sel[p[2]], call.sel[p[1]]) = Rd(call.sel[q[2]], call.sel[q[1]])
  PROVE  p = q
<1>1. call.sel \in Sels
  BY CallIs
<1>2. call.sel[p[2]] = call.sel[q[2]] /\ call.sel[p[1]] = call.sel[q[1]]
  BY DEF Rd
<1>3. p[1] = q[1] /\ p[2] = q[2] /\ p = <<p[1], p[2]>> /\ q = <<q[1], q[2]>>
  BY <1>1, <1>2, Selected DEF Distinct
<1> QED  BY <1>3

(* When all pairs have their script the gate opens.                          *)
LEMMA LastPair ==
  ASSUME SmallRegions, TInv, LoopInv, LoopInv', PlacedInv, PlaceScript, todo' = {}
  PROVE  pc' = "send"
<1>1. /\ pc = "pairs" /\ UNCHANGED <<regionOf, call>>
      /\ globalCountPortIncrs' = globalCountPortIncrs + 1
      /\ pc' = IF GateOpens(call, globalCountPortIncrs + 1) THEN "send" ELSE "pairs"
  BY DEF PlaceScript
<1>2. regionOf \in Layouts /\ call.sel \in Sels /\ Covering(call.sel)
  BY <1>1, CallIs DEF TInv, CallType, PlacedInv
<1>3. Done' = Eligible(call.sel)
  BY <1>1 DEF Done, Eligible
<1>4. pc' # "idle"
  BY <1>1
<1>5. globalCountPortIncrs + 1 = Cardinality(Eligible(call.sel))
  BY <1>1, <1>3, <1>4 DEF LoopInv
<1>6. globalCountPortIncrs + 1 = Len(call.sel) * Len(call.sel) - sumOfDuplicates(call.sel)
  BY <1>2, <1>5, PairsCounted
<1> QED  BY <1>1, <1>6 DEF GateOpens

(* What is recorded stays so while no call begins, no pair gets its turn and *)
(* no round begins or ends.                                                  *)
LEMMA WrittenSame ==
  ASSUME WrittenInv, UNCHANGED <<regionOf, pc, call, calls, todo, output>>,
         RoundPc => UNCHANGED scripts
  PROVE  WrittenInv'
<1>1. Done' = Done /\ RoundPc' = RoundPc /\ \A Q : Rds(Q)' = Rds(Q)
  BY DEF Done, RoundPc, Rds, Rd, Eligible
<1>2. RoundPc => Round' = Round
  BY DEF Round, Eligible
<1>3. Written' = Written
  BY <1>1, <1>2 DEF Written, Eligible
<1> QED  BY <1>1, <1>3 DEF WrittenInv, Records, Distinct

(* The pairs of a round that ends are recorded, and were not before.          *)
LEMMA RoundNew ==
  ASSUME Careful, RoundInv, WriteOutput
  PROVE  /\ Written \cap Round = {} /\ Written \union Round = Written'
         /\ Written \subseteq Eligible(call.sel) /\ Round \subseteq Eligible(call.sel)
<1>1. /\ pc = "collect" /\ pc' = IF call.mode = 3 THEN "idle" ELSE "pairs"
      /\ UNCHANGED <<regionOf, call, todo>>
  BY DEF WriteOutput
<1>2. RoundPc /\ ~RoundPc'
  BY <1>1 DEF RoundPc
<1>3. /\ call.kind = "static" => \E p \in Done : Round = {p}
      /\ call.kind # "static" => Round = Eligible(call.sel)
  BY <1>2, RoundScripts DEF RoundInv
<1>4. Round \subseteq Eligible(call.sel)
  BY DEF Round
<1>5. CASE call.kind = "static"
  <2>1. Written = Done \ Round /\ Written' = Done /\ Round \subseteq Done
    BY <1>1, <1>2, <1>3, <1>5 DEF Written, Done, Eligible
  <2> QED  BY <1>4, <2>1 DEF Done
<1>6. CASE call.kind # "static"
  <2>1. Written = {} /\ Round = Eligible(call.sel)
    BY <1>1, <1>3, <1>6 DEF Written
  <2>2. call.mode # 3 => todo = {}
    BY <1>1, <1>6 DEF RoundInv, PlacedInv
  <2>3. Written' = Eligible(call.sel)
    BY <1>1, <1>6, <2>2 DEF Written, Eligible
  <2> QED  BY <2>1, <2>3
<1> QED  BY <1>5, <1>6

(* The output grows by the readings of the round.                            *)
LEMMA WrittenOutput ==
  ASSUME Careful, RoundInv, LocalInv, WrittenInv, WriteOutput
  PROVE  WrittenInv'
<1>1. /\ pc = "collect" /\ statusProcessed = Len(ip_filtered_stats)
      /\ output' = [output EXCEPT ![calls] = @ \o resultList]
      /\ pc' = IF call.mode = 3 THEN "idle" ELSE "pairs"
      /\ UNCHANGED <<regionOf, call, calls, todo, scripts>>
  BY DEF WriteOutput, node
<1>2. /\ TInv /\ CallType /\ StatsType /\ OutputType /\ NodeType /\ call.sel \in Sels /\ RoundPc
      /\ ~RoundPc'
  BY <1>1, CallIs DEF RoundInv, TInv, RoundPc
<1>3. calls \in 1 .. MaxCalls /\ calls > 0
  BY <1>1, <1>2, MaxCallsAssumption DEF CallType
<1>4. ReadNodes = Range(ip_filtered_stats)
  BY <1>1, <1>2 DEF StatsType, ReadNodes, Range
<1>5. /\ \A n \in Node : \A s \in scripts[n][call.kind] :
            /\ n \in Range(ip_filtered_stats)
            /\ \E q \in Round : n = call.sel[q[2]] /\ s.server = call.sel[q[1]]
      /\ call.kind = "static" => \E p \in Done : Round = {p}
      /\ call.kind # "static" => Round = Eligible(call.sel)
  BY <1>2, RoundScripts DEF RoundInv
<1>6. UNION {Readings(n) : n \in ReadNodes} = Rds(Round)
  <2>1. ASSUME NEW n \in ReadNodes, NEW r \in Readings(n) PROVE r \in Rds(Round)
    <3>1. PICK s \in scripts[n][call.kind] : r = Rd(n, s.server)
      BY DEF Readings
    <3>2. n \in Node
      BY <1>2, <1>4 DEF StatsType, CallType
    <3> QED  BY <1>5, <3>1, <3>2 DEF Rds
  <2>2. ASSUME NEW q \in Round
        PROVE  \E n \in ReadNodes : Rd(call.sel[q[2]], call.sel[q[1]]) \in Readings(n)
    <3>1. PICK s \in scripts[call.sel[q[2]]][call.kind] : s.server = call.sel[q[1]]
      BY DEF Round
    <3>2. call.sel[q[2]] \in Node
      BY <1>2, Selected DEF Round
    <3>3. call.sel[q[2]] \in ReadNodes
      BY <1>4, <1>5, <3>1, <3>2
    <3>4. Rd(call.sel[q[2]], s.server) \in Readings(call.sel[q[2]])
      BY <3>1 DEF Readings
    <3> QED  BY <3>1, <3>3, <3>4
  <2> QED  BY <2>1, <2>2 DEF Rds
<1>7. Records(output[calls], Rds(Written)) /\ Records(resultList, Rds(Round))
  BY <1>1, <1>3, <1>6 DEF WrittenInv, LocalInv
<1>8. Written \cap Round = {} /\ Written \union Round = Written'
      /\ Written \subseteq Eligible(call.sel) /\ Round \subseteq Eligible(call.sel)
  BY RoundNew
<1>9. Rds(Written) \cap Rds(Round) = {}
  <2> SUFFICES ASSUME NEW p \in Written, NEW q \in Round,
                      Rd(call.sel[p[2]], call.sel[p[1]]) = Rd(call.sel[q[2]], call.sel[q[1]])
               PROVE  FALSE
    BY DEF Rds
  <2>1. p = q
    BY <1>2, <1>8, ReadingsDiffer
  <2> QED  BY <1>8, <2>1
<1>10. Rds(Written) \union Rds(Round) = Rds(Written')
  BY <1>8 DEF Rds
<1>11. output[calls] \in Seq(Reading) /\ resultList \in Seq(Reading)
       /\ output'[calls] = output[calls] \o resultList
  BY <1>1, <1>2, <1>3 DEF OutputType
<1>12. Records(output'[calls], Rds(Written'))
  BY <1>7, <1>9, <1>10, <1>11, RecordsConcat
<1>13. Rds(Written)' = Rds(Written')
  BY <1>1 DEF Rds, Rd
<1>14. pc' = "idle" => call.kind # "static"
  BY <1>1, <1>2 DEF RoundInv, StaticInv
<1> QED  BY <1>1, <1>12, <1>13, <1>14 DEF WrittenInv, Records, Distinct

(* As long as no call fails, the output is that of the pairs recorded.       *)
LEMMA WrittenStep ==
  ASSUME Careful, SmallRegions, RoundInv', EmptyInv
  PROVE  RoundInv /\ LocalInv /\ WrittenInv /\ ~ParseError /\ [Next]_vars => WrittenInv'
<1> SUFFICES ASSUME RoundInv, LocalInv, WrittenInv, ~ParseError, [Next]_vars
             PROVE  WrittenInv'
  OBVIOUS
<1>1. TInv /\ LoopInv /\ CallType /\ NodeType /\ call.sel \in Sels /\ call.kind \in Kind
      /\ calls \in Nat
  BY CallIs, MaxCallsAssumption DEF RoundInv, TInv, CallType
<1>2. CASE Call
  <2>1. /\ calls' = calls + 1 /\ pc' = "pairs" /\ todo' = Eligible(call.sel)'
        /\ calls < MaxCalls /\ output' = output
    BY <1>2 DEF Call, Eligible
  <2>2. Written' = {}
    BY <2>1 DEF Written, Done
  <2>3. Rds(Written)' = {}
    BY <2>2 DEF Rds
  <2>4. output'[calls'] = << >>
    BY <1>1, <2>1, MaxCallsAssumption DEF EmptyInv
  <2>5. Records(<< >>, {})
    BY DEF Records, Distinct, Range
  <2> QED  BY <2>1, <2>3, <2>4, <2>5 DEF WrittenInv, Records, Distinct
<1>3. CASE NextServer \/ StartLands \/ FetchLands \/ RmLands \/ UNCHANGED vars
  BY <1>3, WrittenSame
     DEF NextServer, StartLands, FetchLands, RmLands, vars, controller, node
<1>4. CASE PlaceScript /\ call.kind = "static"
  <2>1. PICK p \in Here :
          /\ todo' = todo \ {p} /\ pc' = "send"
          /\ scripts' = [scripts EXCEPT ![call.sel[p[2]]][call.kind] =
                            {s \in @ : s.name # globalCountPortIncrs + 1}
                            \union {Script(globalCountPortIncrs + 1, call.sel[p[1]],
                                           countPortIncrs)}]
    BY <1>4 DEF PlaceScript, GateOpens
  <2>2. pc = "pairs" /\ UNCHANGED <<regionOf, call, calls, output>>
    BY <1>4 DEF PlaceScript
  <2>3. p \in todo /\ p \in Eligible(call.sel) /\ call.sel[p[2]] \in Node
        /\ todo \subseteq Eligible(call.sel)
    BY <1>1, CallIs, Selected DEF CallType
  <2>4. Script(globalCountPortIncrs + 1, call.sel[p[1]], countPortIncrs)
          \in scripts'[call.sel[p[2]]][call.kind]
    BY <1>1, <2>1, <2>3 DEF NodeType
  <2>5. p \in Round'
    BY <2>2, <2>3, <2>4 DEF Round, Eligible, Script
  <2>6. PICK q \in Done' : OnePair(q)'
    <3>1. RoundPc'
      BY <2>1 DEF RoundPc
    <3> QED  BY <1>4, <2>2, <3>1 DEF RoundInv, StaticInv
  <2>7. Round' = {p}
    <3>1. ASSUME NEW r \in Round' PROVE r = q
      <4>1. r \in Eligible(call.sel) /\ q \in Eligible(call.sel) /\ call.sel[r[2]] \in Node
        BY <1>1, <2>2, Selected DEF Round, Done, Eligible
      <4>2. PICK s \in scripts'[call.sel[r[2]]]["static"] : s.server = call.sel[r[1]]
        BY <1>4, <2>2 DEF Round
      <4>3. s.server \in {x.server : x \in scripts'[call.sel[r[2]]]["static"]}
        OBVIOUS
      <4>4. {x.server : x \in scripts'[call.sel[r[2]]]["static"]} =
              IF call.sel[r[2]] = call.sel[q[2]] THEN {call.sel[q[1]]} ELSE {}
        BY <2>2, <2>6, <4>1 DEF OnePair
      <4>5. call.sel[r[2]] = call.sel[q[2]] /\ call.sel[r[1]] = call.sel[q[1]]
        BY <4>2, <4>3, <4>4
      <4>6. r[1] = q[1] /\ r[2] = q[2] /\ r = <<r[1], r[2]>> /\ q = <<q[1], q[2]>>
        BY <1>1, <4>1, <4>5, Selected DEF Distinct
      <4> QED  BY <4>6
    <3> QED  BY <2>5, <3>1
  <2>8. Done' = Done \union {p} /\ p \notin Done
    BY <2>1, <2>2, <2>3 DEF Done, Eligible
  <2>9. Written = Done /\ Written' = Done
    BY <1>4, <2>1, <2>2, <2>7, <2>8 DEF Written, RoundPc
  <2>10. \A Q : Rds(Q)' = Rds(Q)
    BY <2>2 DEF Rds, Rd
  <2> QED  BY <2>1, <2>2, <2>9, <2>10 DEF WrittenInv, Records, Distinct
<1>5. CASE PlaceScript /\ call.kind # "static"
  <2>1. pc = "pairs" /\ pc' \in {"pairs", "send"} /\ todo # {}
        /\ UNCHANGED <<call, calls, output>>
    BY <1>5 DEF PlaceScript, Here
  <2>2. todo' = {} => pc' = "send"
    BY <1>1, <1>5, LastPair DEF RoundInv
  <2>3. Written = {} /\ Written' = {}
    BY <1>5, <2>1, <2>2 DEF Written
  <2>4. Rds(Written) = {} /\ Rds(Written)' = {}
    BY <2>3 DEF Rds
  <2> QED  BY <2>1, <2>4 DEF WrittenInv, Records, Distinct
<1>6. CASE ForceStart
  <2>1. pc = "pairs" /\ pc' = "send" /\ todo # {} /\ call.mode = 3
        /\ UNCHANGED <<call, calls, output>>
    BY <1>6 DEF ForceStart, Here
  <2>2. call.kind # "static"
    BY <2>1 DEF RoundInv, StaticInv
  <2>3. Written = {} /\ Written' = {}
    BY <2>1, <2>2 DEF Written
  <2>4. Rds(Written) = {} /\ Rds(Written)' = {}
    BY <2>3 DEF Rds
  <2> QED  BY <2>1, <2>4 DEF WrittenInv, Records, Distinct
<1>7. CASE SendStart \/ EndSleep \/ ReadStatus
  <2>1. /\ UNCHANGED <<regionOf, call, calls, todo, output, scripts>>
        /\ RoundPc /\ RoundPc' /\ pc # "pairs" /\ pc # "idle" /\ pc' # "pairs" /\ pc' # "idle"
    BY <1>7 DEF SendStart, EndSleep, ReadStatus, RoundPc, node
  <2>2. Done' = Done /\ Round' = Round /\ \A Q : Rds(Q)' = Rds(Q)
    BY <2>1 DEF Done, Round, Eligible, Rds, Rd
  <2>3. Written' = Written
    BY <2>1, <2>2 DEF Written
  <2> QED  BY <2>1, <2>2, <2>3 DEF WrittenInv, Records, Distinct
<1>8. CASE WriteOutput
  BY <1>8, WrittenOutput
<1>9. CASE Return
  <2>1. /\ pc = "pairs" /\ pc' = "idle" /\ Here = {} /\ cur = Len(call.sel)
        /\ UNCHANGED <<regionOf, call, calls, todo, output>>
    BY <1>9 DEF Return
  <2>2. todo = {}
    <3>1. ASSUME NEW p \in todo PROVE FALSE
      <4>1. cur <= p[1] /\ p[1] \in 1 .. Len(call.sel) /\ Len(call.sel) \in Nat
        BY <1>1, <2>1, Selected DEF LoopInv, CallType
      <4>2. p \in Here
        BY <2>1, <4>1 DEF Here
      <4> QED  BY <2>1, <4>2
    <3> QED  BY <3>1
  <2>3. Written' = Written /\ \A Q : Rds(Q)' = Rds(Q)
    BY <2>1, <2>2 DEF Written, Done, RoundPc, Eligible, Rds, Rd
  <2> QED  BY <2>1, <2>2, <2>3 DEF WrittenInv, Records, Distinct
<1>10. CASE CleanupLands
  <2>1. UNCHANGED <<regionOf, controller>> /\ Pending("cleanup") # {}
    BY <1>10 DEF CleanupLands
  <2>2. ~RoundPc
    BY <2>1 DEF RoundInv, NetInv, RoundPc, Pending, Command
  <2> QED  BY <2>1, <2>2, WrittenSame DEF controller
<1>11. ASSUME NEW n \in Node, NodeStep(n) PROVE WrittenInv'
  BY <1>11, WrittenSame DEF NodeStep, Serve, StartClients, RunClient, controller
<1> QED
  BY <1>2, <1>3, <1>4, <1>5, <1>6, <1>7, <1>8, <1>9, <1>10, <1>11
     DEF Next, Controller, Landing, Finished

(* The calls to come have no output.                                         *)
LEMMA EmptyStep == TInv /\ EmptyInv /\ [Next]_vars => EmptyInv'
<1> SUFFICES ASSUME TInv, EmptyInv, [Next]_vars, NEW c \in 1 .. MaxCalls, c > calls'
             PROVE  output'[c] = << >>
  BY DEF EmptyInv
<1>1. calls \in Nat /\ MaxCalls \in Nat /\ output \in [1 .. MaxCalls -> Seq(Reading)]
  BY MaxCallsAssumption DEF TInv, CallType, OutputType
<1>2. CASE Call
  BY <1>1, <1>2 DEF Call, EmptyInv
<1>3. CASE WriteOutput
  BY <1>1, <1>3 DEF WriteOutput, EmptyInv
<1>4. CASE UNCHANGED <<calls, output>>
  BY <1>1, <1>4 DEF EmptyInv
<1> QED
  BY <1>2, <1>3, <1>4
     DEF Next, Controller, ParseError, Landing, NodeStep, Finished, NextServer, PlaceScript,
         ForceStart, SendStart, EndSleep, ReadStatus, Return, StartLands, FetchLands,
         RmLands, CleanupLands, Serve, StartClients, RunClient, vars, controller

(* A call that fails leaves a return value behind.                           *)
LEMMA NoFailStep ==
  ASSUME TInv, [Next]_vars, NoFail'
  PROVE  NoFail /\ ~ParseError
<1>1. /\ calls \in Nat
      /\ pc # "idle" => calls \in 1 .. MaxCalls
      /\ ret \in [1 .. MaxCalls -> {None, "error"}]
  BY MaxCallsAssumption DEF TInv, CallType, OutputType
<1>2. CASE ParseError
  <2>1. calls' = calls /\ calls \in 1 .. MaxCalls /\ ret'[calls] = "error"
    BY <1>1, <1>2 DEF ParseError
  <2>2. calls \in 1 .. calls'
    BY <1>1, <2>1
  <2> QED  BY <2>1, <2>2 DEF NoFail, None
<1>3. CASE Call
  BY <1>1, <1>3 DEF Call, NoFail, ParseError
<1>4. CASE UNCHANGED <<calls, ret>> /\ ~ParseError
  BY <1>4 DEF NoFail
<1> QED
  BY <1>2, <1>3, <1>4
     DEF Next, Controller, Landing, NodeStep, Finished, NextServer, PlaceScript,
         ForceStart, SendStart, EndSleep, ReadStatus, WriteOutput, Return, StartLands,
         FetchLands, RmLands, CleanupLands, Serve, StartClients, RunClient, vars, controller

(* Initially nothing is collected, and the nodes are quiet.                  *)
LEMMA RoundInit == Init => RoundInv /\ LocalInv /\ WrittenInv /\ EmptyInv
<1> SUFFICES ASSUME Init PROVE RoundInv /\ LocalInv /\ WrittenInv /\ EmptyInv
  OBVIOUS
<1>1. TInv /\ LoopInv /\ FilesInv
  BY InitTyped, FilesInit
<1>2. pc = "idle" /\ net = {} /\ calls = 0 /\ "static" \in Kind
  BY DEF Init, Kind
<1>3. PlacedInv /\ NetInv /\ SentInv /\ PortsInv
  BY <1>2 DEF PlacedInv, NetInv, SentInv, PortsInv, Pending
<1>4. StaticInv
  <2>1. \A n \in Node : scripts[n]["static"] = {}
    BY <1>2 DEF Init
  <2> QED  BY <1>2, <2>1 DEF StaticInv, RoundPc
<1>5. NodesInv
  <2>1. \A n \in Node : Quiet(n)
    BY DEF Init, Quiet, Idle
  <2> QED  BY <1>2, <2>1 DEF NodesInv, RoundPc, Quiet
<1>6. LocalInv
  <2>1. \A n \in Node : local[n] = << >>
    BY DEF Init
  <2> QED  BY <1>2, <2>1 DEF LocalInv, Pending
<1>7. WrittenInv
  BY <1>2 DEF WrittenInv
<1>8. EmptyInv
  BY DEF Init, EmptyInv
<1> QED  BY <1>1, <1>3, <1>4, <1>5, <1>6, <1>7, <1>8 DEF RoundInv

\* What the calls rest on.
CallInv == RoundInv /\ EmptyInv /\ (NoFail => LocalInv /\ WrittenInv)

(* It holds if the bets of runMonitor are won and its callers careful.        *)
THEOREM RoundHolds ==
  ASSUME Timely, Careful, SmallRegions, EnoughPorts
  PROVE  Spec => []CallInv
<1>1. Init => CallInv
  BY RoundInit DEF CallInv
<1>2. CallInv /\ (TInv /\ LoopInv /\ FilesInv)' /\ [Next]_vars => CallInv'
  <2> SUFFICES ASSUME CallInv, (TInv /\ LoopInv /\ FilesInv)', [Next]_vars PROVE CallInv'
    OBVIOUS
  <2>1. TInv /\ RoundInv /\ EmptyInv
    BY DEF CallInv, RoundInv
  <2>2. RoundInv'
    BY <2>1, RoundStep
  <2>3. EmptyInv'
    BY <2>1, EmptyStep
  <2>4. ASSUME NoFail' PROVE LocalInv' /\ WrittenInv'
    <3>1. LocalInv /\ WrittenInv /\ ~ParseError
      BY <2>1, <2>4, NoFailStep DEF CallInv
    <3> QED  BY <2>1, <2>2, <3>1, LocalStep, WrittenStep
  <2> QED  BY <2>2, <2>3, <2>4 DEF CallInv
<1>3. "cleared" \in Heeded
  BY DEF Careful
<1> QED  BY <1>1, <1>2, <1>3, Filed, PTL DEF Spec

\* A call that has returned recorded one reading per pair, each measured during that
\* call, as long as none has failed: provided that the bets of runMonitor are won,
\* callers see to the files that are on the nodes, no region has more than three
\* nodes, and test_service.sh starts a server for every other node.
THEOREM RecordsRoundHolds ==
  ASSUME Timely, Careful, SmallRegions, EnoughPorts
  PROVE  Spec => []RecordsRound
<1>1. CallInv => RecordsRound
  <2> SUFFICES ASSUME CallInv, pc = "idle", calls > 0, NoFail
               PROVE  /\ Range(output[calls]) = Expected(call, calls)
                      /\ Len(output[calls]) = Cardinality(Expected(call, calls))
    BY DEF RecordsRound, NoFail
  <2>1. Written = Eligible(call.sel) /\ Records(output[calls], Rds(Written))
    BY DEF CallInv, WrittenInv, Written, Done, RoundPc
  <2>2. Rds(Written) = Expected(call, calls)
    BY <2>1 DEF Rds, Rd, Expected
  <2>3. output[calls] \in Seq(Reading)
    BY DEF CallInv, RoundInv, TInv, CallType, OutputType
  <2>4. Len(output[calls]) = Cardinality(Expected(call, calls))
    BY <2>1, <2>2, <2>3, RecordsCount
  <2> QED  BY <2>1, <2>2, <2>4 DEF Records
<1> QED  BY <1>1, RoundHolds, PTL

-----------------------------------------------------------------------------
(* The calls are those of MeasurementCalls.                                  *)

\* The nodes that are started are the call's, and a round has a pair to measure.
SelInv ==
  pc # "idle" => /\ all_send_ips \subseteq Range(call.sel)
                 /\ RoundPc => Eligible(call.sel) # {}

LEMMA SelStep == TInv /\ SelInv /\ [Next]_vars => SelInv'
<1> SUFFICES ASSUME TInv, SelInv, [Next]_vars PROVE SelInv'
  OBVIOUS
<1>1. CallType /\ call.sel \in Sels
  BY CallIs DEF TInv
<1>2. \A k \in 1 .. Len(call.sel) : call.sel[k] \in Range(call.sel)
  BY <1>1, Selected DEF Range
<1>3. \A p \in Here : /\ p \in Eligible(call.sel)
                      /\ p[1] \in 1 .. Len(call.sel) /\ p[2] \in 1 .. Len(call.sel)
  BY <1>1, CallIs, Selected
<1>4. CASE Call
  BY <1>4 DEF Call, SelInv, RoundPc
<1>5. CASE NextServer
  <2>1. cur + 1 \in 1 .. Len(call.sel)
    BY <1>1, <1>5, Selected DEF NextServer, CallType
  <2> QED  BY <1>2, <1>5, <2>1 DEF NextServer, SelInv, RoundPc
<1>6. CASE PlaceScript
  <2>1. PICK p \in Here : \/ all_send_ips' = {call.sel[p[1]], call.sel[p[2]]}
                          \/ all_send_ips' = all_send_ips \union {call.sel[p[2]]}
    BY <1>6 DEF PlaceScript
  <2>2. UNCHANGED <<regionOf, call>> /\ pc = "pairs"
    BY <1>6 DEF PlaceScript
  <2>3. p \in Eligible(call.sel)'
    BY <1>3, <2>2 DEF Eligible
  <2> QED  BY <1>2, <1>3, <2>1, <2>2, <2>3 DEF SelInv
<1>7. CASE ForceStart
  <2>1. PICK p : p \in Here
    BY <1>7 DEF ForceStart
  <2>2. UNCHANGED <<regionOf, call>> /\ all_send_ips' = Range(call.sel)
    BY <1>7 DEF ForceStart
  <2>3. p \in Eligible(call.sel)'
    BY <1>3, <2>1, <2>2 DEF Eligible
  <2> QED  BY <2>2, <2>3 DEF SelInv
<1>8. CASE /\ UNCHANGED <<regionOf, call, all_send_ips>>
           /\ pc' # "idle" => pc # "idle"
           /\ RoundPc' => RoundPc
  BY <1>8 DEF SelInv, Eligible
<1> QED
  BY <1>4, <1>5, <1>6, <1>7, <1>8
     DEF Next, Controller, ParseError, Landing, NodeStep, Finished, SendStart, EndSleep,
         ReadStatus, WriteOutput, Return, StartLands, FetchLands, RmLands, CleanupLands,
         Serve, StartClients, RunClient, vars, controller, RoundPc

\* The pairs of nodes of the round.
Measuring == {<<call.sel[q[1]], call.sel[q[2]]>> : q \in Round}

(* A round measures one pair of a static call and all pairs of another, and  *)
(* starts the nodes of these pairs.                                          *)
LEMMA RoundNodes ==
  ASSUME Careful, RoundInv, SelInv, RoundPc
  PROVE  /\ all_send_ips = {t[1] : t \in Measuring} \union {t[2] : t \in Measuring}
         /\ Measuring # {} /\ Measuring \subseteq Pairs /\ Measuring \in Calls!Rounds
<1>1. /\ TInv /\ CallType /\ call.sel \in Sels /\ pc # "idle" /\ pc # "pairs"
      /\ regionOf \in Layouts
  BY CallIs DEF RoundInv, TInv, CallType, RoundPc
<1>2. /\ call.kind = "static" => \E p \in Done : Round = {p}
      /\ call.kind # "static" => Round = Eligible(call.sel)
  BY RoundScripts DEF RoundInv
<1>3. Measuring \subseteq Pairs
  <2>1. Round \subseteq Eligible(call.sel)
    BY DEF Round
  <2> QED  BY <2>1 DEF Measuring, Pairs
<1>4. {t[1] : t \in Measuring} \union {t[2] : t \in Measuring} = UNION {Both(q) : q \in Round}
  <2> DEFINE M == {t[1] : t \in Measuring} \union {t[2] : t \in Measuring}
  <2>1. ASSUME NEW q \in Round PROVE Both(q) \subseteq M
    <3>1. PICK t \in Measuring : t = <<call.sel[q[1]], call.sel[q[2]]>>
      BY DEF Measuring
    <3>2. t[1] = call.sel[q[1]] /\ t[2] = call.sel[q[2]] /\ t[1] \in M /\ t[2] \in M
      BY <3>1
    <3> QED  BY <3>2 DEF Both
  <2>2. \A t \in Measuring : \E q \in Round : t[1] \in Both(q) /\ t[2] \in Both(q)
    BY DEF Measuring, Both
  <2>3. \A n \in M : \E q \in Round : n \in Both(q)
    BY <2>2
  <2> QED  BY <2>1, <2>3
<1>5. CASE call.kind = "static"
  <2>1. PICK p \in Done : OnePair(p)
    BY <1>5 DEF RoundInv, StaticInv
  <2>2. p \in Eligible(call.sel) /\ call.sel[p[2]] \in Node
    BY <1>1, <2>1, Selected DEF Done
  <2>3. call.sel[p[1]] \in {s.server : s \in scripts[call.sel[p[2]]]["static"]}
    BY <2>1, <2>2 DEF OnePair
  <2>4. p \in Round
    BY <1>5, <2>2, <2>3 DEF Round
  <2>5. Round = {p}
    BY <1>2, <1>5, <2>4
  <2>6. Measuring = {<<call.sel[p[1]], call.sel[p[2]]>>}
    BY <2>5 DEF Measuring
  <2>7. all_send_ips = UNION {Both(q) : q \in Round}
    BY <2>1, <2>5 DEF OnePair
  <2>8. Measuring \in Calls!Rounds
    BY <1>3, <1>5, <2>6 DEF Calls!Rounds
  <2> QED  BY <1>3, <1>4, <2>6, <2>7, <2>8
<1>6. CASE call.kind # "static"
  <2>1. Round = Eligible(call.sel) /\ Eligible(call.sel) # {}
    BY <1>1, <1>2, <1>6 DEF SelInv
  <2>2. Measuring = Pairs /\ Measuring # {}
    BY <2>1 DEF Measuring, Pairs
  <2>3. ASSUME NEW q \in Eligible(call.sel) PROVE Both(q) \subseteq all_send_ips
    <3>1. CASE call.mode # 3
      BY <1>1, <1>6, <3>1 DEF RoundInv, SentInv, PlacedInv, Done
    <3>2. CASE call.mode = 3
      <4>1. all_send_ips = Range(call.sel)
        BY <1>1, <1>6, <3>2 DEF RoundInv, SentInv
      <4>2. call.sel[q[1]] \in Range(call.sel) /\ call.sel[q[2]] \in Range(call.sel)
        BY <1>1, Selected DEF Range
      <4> QED  BY <4>1, <4>2 DEF Both
    <3> QED  BY <3>1, <3>2
  <2>4. ASSUME NEW n \in all_send_ips PROVE \E q \in Eligible(call.sel) : n \in Both(q)
    <3>1. PICK k \in 1 .. Len(call.sel) : n = call.sel[k]
      BY <1>1, Selected DEF SelInv, Range
    <3>2. PICK e \in Eligible(call.sel) : TRUE
      BY <2>1
    <3>3. /\ e[1] \in 1 .. Len(call.sel) /\ e[2] \in 1 .. Len(call.sel)
          /\ regionOf[call.sel[e[1]]] # regionOf[call.sel[e[2]]]
          /\ DOMAIN call.sel = 1 .. Len(call.sel)
      BY <1>1, Selected DEF Eligible
    <3>4. <<k, e[1]>> \in Eligible(call.sel) \/ <<k, e[2]>> \in Eligible(call.sel)
      BY <3>1, <3>3 DEF Eligible
    <3> QED  BY <3>1, <3>4 DEF Both
  <2>5. all_send_ips = UNION {Both(q) : q \in Round}
    BY <2>1, <2>3, <2>4
  <2>6. Measuring \in Calls!Rounds
    BY <1>6, <2>2 DEF Calls!Rounds
  <2> QED  BY <1>3, <1>4, <2>2, <2>5, <2>6
<1> QED  BY <1>5, <1>6

(* What a caller sees depends on the arguments, the scripts, the output, and *)
(* on which nodes are clean or about to be.                                  *)
LEMMA ViewSame ==
  ASSUME UNCHANGED <<regionOf, call, calls, output, ret, scripts>>,
         (pc' = "idle") = (pc = "idle"),
         \A n \in Node : Cleaning(n)' = Cleaning(n),
         \A n \in Node : Cleaning(n) = {} => Clean(n)' = Clean(n)
  PROVE  UNCHANGED Calls!vars
<1>1. Pairs' = Pairs
  BY DEF Pairs, Eligible
<1>2. Sent' = Sent
  BY DEF Sent
<1>3. Ready' = Ready
  BY DEF Ready
<1>4. Recorded' = Recorded /\ Failed' = Failed
  BY DEF Recorded, Failed
<1> QED  BY <1>1, <1>2, <1>3, <1>4 DEF Calls!vars

(* Commands other than starts and cleanups do not show.                      *)
LEMMA NetView ==
  ASSUME \A m : m.op \in {"start", "cleanup"} => (m \in net' <=> m \in net),
         UNCHANGED <<status, startFile, service, clients>>
  PROVE  \A n \in Node : Cleaning(n)' = Cleaning(n) /\ Clean(n)' = Clean(n)
<1>1. Pending("start")' = Pending("start") /\ Pending("cleanup")' = Pending("cleanup")
  BY DEF Pending
<1> QED  BY <1>1 DEF Cleaning, Clean

(* A call begins.                                                            *)
LEMMA CallBegins ==
  ASSUME Timely, Careful, CallInv, CallInv', Call
  PROVE  Calls!Begin
<1>1. PICK c \in [kind : Kinds, mode : Modes, sel : Selections] :
        call' = c /\ CallAllowed(c) /\ todo' = Eligible(c.sel)
  BY DEF Call
<1>2. /\ pc = "idle" /\ pc' = "pairs" /\ net = {} /\ calls' = calls + 1 /\ calls < MaxCalls
      /\ UNCHANGED <<regionOf, scripts, startFile, service, clients, status, output, ret, net>>
  BY DEF Call, Timely, node
<1>3. /\ RoundInv /\ CallType /\ CallType' /\ calls \in Nat /\ EmptyInv
  BY MaxCallsAssumption DEF CallInv, RoundInv, TInv, CallType
<1>4. \A n \in Node : Cleaning(n) = {} /\ Clean(n)
  <2>1. \A n \in Node : Quiet(n)
    BY <1>2, AllQuiet DEF CallInv, RoundInv
  <2> QED  BY <1>2, <2>1 DEF Cleaning, Clean, Pending, Quiet, Idle
<1>5. \A n \in Node : Cleaning(n)' = Cleaning(n) /\ Clean(n)' = Clean(n)
  BY <1>2, NetView
<1>6. Ready = Node /\ Ready' = Ready /\ Sent' = Sent /\ Failed' = Failed
  BY <1>2, <1>4, <1>5 DEF Ready, Sent, Failed
<1>7. Recorded' = {}
  <2>1. output[calls'] = << >>
    BY <1>2, <1>3, MaxCallsAssumption DEF EmptyInv
  <2>2. Range(output[calls']) = {}
    BY <2>1 DEF Range
  <2> QED  BY <1>2, <1>3, <2>2 DEF Recorded
<1>8. call.kind' \in Kind /\ call.mode' \in {1, 2, 3} /\ call.sel' \in Sels
  BY <1>3 DEF CallType
<1>9. Pairs' \subseteq Node \X Node
  <2>1. Pairs' = {<<call'.sel[p[1]], call'.sel[p[2]]>> : p \in Eligible(call'.sel)}
    BY <1>2 DEF Pairs, Eligible
  <2>2. \A p \in Eligible(call'.sel) : call'.sel[p[1]] \in Node /\ call'.sel[p[2]] \in Node
    BY <1>8, Selected
  <2> QED  BY <2>1, <2>2
<1>10. [kind |-> call.kind', mode |-> call.mode', pairs |-> Pairs'] \in Calls!Calls
  BY <1>8, <1>9 DEF Calls!Calls
<1>11. call.mode' = 3 => \A t \in Pairs' : t[1] \in Sent[call.kind'][t[2]]
  <2> SUFFICES ASSUME c.mode = 3, NEW p \in Eligible(c.sel)
               PROVE  c.sel[p[1]] \in Sent[c.kind][c.sel[p[2]]]
    BY <1>1, <1>2 DEF Pairs, Eligible
  <2>1. PICK s \in scripts[c.sel[p[2]]][c.kind] : s.server = c.sel[p[1]]
    BY <1>1 DEF CallAllowed, Careful, Transferred
  <2>2. c.sel[p[2]] \in Node /\ c.kind \in Kind
    BY <1>1, <1>8, Selected
  <2> QED  BY <1>4, <2>1, <2>2 DEF Sent
<1> QED  BY <1>2, <1>6, <1>7, <1>10, <1>11 DEF Calls!Begin

(* A script is sent, over a file for the same server or over none.           *)
LEMMA CallSends ==
  ASSUME Timely, RoundInv, PlaceScript
  PROVE  Calls!Send
<1>1. PICK p \in Here :
        /\ \A q \in Here : p[2] <= q[2]
        /\ scripts' = [scripts EXCEPT ![call.sel[p[2]]][call.kind] =
                          {s \in @ : s.name # globalCountPortIncrs + 1}
                          \union {Script(globalCountPortIncrs + 1, call.sel[p[1]],
                                         countPortIncrs)}]
  BY DEF PlaceScript
<1>2. /\ pc = "pairs" /\ pc' \in {"pairs", "send"} /\ call.mode # 3 /\ net = {}
      /\ UNCHANGED <<regionOf, call, calls, output, ret, startFile, service, clients, status,
                     net>>
  BY DEF PlaceScript, Timely
<1>3. /\ TInv /\ LoopInv /\ FilesInv /\ CallType /\ NodeType /\ call.sel \in Sels
      /\ call.kind \in Kind /\ p \in Eligible(call.sel) /\ call.sel[p[2]] \in Node
      /\ globalCountPortIncrs \in Nat
  BY CallIs, Selected DEF RoundInv, TInv, CallType
<1> DEFINE name == globalCountPortIncrs + 1
           ip == call.sel[p[1]]
           ip2 == call.sel[p[2]]
           new == Script(name, ip, countPortIncrs)
<1>4. name = Number(call.sel, p)
  BY <1>1, <1>2, <1>3, Counted
<1>5. ASSUME NEW s \in scripts[ip2][call.kind], s.name = name PROVE s.server = ip
  <2>1. s \in Plan(call.sel, ip2)
    BY <1>2, <1>3 DEF FilesInv, Fits
  <2>2. PICK q \in Eligible(call.sel) :
          s = Script(Number(call.sel, q), call.sel[q[1]], Offset(call.sel, q))
    BY <2>1 DEF Plan
  <2>3. Number(call.sel, q) = Number(call.sel, p)
    BY <1>4, <1>5, <2>2 DEF Script
  <2>4. q = p
    BY <1>3, <2>3, NumbersDiffer
  <2> QED  BY <2>2, <2>4 DEF Script
<1>6. \A n \in Node : Cleaning(n) = {} /\ Cleaning(n)' = {} /\ Clean(n)' = Clean(n)
  BY <1>2 DEF Cleaning, Clean, Pending
<1>7. \A n \in Node, k \in Kind :
        scripts'[n][k] = IF n = ip2 /\ k = call.kind
                         THEN {s \in scripts[n][k] : s.name # name} \union {new}
                         ELSE scripts[n][k]
  BY <1>1, <1>3 DEF NodeType
<1>8. new.server = ip
  BY DEF Script
<1> HIDE DEF name, ip, ip2, new
<1>9. \A k \in Kind, n \in Node :
        {s.server : s \in scripts'[n][k]} =
           IF n = ip2 /\ k = call.kind THEN {s.server : s \in scripts[n][k]} \union {ip}
           ELSE {s.server : s \in scripts[n][k]}
  <2> SUFFICES ASSUME NEW k \in Kind, NEW n \in Node
               PROVE  {s.server : s \in scripts'[n][k]} =
                         IF n = ip2 /\ k = call.kind
                         THEN {s.server : s \in scripts[n][k]} \union {ip}
                         ELSE {s.server : s \in scripts[n][k]}
    OBVIOUS
  <2>1. CASE ~(n = ip2 /\ k = call.kind)
    BY <1>7, <2>1
  <2>2. CASE n = ip2 /\ k = call.kind
    <3>1. scripts'[n][k] = {s \in scripts[n][k] : s.name # name} \union {new}
      BY <1>7, <2>2
    <3>2. ASSUME NEW s \in scripts[n][k]
          PROVE  s.server \in {x.server : x \in scripts'[n][k]}
      BY <1>5, <1>8, <2>2, <3>1
    <3> QED  BY <1>8, <2>2, <3>1, <3>2
  <2> QED  BY <2>1, <2>2
<1>10. Sent' = [Sent EXCEPT ![call.kind][ip2] = @ \union {ip}]
  BY <1>3, <1>6, <1>9 DEF Sent
<1>11. Ready' = Ready /\ Recorded' = Recorded /\ Failed' = Failed /\ Pairs' = Pairs
  BY <1>2, <1>6 DEF Ready, Recorded, Failed, Pairs, Eligible
<1>12. <<ip, ip2>> \in Pairs
  BY <1>3 DEF Pairs, ip, ip2
<1>13. \E t \in Pairs : Sent' = [Sent EXCEPT ![call.kind][t[2]] = @ \union {t[1]}]
  BY <1>10, <1>12
<1> QED  BY <1>2, <1>11, <1>13 DEF Calls!Send

(* The nodes of the round start.                                             *)
LEMMA CallStarts ==
  ASSUME Careful, RoundInv, SelInv, SendStart
  PROVE  Calls!Start
<1>1. /\ pc = "send" /\ pc' = "sleep" /\ net = {} /\ RoundPc
      /\ net' = net \union {Command("start", n, call.kind) : n \in all_send_ips}
      /\ UNCHANGED <<regionOf, call, calls, output, ret, scripts, startFile, service, clients,
                     status>>
  BY DEF SendStart, RoundInv, NetInv, RoundPc, node
<1>2. \A n \in Node : Cleaning(n) = {} /\ Cleaning(n)' = {}
  BY <1>1 DEF Cleaning, Pending, Command
<1>3. \A n \in Node : n \notin all_send_ips => Clean(n)' = Clean(n)
  <2>1. \A m \in Pending("start")' : m.to \in all_send_ips
    BY <1>1 DEF Pending, Command
  <2>2. Pending("start") = {}
    BY <1>1 DEF Pending
  <2> QED  BY <1>1, <2>1, <2>2 DEF Clean
<1>4. \A n \in Node : Clean(n)' => Clean(n)
  BY <1>1 DEF Clean, Pending
<1>5. Ready' \subseteq Ready /\ Ready \ Ready' \subseteq all_send_ips
  BY <1>2, <1>3, <1>4 DEF Ready
<1>6. Sent' = Sent /\ Recorded' = Recorded /\ Failed' = Failed /\ Pairs' = Pairs
  BY <1>1, <1>2 DEF Sent, Recorded, Failed, Pairs, Eligible
<1>7. all_send_ips \subseteq Calls!Nodes(Pairs)
  BY <1>1, RoundNodes DEF Calls!Nodes
<1> QED  BY <1>1, <1>5, <1>6, <1>7 DEF Calls!Start

\* Cleanups of the directories K on the nodes that are started.
Cleanups(K) == {Command("cleanup", n, k) : n \in all_send_ips, k \in K}

(* Cleanups that are spawned at the end of a round count as done.            *)
LEMMA CleanupsCount ==
  ASSUME RoundInv, pc = "collect", NEW K, K \subseteq Kind, K # {},
         net' = net \union Cleanups(K),
         UNCHANGED <<scripts, startFile, service, clients, status>>
  PROVE  /\ \A n \in Node : Cleaning(n) = {}
         /\ Sent' = [k \in Kind |-> [n \in Node |->
                       IF k \in K /\ n \in all_send_ips THEN {} ELSE Sent[k][n]]]
         /\ Ready' = Ready \union all_send_ips
<1>1. Pending("start") = {} /\ Pending("cleanup") = {} /\ all_send_ips \subseteq Node
  BY DEF RoundInv, NetInv, TInv, CallType
<1>2. Pending("start")' = {}
  BY <1>1 DEF Pending, Command, Cleanups
<1>3. Pending("cleanup")' = {Command("cleanup", n, k) : n \in all_send_ips, k \in K}
  BY <1>1 DEF Pending, Command, Cleanups
<1>4. \A n \in Node : Cleaning(n) = {}
  BY <1>1 DEF Cleaning
<1>5. ASSUME NEW n \in Node PROVE Cleaning(n)' = IF n \in all_send_ips THEN K ELSE {}
  <2>1. Cleaning(n)' = {m.arg : m \in {x \in Pending("cleanup")' : x.to = n}}
    BY DEF Cleaning
  <2>2. \A a \in all_send_ips, k \in K :
          Command("cleanup", a, k).to = a /\ Command("cleanup", a, k).arg = k
    BY DEF Command
  <2>3. \A k \in K : n \in all_send_ips => Command("cleanup", n, k) \in Pending("cleanup")'
    BY <1>3
  <2>4. \A m \in Pending("cleanup")' : m.to \in all_send_ips /\ m.arg \in K
    BY <1>3, <2>2
  <2>5. n \in all_send_ips => \A k \in K : k \in Cleaning(n)'
    BY <2>1, <2>2, <2>3
  <2> QED  BY <2>1, <2>4, <2>5
<1>6. \A n \in Node : Clean(n)' = Clean(n)
  BY <1>1, <1>2 DEF Clean
<1>7. Ready' = Ready \union all_send_ips
  BY <1>1, <1>4, <1>5, <1>6 DEF Ready
<1>8. Sent' = [k \in Kind |-> [n \in Node |->
                 IF k \in K /\ n \in all_send_ips THEN {} ELSE Sent[k][n]]]
  BY <1>4, <1>5 DEF Sent
<1> QED  BY <1>4, <1>7, <1>8

(* A call fails.                                                             *)
LEMMA CallFails ==
  ASSUME Careful, RoundInv, SelInv, ParseError
  PROVE  Calls!Fail
<1>1. /\ pc = "collect" /\ pc' = "idle" /\ RoundPc
      /\ net' = net \union Cleanups(Kind)
      /\ ret' = [ret EXCEPT ![calls] = "error"]
      /\ UNCHANGED <<regionOf, call, calls, output, scripts, startFile, service, clients, status>>
  BY DEF ParseError, ErrorCleanups, Cleanups, RoundPc, node
<1>2. /\ Sent' = [k \in Kind |-> [n \in Node |->
                    IF k \in Kind /\ n \in all_send_ips THEN {} ELSE Sent[k][n]]]
      /\ Ready' = Ready \union all_send_ips
  <2>1. Kind \subseteq Kind /\ Kind # {}
    BY DEF Kind
  <2> QED  BY <1>1, <2>1, CleanupsCount
<1>3. Recorded' = Recorded /\ Pairs' = Pairs
  BY <1>1 DEF Recorded, Pairs, Eligible
<1>4. calls \in 1 .. MaxCalls /\ ret \in [1 .. MaxCalls -> {None, "error"}]
  BY <1>1 DEF RoundInv, TInv, CallType, OutputType
<1>5. Failed' = Failed \union {calls}
  BY <1>1, <1>4 DEF Failed
<1>6. PICK Q \in Calls!Rounds : all_send_ips = Calls!Nodes(Q)
  BY <1>1, RoundNodes DEF Calls!Nodes
<1>7. Sent' = Calls!Emptied(Kind, Calls!Nodes(Q)) /\ Ready' = Ready \union Calls!Nodes(Q)
  BY <1>2, <1>6 DEF Calls!Emptied
<1> QED  BY <1>1, <1>3, <1>5, <1>7 DEF Calls!Fail

\* The pairs of nodes of the pairs W of places, their readings, and what is recorded
\* of them.
ReadingsOf(sel, W, c) == {[src |-> sel[q[2]], dest |-> sel[q[1]], call |-> c] : q \in W}
PairsOf(sel, W) == {<<sel[q[1]], sel[q[2]]>> : q \in W}
TriplesOf(sel, W, c) == {<<sel[q[1]], sel[q[2]], c>> : q \in W}

(* The readings of pairs tell the pairs.                                     *)
LEMMA TriplesRead ==
  ASSUME NEW sel, NEW W, NEW c
  PROVE  /\ {<<r.dest, r.src, r.call>> : r \in ReadingsOf(sel, W, c)} = TriplesOf(sel, W, c)
         /\ {<<t[1], t[2]>> : t \in TriplesOf(sel, W, c)} = PairsOf(sel, W)
<1> DEFINE R == ReadingsOf(sel, W, c)
<1>1. \A q \in W : \E r \in R : <<sel[q[1]], sel[q[2]], c>> = <<r.dest, r.src, r.call>>
  <2> SUFFICES ASSUME NEW q \in W
               PROVE  \E r \in R : <<sel[q[1]], sel[q[2]], c>> = <<r.dest, r.src, r.call>>
    OBVIOUS
  <2>1. [src |-> sel[q[2]], dest |-> sel[q[1]], call |-> c] \in R
    BY DEF ReadingsOf
  <2> QED  BY <2>1
<1>2. \A r \in R : \E q \in W : <<sel[q[1]], sel[q[2]], c>> = <<r.dest, r.src, r.call>>
  BY DEF ReadingsOf
<1>3. {<<r.dest, r.src, r.call>> : r \in R} = TriplesOf(sel, W, c)
  <2> HIDE DEF R
  <2>1. ASSUME NEW x PROVE x \in {<<r.dest, r.src, r.call>> : r \in R}
                           <=> x \in TriplesOf(sel, W, c)
    BY <1>1, <1>2 DEF TriplesOf
  <2> QED  BY <2>1
<1>4. \A q \in W : <<sel[q[1]], sel[q[2]], c>> \in TriplesOf(sel, W, c)
  BY DEF TriplesOf
<1>5. \A t \in TriplesOf(sel, W, c) : \E q \in W : t[1] = sel[q[1]] /\ t[2] = sel[q[2]]
  BY DEF TriplesOf
<1>6. ASSUME NEW x PROVE x \in {<<t[1], t[2]>> : t \in TriplesOf(sel, W, c)}
                         <=> x \in PairsOf(sel, W)
  BY <1>4, <1>5 DEF PairsOf
<1> QED  BY <1>3, <1>6

(* What a call has written, as long as none has failed.                      *)
LEMMA RecordedIs ==
  ASSUME WrittenInv, calls \in Nat \ {0}
  PROVE  /\ Recorded = TriplesOf(call.sel, Written, calls)
         /\ Calls!Done = PairsOf(call.sel, Written)
<1>1. Range(output[calls]) = Rds(Written)
  BY DEF WrittenInv, Records
<1>2. Rds(Written) = ReadingsOf(call.sel, Written, calls)
  BY DEF Rds, Rd, ReadingsOf
<1>3. Recorded = {<<r.dest, r.src, r.call>> : r \in ReadingsOf(call.sel, Written, calls)}
  BY <1>1, <1>2 DEF Recorded
<1>4. Recorded = TriplesOf(call.sel, Written, calls)
  BY <1>3, TriplesRead
<1>5. {<<t[1], t[2]>> : t \in TriplesOf(call.sel, Written, calls)} = PairsOf(call.sel, Written)
  BY TriplesRead
<1>6. Calls!Done = {<<t[1], t[2]>> : t \in Recorded}
  BY DEF Calls!Done
<1> QED  BY <1>4, <1>5, <1>6

(* No failed call, as the callers see it.                                    *)
LEMMA NoneFailed ==
  ASSUME CallInv, Failed = {}
  PROVE  LocalInv /\ WrittenInv
<1>1. calls \in 0 .. MaxCalls /\ ret \in [1 .. MaxCalls -> {None, "error"}]
  BY DEF CallInv, RoundInv, TInv, CallType, OutputType
<1>2. \A c \in 1 .. calls : c \in 1 .. MaxCalls
  BY <1>1, MaxCallsAssumption
<1>3. NoFail
  BY <1>1, <1>2 DEF NoFail, Failed
<1> QED  BY <1>3 DEF CallInv

(* A round is recorded.                                                      *)
LEMMA CallRecords ==
  ASSUME Careful, CallInv, SelInv, WriteOutput
  PROVE  Calls!Record
<1>1. /\ pc = "collect" /\ pc' = (IF call.mode = 3 THEN "idle" ELSE "pairs") /\ RoundPc
      /\ net' = net \union Cleanups({cleanupArg})
      /\ output' = [output EXCEPT ![calls] = @ \o resultList]
      /\ UNCHANGED <<regionOf, call, calls, ret, scripts, startFile, service, clients, status>>
  BY DEF WriteOutput, RoundPc, Cleanups, node
<1>2. /\ RoundInv /\ TInv /\ CallType /\ OutputType /\ calls \in 1 .. MaxCalls
      /\ calls \in Nat \ {0} /\ call.kind \in Kind /\ call.sel \in Sels
  BY <1>1, CallIs, MaxCallsAssumption DEF CallInv, RoundInv, TInv, CallType
<1>3. cleanupArg = (IF call.mode = 1 THEN call.kind ELSE "static") /\ cleanupArg \in Kind
  BY <1>2 DEF cleanupArg, Kind
<1>4. /\ \A n \in Node : Cleaning(n) = {}
      /\ Sent' = [k \in Kind |-> [n \in Node |->
                    IF k \in {cleanupArg} /\ n \in all_send_ips THEN {} ELSE Sent[k][n]]]
      /\ Ready' = Ready \union all_send_ips
  <2>1. {cleanupArg} \subseteq Kind /\ {cleanupArg} # {}
    BY <1>3
  <2> QED  BY <1>1, <1>2, <2>1, CleanupsCount
<1>5. PICK Q : Q = Measuring
  OBVIOUS
<1>6. /\ all_send_ips = Calls!Nodes(Q) /\ Q \in Calls!Rounds
      /\ Q = PairsOf(call.sel, Round)
  BY <1>1, <1>2, <1>5, RoundNodes DEF Calls!Nodes, Measuring, PairsOf
<1>7. /\ Sent' = Calls!Emptied({IF call.mode = 1 THEN call.kind ELSE "static"}, Calls!Nodes(Q))
      /\ Ready' = Ready \union Calls!Nodes(Q)
  BY <1>3, <1>4, <1>6 DEF Calls!Emptied
<1>8. ASSUME NEW t \in Q PROVE Calls!HasScript(t)
  <2>1. PICK q \in Round : t = <<call.sel[q[1]], call.sel[q[2]]>>
    BY <1>6 DEF PairsOf
  <2>2. PICK s \in scripts[call.sel[q[2]]][call.kind] : s.server = call.sel[q[1]]
    BY DEF Round
  <2>3. call.sel[q[2]] \in Node
    BY <1>2, Selected DEF Round
  <2>4. call.sel[q[1]] \in Sent[call.kind][call.sel[q[2]]]
    BY <1>2, <1>4, <2>2, <2>3 DEF Sent
  <2> QED  BY <2>1, <2>4 DEF Calls!HasScript
<1>9. Written' = Written \union Round /\ Written \cap Round = {}
      /\ Written \subseteq Eligible(call.sel) /\ Round \subseteq Eligible(call.sel)
  BY <1>2, RoundNew
<1>10. /\ Failed' = Failed /\ Pairs' = Pairs /\ Pairs = PairsOf(call.sel, Eligible(call.sel))
       /\ call' = call /\ calls' = calls
  BY <1>1 DEF Failed, Pairs, Eligible, PairsOf
<1>11. ASSUME Failed = {}
       PROVE  /\ Recorded' = Recorded \union {<<p[1], p[2], calls>> : p \in Q}
              /\ Q \cap Calls!Done = {}
              /\ pc' = "idle" => Calls!Done' = Pairs'
  <2>1. LocalInv /\ WrittenInv
    BY <1>11, NoneFailed
  <2>2. WrittenInv'
    BY <1>2, <2>1, WrittenOutput
  <2>3. /\ Recorded = TriplesOf(call.sel, Written, calls)
        /\ Calls!Done = PairsOf(call.sel, Written)
    BY <1>2, <2>1, RecordedIs
  <2>4. /\ Recorded' = TriplesOf(call.sel, Written', calls)
        /\ Calls!Done' = PairsOf(call.sel, Written')
    <3>1. Range(output'[calls]) = Rds(Written)'
      BY <1>2, <1>10, <2>2 DEF WrittenInv, Records
    <3>2. Rds(Written)' = ReadingsOf(call.sel, Written', calls)
      BY <1>10 DEF Rds, Rd, ReadingsOf
    <3>3. Recorded' = {<<r.dest, r.src, r.call>> : r \in ReadingsOf(call.sel, Written', calls)}
      BY <1>2, <1>10, <3>1, <3>2 DEF Recorded
    <3>4. Recorded' = TriplesOf(call.sel, Written', calls)
      BY <3>3, TriplesRead
    <3>5. {<<t[1], t[2]>> : t \in TriplesOf(call.sel, Written', calls)}
            = PairsOf(call.sel, Written')
      BY TriplesRead
    <3>6. Calls!Done' = {<<t[1], t[2]>> : t \in Recorded'}
      BY DEF Calls!Done
    <3> QED  BY <3>4, <3>5, <3>6
  <2>5. {<<p[1], p[2], calls>> : p \in Q} = TriplesOf(call.sel, Round, calls)
    <3>1. ASSUME NEW q \in Round
          PROVE  \E p \in Q : p[1] = call.sel[q[1]] /\ p[2] = call.sel[q[2]]
      <4>1. <<call.sel[q[1]], call.sel[q[2]]>> \in Q
        BY <1>6 DEF PairsOf
      <4> QED  BY <4>1
    <3>2. \A p \in Q : \E q \in Round : p[1] = call.sel[q[1]] /\ p[2] = call.sel[q[2]]
      BY <1>6 DEF PairsOf
    <3>3. ASSUME NEW x PROVE x \in {<<p[1], p[2], calls>> : p \in Q}
                             <=> x \in TriplesOf(call.sel, Round, calls)
      BY <3>1, <3>2 DEF TriplesOf
    <3> QED  BY <3>3
  <2>6. TriplesOf(call.sel, Written', calls)
          = TriplesOf(call.sel, Written, calls) \union TriplesOf(call.sel, Round, calls)
    BY <1>9 DEF TriplesOf
  <2>7. Q \cap Calls!Done = {}
    <3> SUFFICES ASSUME NEW t \in Q, t \in Calls!Done PROVE FALSE
      OBVIOUS
    <3>1. PICK q \in Round : t = <<call.sel[q[1]], call.sel[q[2]]>>
      BY <1>6 DEF PairsOf
    <3>2. PICK w \in Written : t = <<call.sel[w[1]], call.sel[w[2]]>>
      BY <2>3 DEF PairsOf
    <3>3. Rd(call.sel[q[2]], call.sel[q[1]]) = Rd(call.sel[w[2]], call.sel[w[1]])
      BY <3>1, <3>2
    <3>4. q = w
      BY <1>2, <1>9, <3>3, ReadingsDiffer
    <3> QED  BY <1>9, <3>4
  <2>8. ASSUME pc' = "idle" PROVE Calls!Done' = Pairs'
    <3>1. call.mode = 3 /\ call.kind # "static"
      BY <1>1, <1>2, <2>8 DEF RoundInv, StaticInv
    <3>2. Written' = Eligible(call.sel)'
      BY <1>1, <2>8, <3>1 DEF Written
    <3>3. Eligible(call.sel)' = Eligible(call.sel)
      BY <1>1 DEF Eligible
    <3> QED  BY <1>10, <2>4, <3>2, <3>3
  <2> QED  BY <2>3, <2>4, <2>5, <2>6, <2>7, <2>8
<1>12. Recorded \subseteq Recorded'
  <2>1. output[calls] \in Seq(Reading) /\ resultList \in Seq(Reading)
    BY <1>2 DEF OutputType
  <2>2. output'[calls] = output[calls] \o resultList
    BY <1>1, <1>2 DEF OutputType
  <2>3. Range(output[calls]) \subseteq Range(output'[calls])
    <3> DEFINE s == output[calls]
               t == output'[calls]
    <3>1. /\ DOMAIN s = 1 .. Len(s) /\ DOMAIN t = 1 .. Len(t) /\ Len(s) \in Nat /\ Len(t) \in Nat
          /\ Len(t) >= Len(s) /\ \A k \in 1 .. Len(s) : t[k] = s[k]
      BY <2>1, <2>2, ConcatProperties
    <3> HIDE DEF s, t
    <3>2. \A k \in 1 .. Len(s) : k \in 1 .. Len(t)
      BY <3>1
    <3>3. Range(s) \subseteq Range(t)
      BY <3>1, <3>2 DEF Range
    <3> QED  BY <3>3 DEF s, t
  <2>4. calls # 0 /\ calls' = calls
    BY <1>2, <1>10
  <2> QED  BY <2>3, <2>4 DEF Recorded
<1> QED  BY <1>1, <1>6, <1>7, <1>8, <1>10, <1>11, <1>12 DEF Calls!Record

(* A call returns with all pairs recorded.                                   *)
LEMMA CallReturns ==
  ASSUME CallInv, Return
  PROVE  Calls!Return
<1>1. /\ pc = "pairs" /\ pc' = "idle" /\ Here = {} /\ cur = Len(call.sel)
      /\ UNCHANGED <<regionOf, call, calls, output, ret, scripts, net, startFile, service,
                     clients, status>>
  BY DEF Return, node
<1>2. /\ RoundInv /\ CallType /\ calls \in Nat \ {0} /\ call.sel \in Sels /\ LoopInv
  BY <1>1, CallIs, MaxCallsAssumption DEF CallInv, RoundInv, TInv, CallType
<1>3. todo = {}
  <2>1. \A q \in todo : q[1] \in 1 .. Len(call.sel) /\ cur <= q[1]
    BY <1>1, <1>2, Selected DEF CallType, LoopInv
  <2>2. \A q \in todo : q[1] = cur
    BY <1>1, <1>2, <2>1, Selected
  <2> QED  BY <1>1, <2>2 DEF Here
<1>4. Failed = {} => Calls!Done = Pairs
  <2> SUFFICES ASSUME Failed = {} PROVE Calls!Done = Pairs
    OBVIOUS
  <2>1. WrittenInv
    BY NoneFailed
  <2>2. Calls!Done = PairsOf(call.sel, Written)
    BY <1>2, <2>1, RecordedIs
  <2>3. Written = Eligible(call.sel)
    BY <1>1, <1>3 DEF Written, Done, RoundPc
  <2> QED  BY <2>2, <2>3 DEF Pairs, PairsOf
<1>5. \A n \in Node : Cleaning(n)' = Cleaning(n) /\ Clean(n)' = Clean(n)
  BY <1>1, NetView
<1>6. /\ Sent' = Sent /\ Ready' = Ready /\ Recorded' = Recorded /\ Failed' = Failed
      /\ Pairs' = Pairs
  BY <1>1, <1>5 DEF Sent, Ready, Recorded, Failed, Pairs, Eligible
<1> QED  BY <1>1, <1>4, <1>6 DEF Calls!Return

(* The other steps do not show: those of the controller that send nothing to *)
(* the nodes;                                                                *)
LEMMA ControllerHides ==
  ASSUME NextServer \/ ForceStart \/ EndSleep \/ ReadStatus \/ FetchLands \/ RmLands
         \/ UNCHANGED vars
  PROVE  UNCHANGED Calls!vars
<1>1. /\ UNCHANGED <<regionOf, call, calls, output, ret, scripts, startFile, service, clients,
                     status>>
      /\ (pc' = "idle") = (pc = "idle")
  BY DEF NextServer, ForceStart, EndSleep, ReadStatus, FetchLands, RmLands, vars, controller,
         node
<1>2. ASSUME NEW m, m.op \in {"start", "cleanup"} PROVE m \in net' <=> m \in net
  BY <1>2 DEF NextServer, ForceStart, EndSleep, ReadStatus, FetchLands, RmLands, vars, Pending,
              Command
<1>3. \A n \in Node : Cleaning(n)' = Cleaning(n) /\ Clean(n)' = Clean(n)
  BY <1>1, <1>2, NetView
<1> QED  BY <1>1, <1>3, ViewSame

(* a start.txt, which a node has on its way or has;                          *)
LEMMA StartHides ==
  ASSUME RoundInv, StartLands
  PROVE  UNCHANGED Calls!vars
<1>1. PICK m \in Pending("start") :
        startFile' = [startFile EXCEPT ![m.to] = m.arg] /\ net' = net \ {m}
  BY DEF StartLands
<1>2. /\ UNCHANGED <<regionOf, pc, call, calls, output, ret, scripts, service, clients, status>>
      /\ m \in net /\ m.op = "start"
  BY <1>1 DEF StartLands, controller, Pending
<1>3. m.to \in Node /\ m.arg \in Kind /\ startFile \in [Node -> Kind \union {None}]
  BY <1>2 DEF RoundInv, TInv, NetType, NodeType, Commands
<1>4. Pending("cleanup")' = Pending("cleanup") /\ Pending("start")' = Pending("start") \ {m}
  BY <1>1, <1>2 DEF Pending
<1>5. \A n \in Node : Cleaning(n)' = Cleaning(n)
  BY <1>4 DEF Cleaning
<1>6. m.arg # None
  BY <1>3 DEF Kind, None
<1>7. ASSUME NEW n \in Node PROVE Clean(n)' = Clean(n)
  <2>1. CASE n = m.to
    <3>1. startFile'[n] # None
      BY <1>1, <1>3, <1>6, <2>1
    <3> QED  BY <1>1, <2>1, <3>1 DEF Clean
  <2>2. CASE n # m.to
    <3>1. startFile'[n] = startFile[n]
      BY <1>1, <1>3, <2>2
    <3>2. (\A x \in Pending("start")' : x.to # n) = (\A x \in Pending("start") : x.to # n)
      BY <1>4, <2>2
    <3> QED  BY <1>2, <3>1, <3>2 DEF Clean
  <2> QED  BY <2>1, <2>2
<1> QED  BY <1>2, <1>5, <1>7, ViewSame

(* a cleanup, which has counted as done: a node outside a round waits after   *)
(* its cleanup;                                                              *)
LEMMA CleanupHides ==
  ASSUME RoundInv, CleanupLands
  PROVE  UNCHANGED Calls!vars
<1>1. PICK m \in Pending("cleanup") :
        /\ scripts' = [scripts EXCEPT ![m.to][m.arg] = {}]
        /\ status' = [status EXCEPT ![m.to] = << >>]
        /\ service' = [service EXCEPT ![m.to] = "waiting"]
        /\ clients' = [clients EXCEPT ![m.to] = {}]
        /\ net' = net \ {m}
  BY DEF CleanupLands, CleanedStatus, Restarted
<1>2. /\ UNCHANGED <<regionOf, pc, call, calls, output, ret, startFile>>
      /\ m \in net /\ m.op = "cleanup"
  BY <1>1 DEF CleanupLands, controller, Pending
<1>3. m.to \in Node /\ m.arg \in Kind /\ NodeType
  BY <1>2 DEF RoundInv, TInv, NetType, Commands
<1>4. pc \in {"idle", "pairs"} /\ Pending("start") = {}
  <2>1. pc # "send"
    BY <1>2 DEF RoundInv, NetInv
  <2>2. pc # "sleep"
    BY <1>2 DEF RoundInv, NetInv, Command
  <2>3. pc # "collect"
    BY <1>1 DEF RoundInv, NetInv
  <2> QED  BY <2>1, <2>2, <2>3 DEF RoundInv, NetInv, TInv, CallType
<1>5. Pending("cleanup")' = Pending("cleanup") \ {m} /\ Pending("start")' = {}
  BY <1>1, <1>2, <1>4 DEF Pending
<1>6. ASSUME NEW n \in Node, n # m.to PROVE Cleaning(n)' = Cleaning(n) /\ Clean(n)' = Clean(n)
  <2>1. {x \in Pending("cleanup")' : x.to = n} = {x \in Pending("cleanup") : x.to = n}
    BY <1>5, <1>6
  <2>2. /\ status'[n] = status[n] /\ service'[n] = service[n] /\ clients'[n] = clients[n]
        /\ startFile'[n] = startFile[n]
    BY <1>1, <1>2, <1>3, <1>6 DEF NodeType
  <2> QED  BY <1>4, <1>5, <2>1, <2>2 DEF Cleaning, Clean
<1>7. Clean(m.to)' /\ m.arg \in Cleaning(m.to)
  <2>1. startFile'[m.to] = None
    BY <1>2, <1>3, <1>4 DEF RoundInv, NodesInv, Idle
  <2>2. /\ status'[m.to] = << >> /\ service'[m.to] = "waiting" /\ clients'[m.to] = {}
    BY <1>1, <1>3 DEF NodeType
  <2> QED  BY <1>1, <1>5, <2>1, <2>2 DEF Clean, Cleaning
<1>8. Cleaning(m.to) \ {m.arg} \subseteq Cleaning(m.to)' /\ Cleaning(m.to)' \subseteq Cleaning(m.to)
  BY <1>5 DEF Cleaning
<1>9. Ready' = Ready
  BY <1>6, <1>7, <1>8 DEF Ready
<1>10. \A n \in Node, k \in Kind :
         scripts'[n][k] = IF n = m.to /\ k = m.arg THEN {} ELSE scripts[n][k]
  BY <1>1, <1>3 DEF NodeType
<1>11. ASSUME NEW k \in Kind, NEW n \in Node
       PROVE  (IF k \in Cleaning(n)' THEN {} ELSE {s.server : s \in scripts'[n][k]}) =
              (IF k \in Cleaning(n) THEN {} ELSE {s.server : s \in scripts[n][k]})
  BY <1>6, <1>7, <1>8, <1>10
<1>12. Sent' = Sent
  BY <1>11 DEF Sent
<1>13. Pairs' = Pairs /\ Recorded' = Recorded /\ Failed' = Failed
  BY <1>2 DEF Pairs, Recorded, Failed, Eligible
<1> QED  BY <1>2, <1>9, <1>12, <1>13 DEF Calls!vars

(* and what a node does from when it has its start.txt until its clients are *)
(* through.                                                                  *)
LEMMA NodeHides ==
  ASSUME RoundInv, NEW n \in Node, NodeStep(n)
  PROVE  UNCHANGED Calls!vars
<1>1. /\ UNCHANGED <<regionOf, pc, call, calls, output, ret, scripts, net>>
      /\ \A o \in Node \ {n} : UNCHANGED <<startFile[o], service[o], clients[o], status[o]>>
  <2>1. NodeType
    BY DEF RoundInv, TInv
  <2> QED  BY <2>1 DEF NodeStep, Serve, StartClients, RunClient, controller, NodeType
<1>2. Pending("start")' = Pending("start") /\ Pending("cleanup")' = Pending("cleanup")
  BY <1>1 DEF Pending
<1>3. \A o \in Node : Cleaning(o)' = Cleaning(o)
  BY <1>2 DEF Cleaning
<1>4. \A o \in Node \ {n} : Clean(o)' = Clean(o)
  BY <1>1, <1>2 DEF Clean
<1>5. ~Clean(n)
  BY DEF NodeStep, Serve, StartClients, RunClient, Clean
<1>6. ~Clean(n)'
  <2>1. NodeType
    BY DEF RoundInv, TInv
  <2>2. CASE Serve(n)
    <3>1. service'[n] = "serving"
      BY <2>1, <2>2 DEF Serve, NodeType
    <3> QED  BY <3>1 DEF Clean
  <2>3. CASE StartClients(n)
    <3>1. service'[n] = "done"
      BY <2>1, <2>3 DEF StartClients, NodeType
    <3> QED  BY <3>1 DEF Clean
  <2>4. CASE RunClient(n)
    <3>1. clients[n] # {} /\ service' = service
      BY <2>4 DEF RunClient
    <3>2. service[n] = "done"
      <4>1. ~Idle(n) /\ ~Quiet(n)
        BY <3>1 DEF Idle, Quiet
      <4>2. pc \in {"idle", "pairs"} \/ RoundPc
        BY DEF RoundInv, TInv, CallType, RoundPc
      <4>3. RoundPc /\ n \in all_send_ips /\ pc # "send"
        BY <4>1, <4>2 DEF RoundInv, NodesInv
      <4>4. Waits(n) \/ Starts(n) \/ Ran(n)
        BY <4>3 DEF RoundInv, NodesInv, RoundPc
      <4> QED  BY <3>1, <4>1, <4>4 DEF Waits, Starts, Ran
    <3> QED  BY <3>1, <3>2 DEF Clean
  <2> QED  BY <2>2, <2>3, <2>4 DEF NodeStep
<1>7. \A o \in Node : Clean(o)' = Clean(o)
  BY <1>4, <1>5, <1>6 DEF Clean
<1> QED  BY <1>1, <1>3, <1>7, ViewSame

(* Initially nothing is there.                                               *)
LEMMA CallsBegin == Init => Calls!Init
<1> SUFFICES ASSUME Init PROVE Calls!Init
  OBVIOUS
<1>1. CallType
  BY InitTyped DEF TInv
<1>2. pc = "idle" /\ calls = 0 /\ net = {}
  BY DEF Init
<1>3. \A n \in Node : Cleaning(n) = {} /\ Clean(n)
  BY <1>2 DEF Init, Cleaning, Clean, Pending
<1>4. Ready = Node
  BY <1>3 DEF Ready
<1>5. Sent = [k \in Kind |-> [n \in Node |-> {}]]
  <2>1. \A n \in Node, k \in Kind : scripts[n][k] = {}
    BY DEF Init
  <2> QED  BY <1>3, <2>1 DEF Sent
<1>6. Recorded = {}
  BY <1>2 DEF Recorded
<1>7. Failed = {}
  BY DEF Init, Failed, None
<1>8. Pairs \subseteq Node \X Node
  <2>1. call.sel \in Sels
    BY <1>1 DEF CallType
  <2>2. \A p \in Eligible(call.sel) : call.sel[p[1]] \in Node /\ call.sel[p[2]] \in Node
    BY <2>1, Selected
  <2> QED  BY <2>2 DEF Pairs
<1>9. [kind |-> call.kind, mode |-> call.mode, pairs |-> Pairs] \in Calls!Calls
  BY <1>1, <1>8 DEF CallType, Calls!Calls
<1> QED  BY <1>2, <1>4, <1>5, <1>6, <1>7, <1>9 DEF Calls!Init

\* The calls of runMonitor, with the commands that are spawned and not awaited, the
\* nodes they drive and the calls that fail, are those of MeasurementCalls: provided
\* that the bets of runMonitor are won, callers see to the files that are on the
\* nodes, no region has more than three nodes, and test_service.sh starts a server
\* for every other node.
THEOREM CallsImplemented ==
  ASSUME Timely, Careful, SmallRegions, EnoughPorts
  PROVE  Spec => CallsSpec
<1>1. Init => SelInv
  BY DEF Init, SelInv
<1>2. CallInv /\ SelInv /\ [Next]_vars => SelInv'
  BY SelStep DEF CallInv, RoundInv
<1>3. CallInv /\ SelInv /\ CallInv' /\ [Next]_vars => [Calls!Next]_Calls!vars
  <2> SUFFICES ASSUME CallInv, SelInv, CallInv', [Next]_vars PROVE [Calls!Next]_Calls!vars
    OBVIOUS
  <2>1. RoundInv
    BY DEF CallInv
  <2>2. CASE Call
    BY <2>2, CallBegins DEF Calls!Next
  <2>3. CASE PlaceScript
    BY <2>1, <2>3, CallSends DEF Calls!Next
  <2>4. CASE SendStart
    BY <2>1, <2>4, CallStarts DEF Calls!Next
  <2>5. CASE WriteOutput
    BY <2>5, CallRecords DEF Calls!Next
  <2>6. CASE ParseError
    BY <2>1, <2>6, CallFails DEF Calls!Next
  <2>7. CASE Return
    BY <2>7, CallReturns DEF Calls!Next
  <2>8. CASE NextServer \/ ForceStart \/ EndSleep \/ ReadStatus \/ FetchLands \/ RmLands
             \/ UNCHANGED vars
    BY <2>8, ControllerHides
  <2>9. CASE StartLands \/ CleanupLands
    BY <2>1, <2>9, StartHides, CleanupHides
  <2>10. ASSUME NEW n \in Node, NodeStep(n) PROVE [Calls!Next]_Calls!vars
    BY <2>1, <2>10, NodeHides
  <2> QED
    BY <2>2, <2>3, <2>4, <2>5, <2>6, <2>7, <2>8, <2>9, <2>10
       DEF Next, Controller, Landing, Finished
<1> QED  BY <1>1, <1>2, <1>3, RoundHolds, CallsBegin, PTL DEF Spec, CallsSpec, Calls!Spec

====
