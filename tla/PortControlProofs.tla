--------------------------- MODULE PortControlProofs ---------------------------
(***************************************************************************)
(* Theorems about PortControl, for every number of hosts, tasks and        *)
(* servers, every set of sizes and every set of decisions in 1 .. 8.       *)
(***************************************************************************)
EXTENDS PortControl, TLAPS

(* What each thread carries towards a write leaves at least one port open. *)
PortsLeft ==
  /\ \A h \in Hosts : closed[h] <= NumServers - 1
  /\ \A t \in Threads : seen[t] <= NumServers - 1
  /\ \A t \in Threads : pc[t] = "insert" => val[t] = 0
  /\ pc[Monitor] \in {"closeWrite", "insertMark"} => val[Monitor] <= NumServers - 1
  /\ pc[Monitor] \in {"openCheck", "openZero", "openLess", "openRead", "openWrite"}
       => val[Monitor] >= 1

LEMMA InitTypeOK == Init => TypeOK
  BY DataAssumption DEF Init, TypeOK, Threads, TaskLabels, MonitorLabels, GetLabels

LEMMA WarmInitTypeOK == WarmInit => TypeOK
<1> SUFFICES ASSUME WarmInit PROVE TypeOK
    OBVIOUS
<1>1. closed \in [Hosts -> Int]
  BY DataAssumption DEF WarmInit
<1> QED  BY <1>1, DataAssumption
         DEF WarmInit, TypeOK, Threads, TaskLabels, MonitorLabels, GetLabels

(* Every step keeps the types. *)
LEMMA NextTypeOK == TypeOK /\ [Next]_vars => TypeOK'
<1> SUFFICES ASSUME TypeOK, [Next]_vars PROVE TypeOK'
    OBVIOUS
<1> USE DataAssumption, ThreadAssumption
    DEF TypeOK, Threads, Goto, Forget, taskLocal, monitorLocal, history, sizes,
        TaskLabels, MonitorLabels, GetLabels
<1>1. ASSUME NEW t \in Threads, GetStep(t) \/ InsertSize(t) PROVE TypeOK'
  <2>1. CASE GetCheck(t)  BY <2>1 DEF GetCheck
  <2>2. CASE GetDefault(t)  BY <2>2 DEF GetDefault
  <2>3. CASE GetInsert(t)  BY <2>3 DEF GetInsert, Inserted
  <2>4. CASE GetRead(t)  BY <2>4 DEF GetRead
  <2>5. CASE ReadThrows(t)  BY <2>5 DEF ReadThrows
  <2>6. CASE InsertSize(t)
    <3>1. reqSize' \in [Hosts -> Int] /\ doubled' \subseteq Hosts
      BY <2>6 DEF InsertSize, SizeArrives, SizeIsLost
    <3>2. fresh' \in [Hosts -> BOOLEAN] /\ torn' \subseteq Hosts
      BY <2>6 DEF InsertSize, SizeArrives, SizeIsLost
    <3>3. /\ pc[t] = "insertSize"
          /\ val' = [val EXCEPT ![t] = 0]
          /\ Goto(t, IF t = Monitor THEN "collect" ELSE "check")
          /\ UNCHANGED <<entries, closed, host, seen, taskLocal, monitorLocal, history>>
      BY <2>6 DEF InsertSize
    <3> QED  BY <3>1, <3>2, <3>3
  <2> QED  BY <1>1, <2>1, <2>2, <2>3, <2>4, <2>5, <2>6 DEF GetStep
<1>2. ASSUME NEW t \in Tasks, TaskStep(t) PROVE TypeOK'
  <2>1. CASE SendRequest(t)
    <3>1. PICK h \in Hosts, size \in Sizes :
            /\ host' = [host EXCEPT ![t] = h]
            /\ \/ /\ SetInPlace(h, size)
                  /\ fresh' = [fresh EXCEPT ![h] = TRUE]
                  /\ Goto(t, "check")
                  /\ UNCHANGED <<doubled, torn, val>>
               \/ SetByAdding(t, h, size)
      BY <2>1 DEF SendRequest
    <3>2. /\ blk' = [blk EXCEPT ![t] = 0]
          /\ UNCHANGED <<entries, closed, seen, monitorLocal, history>>
      BY <2>1 DEF SendRequest
    <3>3. CASE /\ SetInPlace(h, size)
               /\ fresh' = [fresh EXCEPT ![h] = TRUE]
               /\ Goto(t, "check")
               /\ UNCHANGED <<doubled, torn, val>>
      BY <3>1, <3>2, <3>3 DEF SetInPlace
    <3>4. CASE SetByAdding(t, h, size)  BY <3>1, <3>2, <3>4 DEF SetByAdding
    <3> QED  BY <3>1, <3>3, <3>4
  <2>2. CASE PickPort(t)  BY <2>2 DEF PickPort
  <2>3. CASE PickThrows(t)  BY <2>3 DEF PickThrows
  <2>4. CASE LegacyFetch(t)  BY <2>4 DEF LegacyFetch
  <2> QED  BY <1>2, <2>1, <2>2, <2>3, <2>4 DEF TaskStep
<1>3. CASE MonitorStep
  <2>1. CASE StartPeriod  BY <2>1 DEF StartPeriod
  <2>2. CASE ReadSize  BY <2>2 DEF ReadSize
  <2>10. CASE SkipSize  BY <2>10 DEF SkipSize
  <2>3. CASE ResetSize  BY <2>3 DEF ResetSize, SetInPlace, SetByAdding
  <2>4. CASE RunOptimizer  BY <2>4 DEF RunOptimizer
  <2>5. CASE NextDecision  BY <2>5 DEF NextDecision
  <2>6. CASE EndPeriod  BY <2>6 DEF EndPeriod
  <2>7. CASE Compare  BY <2>7 DEF Compare
  <2>8. CASE LogValues  BY <2>8 DEF LogValues
  <2>9. CASE MarkStep
    <3> USE DEF MarkDone, Applied, PutMark
    <3>1. CASE CallClosed  BY <3>1, NumServersAssumption DEF CallClosed, NumClose, OpenNow
    <3>2. CASE ClosedWrite  BY <3>2 DEF ClosedWrite
    <3>3. CASE MarkInsert  BY <3>3 DEF MarkInsert, Inserted
    <3>4. CASE CallOpen  BY <3>4 DEF CallOpen, OpenNow
    <3>5. CASE OpenCheckFound  BY <3>5 DEF OpenCheckFound
    <3>6. CASE OpenCheckMissed  BY <3>6 DEF OpenCheckMissed
    <3>7. CASE OpenZero  BY <3>7 DEF OpenZero
    <3>8. CASE OpenLess  BY <3>8 DEF OpenLess
    <3>9. CASE OpenRead  BY <3>9 DEF OpenRead
    <3>10. CASE OpenWrite  BY <3>10 DEF OpenWrite
    <3> QED  BY <2>9, <3>1, <3>2, <3>3, <3>4, <3>5, <3>6, <3>7, <3>8, <3>9, <3>10
             DEF MarkStep
  <2> QED  BY <1>3, <2>1, <2>2, <2>3, <2>4, <2>5, <2>6, <2>7, <2>8, <2>9, <2>10 DEF MonitorStep
<1>4. CASE UNCHANGED vars  BY <1>4 DEF vars
<1> QED  BY <1>1, <1>2, <1>3, <1>4 DEF Next

(* The maps and the locals of the threads keep their types, whatever the   *)
(* interleaving.                                                           *)
THEOREM TypeCorrect == Spec => []TypeOK
  BY InitTypeOK, NextTypeOK, PTL DEF Spec

--------------------------------------------------------------------------------
LEMMA NumCloseBound ==
  ASSUME NEW num \in Int, num <= NumServers
  PROVE  NumClose(num) \in Int /\ NumClose(num) <= NumServers - 1
  BY NumServersAssumption DEF NumClose

LEMMA InitPortsLeft == Init => PortsLeft
  BY NumServersAssumption DEF Init, PortsLeft, Threads

(* PortsLeft is inductive: what a thread is about to write was computed    *)
(* from a number that left a port open, or was capped by markServersClosed. *)
LEMMA NextPortsLeft == TypeOK /\ PortsLeft /\ [Next]_vars => PortsLeft'
<1> SUFFICES ASSUME TypeOK, PortsLeft, [Next]_vars PROVE PortsLeft'
    OBVIOUS
<1> USE NumServersAssumption, ThreadAssumption
    DEF TypeOK, PortsLeft, Threads, Goto, Forget, taskLocal, monitorLocal, history, sizes
<1>1. ASSUME NEW t \in Threads, GetStep(t) \/ InsertSize(t) PROVE PortsLeft'
  <2>1. CASE GetCheck(t)  BY <2>1 DEF GetCheck
  <2>2. CASE GetDefault(t)  BY <2>2 DEF GetDefault, MonitorLabels, TaskLabels, GetLabels
  <2>3. CASE GetInsert(t)  BY <2>3 DEF GetInsert, Inserted
  <2>4. CASE GetRead(t)  BY <2>4 DEF GetRead
  <2>5. CASE ReadThrows(t)  BY <2>5 DEF ReadThrows
  <2>6. CASE InsertSize(t)  BY <2>6 DEF InsertSize, SizeArrives, SizeIsLost
  <2> QED  BY <1>1, <2>1, <2>2, <2>3, <2>4, <2>5, <2>6 DEF GetStep
<1>2. ASSUME NEW t \in Tasks, TaskStep(t) PROVE PortsLeft'
  <2>1. CASE SendRequest(t)  BY <2>1 DEF SendRequest, SetInPlace, SetByAdding
  <2>2. CASE PickPort(t)  BY <2>2 DEF PickPort
  <2>3. CASE PickThrows(t)  BY <2>3 DEF PickThrows
  <2>4. CASE LegacyFetch(t)  BY <2>4 DEF LegacyFetch
  <2> QED  BY <1>2, <2>1, <2>2, <2>3, <2>4 DEF TaskStep
<1>3. CASE MonitorStep
  <2>1. CASE StartPeriod  BY <2>1 DEF StartPeriod
  <2>2. CASE ReadSize  BY <2>2 DEF ReadSize
  <2>10. CASE SkipSize  BY <2>10 DEF SkipSize
  <2>3. CASE ResetSize  BY <2>3 DEF ResetSize, SetInPlace, SetByAdding
  <2>4. CASE RunOptimizer  BY <2>4 DEF RunOptimizer
  <2>5. CASE NextDecision  BY <2>5 DEF NextDecision
  <2>6. CASE EndPeriod  BY <2>6 DEF EndPeriod
  <2>7. CASE Compare  BY <2>7 DEF Compare
  <2>8. CASE LogValues  BY <2>8 DEF LogValues
  <2>9. CASE MarkStep
    <3> USE DEF MarkDone, PutMark
    <3>1. CASE CallClosed
      <4>1. OpenNow - want \in Int
        BY DEF OpenNow
      <4> QED  BY <3>1, <4>1, NumCloseBound DEF CallClosed
    <3>2. CASE ClosedWrite  BY <3>2 DEF ClosedWrite
    <3>3. CASE MarkInsert  BY <3>3 DEF MarkInsert, Inserted
    <3>4. CASE CallOpen  BY <3>4 DEF CallOpen, OpenNow
    <3>5. CASE OpenCheckFound  BY <3>5 DEF OpenCheckFound
    <3>6. CASE OpenCheckMissed  BY <3>6 DEF OpenCheckMissed
    <3>7. CASE OpenZero  BY <3>7 DEF OpenZero
    <3>8. CASE OpenLess  BY <3>8 DEF OpenLess
    <3>9. CASE OpenRead  BY <3>9 DEF OpenRead
    <3>10. CASE OpenWrite  BY <3>10 DEF OpenWrite
    <3> QED  BY <2>9, <3>1, <3>2, <3>3, <3>4, <3>5, <3>6, <3>7, <3>8, <3>9, <3>10
             DEF MarkStep
  <2> QED  BY <1>3, <2>1, <2>2, <2>3, <2>4, <2>5, <2>6, <2>7, <2>8, <2>9, <2>10 DEF MonitorStep
<1>4. CASE UNCHANGED vars  BY <1>4 DEF vars
<1> QED  BY <1>1, <1>2, <1>3, <1>4 DEF Next

(* No interleaving of tasks and monitor, lost entry or stale default makes *)
(* the divisor with which a task spreads its blocks zero.                  *)
THEOREM DivisorNeverZero == Spec => []DivisorPositive
<1>1. TypeOK /\ PortsLeft => DivisorPositive
  BY NumServersAssumption DEF TypeOK, PortsLeft, DivisorPositive, Divisor, Threads
<1> QED  BY <1>1, InitTypeOK, NextTypeOK, InitPortsLeft, NextPortsLeft, PTL DEF Spec

--------------------------------------------------------------------------------
(* Once every host has an entry the lookups of the tasks only read, so the *)
(* monitor is the only writer and what it has read stays true until it     *)
(* writes.                                                                 *)
Marking == {"openCheck", "openZero", "openLess", "openRead", "openWrite"}
InLookup == pc[Monitor] \in {"check", "read", "got"}

WarmShape ==
  /\ entries = Hosts
  /\ \A t \in Threads : pc[t] \notin {"default", "insert", "insertMark"}
  /\ InLookup \/ pc[Monitor] \in Marking \cup {"closeWrite"} => want >= 1

(* What the tasks have read of a host whose number never was negative.     *)
WarmTasks ==
  \A t \in Tasks :
    /\ pc[t] = "got" /\ host[t] \notin inherited => seen[t] \in 0 .. NumServers - 1
    /\ pc[t] = "fallback" => host[t] \in inherited
WarmClosed == \A h \in Hosts \ inherited : closed[h] \in 0 .. NumServers - 1

(* What the monitor knows of such a host at each point of the decision     *)
(* loop.                                                                   *)
WarmMonitor ==
  LET now == closed[host[Monitor]] IN
  host[Monitor] \notin inherited =>
  /\ pc[Monitor] = "got" => seen[Monitor] = now
  /\ InLookup /\ stage = "close" => 8 - now > want
  /\ InLookup /\ stage \in {"log", "open"} => 8 - now <= want
  /\ pc[Monitor] = "closeWrite" =>
       val[Monitor] \in 0 .. (8 - want) /\ val[Monitor] <= NumServers - 1
  /\ pc[Monitor] \in Marking => val[Monitor] = want - (8 - now) /\ val[Monitor] >= 1
  /\ pc[Monitor] = "openRead" => now >= val[Monitor]
  /\ pc[Monitor] = "openWrite" => seen[Monitor] = now /\ now >= val[Monitor]

WarmApplied == NumServers = 8 => NeverBelowDecision

WarmInv == WarmShape /\ WarmTasks /\ WarmClosed /\ WarmMonitor /\ WarmApplied

LEMMA WarmInitInv == WarmInit => WarmInv
<1> SUFFICES ASSUME WarmInit PROVE WarmInv
    OBVIOUS
<1>1. \A h \in Hosts : closed[h] \in Int /\ closed[h] < NumServers
  BY DataAssumption DEF WarmInit
<1> QED
  BY <1>1, NumServersAssumption
  DEF WarmInit, WarmInv, WarmShape, WarmTasks, WarmClosed, WarmMonitor,
      WarmApplied, NeverBelowDecision, Threads, InLookup, Marking

LEMMA RemainderBound ==
  ASSUME NEW n \in Nat, NEW d \in Nat \ {0}
  PROVE  Remainder(n, d) < d
  BY DEF Remainder

LEMMA WarmPortFound ==
  ASSUME TypeOK, WarmTasks, NEW t \in Tasks, pc[t] = "got", host[t] \notin inherited
  PROVE  PortFound(t)
<1>1. Divisor(t) \in 1 .. NumServers
  BY NumServersAssumption DEF WarmTasks, Divisor, TypeOK, Threads
<1>2. blk[t] \in Nat
  BY DataAssumption DEF TypeOK
<1>3. Remainder(blk[t], Divisor(t)) < Divisor(t)
  BY <1>1, <1>2, RemainderBound
<1>4. Remainder(blk[t], Divisor(t)) \in Int
  BY <1>1, <1>2 DEF Remainder
<1> QED  BY <1>1, <1>3, <1>4, NumServersAssumption DEF PortFound

LEMMA WarmNextInv == TypeOK /\ WarmInv /\ [Next]_vars => WarmInv'
<1> SUFFICES ASSUME TypeOK, WarmInv, [Next]_vars PROVE WarmInv'
    OBVIOUS
<1> USE NumServersAssumption, ThreadAssumption, DataAssumption
    DEF TypeOK, WarmInv, WarmShape, WarmTasks, WarmClosed, WarmMonitor,
        WarmApplied, NeverBelowDecision, Threads, InLookup, Marking, Goto, Forget,
        taskLocal, monitorLocal, history, sizes
<1>0. \A t \in Threads : ~Resizing(t) /\ CanFind(t) /\ ~CanMiss(t)
  BY DEF Resizing, CanFind, CanMiss
<1>1. ASSUME NEW t \in Threads, GetStep(t) \/ InsertSize(t) PROVE WarmInv'
  <2>1. CASE GetCheck(t)  BY <1>0, <2>1 DEF GetCheck
  <2>2. CASE GetDefault(t)  BY <2>2 DEF GetDefault
  <2>3. CASE GetInsert(t)  BY <2>3 DEF GetInsert
  <2>4. CASE GetRead(t)  BY <2>4 DEF GetRead
  <2>5. CASE ReadThrows(t)  BY <1>0, <2>5 DEF ReadThrows
  <2>6. CASE InsertSize(t)  BY <2>6 DEF InsertSize, SizeArrives, SizeIsLost
  <2> QED  BY <1>1, <2>1, <2>2, <2>3, <2>4, <2>5, <2>6 DEF GetStep
<1>2. ASSUME NEW t \in Tasks, TaskStep(t) PROVE WarmInv'
  <2>1. CASE SendRequest(t)  BY <2>1 DEF SendRequest, SetInPlace, SetByAdding
  <2>2. CASE PickPort(t)  BY <2>2 DEF PickPort
  <2>3. CASE PickThrows(t)  BY <2>3, WarmPortFound DEF PickThrows
  <2>4. CASE LegacyFetch(t)  BY <2>4 DEF LegacyFetch
  <2> QED  BY <1>2, <2>1, <2>2, <2>3, <2>4 DEF TaskStep
<1>3. CASE MonitorStep
  <2>1. CASE StartPeriod  BY <2>1 DEF StartPeriod
  <2>2. CASE ReadSize  BY <2>2 DEF ReadSize
  <2>10. CASE SkipSize  BY <2>10 DEF SkipSize
  <2>3. CASE ResetSize  BY <2>3 DEF ResetSize, SetInPlace, SetByAdding
  <2>4. CASE RunOptimizer  BY <2>4 DEF RunOptimizer
  <2>5. CASE NextDecision  BY <2>5 DEF NextDecision
  <2>6. CASE EndPeriod  BY <2>6 DEF EndPeriod
  <2>7. CASE Compare  BY <2>7 DEF Compare, OpenNow
  <2>8. CASE LogValues  BY <2>8 DEF LogValues
  <2>9. CASE MarkStep
    <3> USE DEF MarkDone, Applied, PutMark
    <3>1. CASE CallClosed  BY <3>1 DEF CallClosed, NumClose, OpenNow
    <3>2. CASE ClosedWrite
      <4>1. /\ pc[Monitor] = "closeWrite"
            /\ closed' = [closed EXCEPT ![host[Monitor]] = val[Monitor]]
            /\ MarkDone
            /\ UNCHANGED <<entries, reqSize, host, seen, blk, toRead, pending,
                           stage, want, fresh, inherited>>
        BY <1>0, <3>2 DEF ClosedWrite
      <4>2. host[Monitor] \notin inherited =>
              val[Monitor] \in 0 .. (8 - want) /\ val[Monitor] <= NumServers - 1
        BY <4>1
      <4> HIDE DEF PutMark
      <4>3. CASE host[Monitor] \in inherited  BY <4>1, <4>3
      <4>4. CASE host[Monitor] \notin inherited  BY <4>1, <4>2, <4>4
      <4> QED  BY <4>3, <4>4
    <3>3. CASE MarkInsert  BY <3>3 DEF MarkInsert
    <3>4. CASE CallOpen  BY <3>4 DEF CallOpen, OpenNow
    <3>5. CASE OpenCheckFound  BY <3>5 DEF OpenCheckFound
    <3>6. CASE OpenCheckMissed  BY <1>0, <3>6 DEF OpenCheckMissed
    <3>7. CASE OpenZero  BY <3>7 DEF OpenZero
    <3>8. CASE OpenLess  BY <1>0, <3>8 DEF OpenLess
    <3>9. CASE OpenRead  BY <3>9 DEF OpenRead
    <3>10. CASE OpenWrite
      <4>1. /\ pc[Monitor] = "openWrite"
            /\ closed' = [closed EXCEPT ![host[Monitor]] = seen[Monitor] - val[Monitor]]
            /\ MarkDone
            /\ Forget(Monitor)
            /\ UNCHANGED <<entries, host, blk, stage, want, inherited>>
        BY <1>0, <3>10 DEF OpenWrite
      <4>2. host[Monitor] \notin inherited =>
              seen[Monitor] - val[Monitor] \in 0 .. (8 - want)
        BY <4>1
      <4> HIDE DEF PutMark
      <4>3. CASE host[Monitor] \in inherited  BY <4>1, <4>3
      <4>4. CASE host[Monitor] \notin inherited  BY <4>1, <4>2, <4>4
      <4> QED  BY <4>3, <4>4
    <3> QED  BY <2>9, <3>1, <3>2, <3>3, <3>4, <3>5, <3>6, <3>7, <3>8, <3>9, <3>10
             DEF MarkStep
  <2> QED  BY <1>3, <2>1, <2>2, <2>3, <2>4, <2>5, <2>6, <2>7, <2>8, <2>9, <2>10 DEF MonitorStep
<1>4. CASE UNCHANGED vars  BY <1>4 DEF vars
<1> QED  BY <1>1, <1>2, <1>3, <1>4 DEF Next

(* With every host known and 8 servers on each, the ports left open are    *)
(* never fewer than the optimizer's last decision, but on hosts that       *)
(* started with a negative number.  With fewer servers the monitor, which  *)
(* counts from 8, may close more than that.                                *)
THEOREM WarmDecisions ==
  ASSUME NumServers = 8
  PROVE  WarmSpec => []NeverBelowDecision
<1>1. TypeOK /\ WarmInv => NeverBelowDecision
  BY DEF WarmInv, WarmApplied
<1> QED  BY <1>1, WarmInitTypeOK, NextTypeOK, WarmInitInv, WarmNextInv, PTL DEF WarmSpec

(* With every host known, whatever numbers and second entries the first    *)
(* contact has left: every block of a request finds its port and no task   *)
(* re-fetches through the fallback, but for hosts that started with a      *)
(* negative number, and the monitor makes no further one negative.         *)
THEOREM WarmNoFallback == WarmSpec => []WarmNeverFallsBack
<1>1. TypeOK /\ WarmInv => WarmNeverFallsBack
  BY DEF WarmInv, WarmTasks, WarmNeverFallsBack
<1> QED  BY <1>1, WarmInitTypeOK, NextTypeOK, WarmInitInv, WarmNextInv, PTL DEF WarmSpec

--------------------------------------------------------------------------------
(* A size that would be reported is new, but for the one entry the monitor *)
(* has read and not yet reset, unless an entry of its host was lost or     *)
(* doubled.                                                                *)
Resetting(h) == pc[Monitor] \in {"reset", "insertSize"} /\ host[Monitor] = h
SizesFresh ==
  \A h \in Hosts : Reported(reqSize[h]) => fresh[h] \/ h \in torn \/ Resetting(h)

(* The monitor resets keys that are there, so that adding one anew doubles *)
(* it, and no size that is added is the 0 of a key that is not there.      *)
ResetsKeys == \A h \in Hosts : Resetting(h) => CanFindSize(h)
AddsSizes == \A t \in Threads : pc[t] = "insertSize" => val[t] # 0
SizesInv == SizesFresh /\ ResetsKeys /\ AddsSizes

LEMMA InitSizesInv == Init \/ WarmInit => SizesInv
  BY ThreadAssumption
  DEF Init, WarmInit, SizesInv, SizesFresh, ResetsKeys, AddsSizes, Reported, Resetting,
      CanFindSize, Threads

LEMMA NextSizesInv == TypeOK /\ SizesInv /\ [Next]_vars => SizesInv'
<1> SUFFICES ASSUME TypeOK, SizesInv, [Next]_vars PROVE SizesInv'
    OBVIOUS
<1> USE ThreadAssumption, DataAssumption
    DEF TypeOK, SizesInv, SizesFresh, ResetsKeys, AddsSizes, Reported, Resetting,
        CanFindSize, Threads, Goto, Forget, taskLocal, monitorLocal, history, sizes
<1>1. ASSUME NEW t \in Threads, GetStep(t) PROVE SizesInv'
  BY <1>1 DEF GetStep, GetCheck, GetDefault, GetInsert, GetRead, ReadThrows
<1>2. ASSUME NEW t \in Threads, InsertSize(t) PROVE SizesInv'
  <2>1. CASE SizeArrives(t)
    <3>1. reqSize' = [reqSize EXCEPT ![host[t]] = val[t]] /\ val[t] # 0
      BY <1>2, <2>1 DEF InsertSize, SizeArrives
    <3>2. /\ fresh' = [fresh EXCEPT ![host[t]] = @ \/ t \in Tasks]
          /\ CanFindSize(host[t]) => host[t] \in torn'
          /\ torn \subseteq torn'
      BY <1>2, <2>1 DEF InsertSize, SizeArrives
    <3>3. /\ host' = host
          /\ val' = [val EXCEPT ![t] = 0]
          /\ pc' = [pc EXCEPT ![t] = IF t = Monitor THEN "collect" ELSE "check"]
      BY <1>2 DEF InsertSize
    <3>4. t = Monitor => CanFindSize(host[t])
      BY <1>2 DEF InsertSize
    <3>5. CASE t = Monitor  BY <3>1, <3>2, <3>3, <3>4, <3>5
    <3>6. CASE t \in Tasks
      <4>1. t # Monitor /\ pc'[Monitor] = pc[Monitor] /\ host' = host
        BY <3>3, <3>6
      <4>2. fresh'[host[t]] /\ \A h \in Hosts : fresh[h] => fresh'[h]
        BY <3>2, <3>6
      <4>3. \A h \in Hosts : reqSize'[h] = IF h = host[t] THEN val[t] ELSE reqSize[h]
        BY <3>1
      <4>4. SizesFresh'  BY <3>2, <4>1, <4>2, <4>3
      <4>5. ResetsKeys'  BY <3>1, <4>1, <4>3
      <4>6. AddsSizes'  BY <3>3, <3>6
      <4> QED  BY <4>4, <4>5, <4>6
    <3> QED  BY <3>5, <3>6
  <2>2. CASE SizeIsLost(t)
    BY <1>2, <2>2 DEF InsertSize, SizeIsLost
  <2> QED  BY <1>2, <2>1, <2>2 DEF InsertSize
<1>3. ASSUME NEW t \in Tasks, TaskStep(t) PROVE SizesInv'
  <2>1. CASE SendRequest(t)
    BY <2>1 DEF SendRequest, SetInPlace, SetByAdding
  <2>2. CASE PickPort(t) \/ PickThrows(t) \/ LegacyFetch(t)
    BY <2>2 DEF PickPort, PickThrows, LegacyFetch
  <2> QED  BY <1>3, <2>1, <2>2 DEF TaskStep
<1>4. CASE MonitorStep
  <2>1. CASE StartPeriod \/ SkipSize \/ RunOptimizer
    BY <2>1 DEF StartPeriod, SkipSize, RunOptimizer
  <2>2. CASE ReadSize  BY <2>2 DEF ReadSize
  <2>3. CASE ResetSize  BY <2>3 DEF ResetSize, SetInPlace, SetByAdding
  <2>4. CASE NextDecision \/ EndPeriod \/ Compare \/ LogValues
    BY <2>4 DEF NextDecision, EndPeriod, Compare, LogValues
  <2>5. CASE MarkStep
    BY <2>5 DEF MarkStep, MarkDone, PutMark, CallClosed, ClosedWrite, MarkInsert, CallOpen,
                OpenCheckFound, OpenCheckMissed, OpenZero, OpenLess, OpenRead, OpenWrite
  <2> QED  BY <1>4, <2>1, <2>2, <2>3, <2>4, <2>5 DEF MonitorStep
<1>5. CASE UNCHANGED vars  BY <1>5 DEF vars
<1> QED  BY <1>1, <1>2, <1>3, <1>4, <1>5 DEF Next

(* From the first contact or from any state of known hosts: the optimizer  *)
(* sees each size a task sets at most once, although tasks set sizes       *)
(* between the read and the reset of an entry; but not where the unlocked  *)
(* map has lost or doubled an entry of the host.                           *)
THEOREM SizesReportedOnce == (Spec => ReportedOnce) /\ (WarmSpec => ReportedOnce)
<1> DEFINE Report == \A h \in Hosts :
      (pc[Monitor] = "collect" /\ pc'[Monitor] = "reset" /\ host'[Monitor] = h
         /\ Reported(reqSize[h])) => fresh[h] \/ h \in torn
<1>1. SizesInv /\ [Next]_vars => [Report]_vars
  BY DEF SizesInv, SizesFresh, Resetting
<1> QED  BY <1>1, InitSizesInv, InitTypeOK, WarmInitTypeOK, NextTypeOK, NextSizesInv, PTL
         DEF Spec, WarmSpec, ReportedOnce
================================================================================
