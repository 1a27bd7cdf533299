------------------------------ MODULE PortControl ------------------------------
(***************************************************************************)
(* How many of the shuffle server ports of a remote host a sender may use. *)
(*                                                                         *)
(* NettyBlockTransferService keeps two maps, markPortsClosed (host ->      *)
(* number of ports not to be used) and reqSize (host -> size of the last   *)
(* request).  Two kinds of threads share them with no lock: the tasks,     *)
(* which record the size of a request and then look up the closed ports    *)
(* once per block (ShuffleBlockFetcherIterator.sendRequest), and the       *)
(* WanBoostMonitor, which every period reads and resets the sizes, asks an *)
(* external optimizer and applies its decisions one host at a time.        *)
(*                                                                         *)
(* The maps are scala.collection.mutable.HashMap.  Storing under a key     *)
(* that is present changes one cell; adding a key may move the table, and  *)
(* a thread that uses the map meanwhile may miss an entry that is there    *)
(* (its lookup says "absent", its read throws, its store adds the key      *)
(* anew) or lose what it adds.  A key added twice has two entries: lookups *)
(* and stores find the later one, an iteration visits both.  One step      *)
(* below is one operation on a map, so the steps of a lookup or a store    *)
(* interleave with those of the other threads.  Left out: that a later     *)
(* move of the table turns two entries of a key over, and that two threads *)
(* which move it at once may loop in it for ever.                          *)
(***************************************************************************)
EXTENDS Integers

CONSTANTS
  Hosts,          \* remote hosts
  Tasks,          \* threads that run sendRequest
  Monitor,        \* the thread of the WanBoostMonitor
  NumServers,     \* transportConf.numServersPerHost
  Sizes,          \* sizes of requests
  Decisions,      \* numbers of ports the external optimizer may ask for
  StartNumbers,   \* numbers known hosts may hold when WarmSpec starts
  BlockIndexes    \* block indexes of a request at which its loop is observed

ASSUME NumServersAssumption == NumServers \in Nat \ {0}
ASSUME ThreadAssumption == Monitor \notin Tasks
ASSUME DataAssumption ==
  /\ Sizes \subseteq Nat \ {0}
  /\ Decisions \subseteq 1 .. 8      \* greedyApp hands out 1 .. CHANNELS_FACTOR
  /\ StartNumbers \subseteq {n \in Int : n < NumServers}
  /\ BlockIndexes \subseteq Nat
  /\ 0 \in BlockIndexes

Threads == Tasks \cup {Monitor}

VARIABLES
  entries,   \* hosts that are keys of markPortsClosed
  closed,    \* the value of markPortsClosed for those hosts
  reqSize,   \* the size a lookup of reqSize finds, 0 for a host that is not a key
  doubled,   \* hosts with a second entry in reqSize, which no lookup finds
  pc,        \* where each thread is
  host,      \* the host each thread works on
  seen,      \* what the thread last read from markPortsClosed
  val,       \* the number the operation of the thread is to store
  blk,       \* blkIndex of the splitting loop of each task
  toRead,    \* hosts whose entries of reqSize the monitor has not passed yet
  pending,   \* hosts of the decision not yet handled in this period
  stage,     \* which lookup of the decision loop the monitor is at
  want,      \* the decision for the current host
  applied,   \* history: the last decision fully applied to a host, or 0
  fresh,     \* history: a task has set the size since it was last reported
  torn,      \* history: hosts of which an entry of reqSize was lost or doubled
  inherited  \* history: hosts that started with a negative number

sizes        == <<reqSize, doubled, fresh, torn>>
taskLocal    == <<blk>>
monitorLocal == <<toRead, pending, stage, want>>
history      == <<applied, inherited>>

vars == <<entries, closed, sizes, pc, host, seen, val, taskLocal, monitorLocal,
          history>>

Goto(t, label) == pc' = [pc EXCEPT ![t] = label]

(* The number read last is a local that nobody uses again. *)
Forget(t) == seen' = [seen EXCEPT ![t] = 0]

(* A thread other than t is adding a key, so t may see the table half moved. *)
Resizing(t) == \E u \in Threads \ {t} : pc[u] \in {"insert", "insertMark"}

CanFind(t) == host[t] \in entries
CanMiss(t) == host[t] \notin entries \/ Resizing(t)

(* The same for reqSize. *)
ResizingSizes(t)   == \E u \in Threads \ {t} : pc[u] = "insertSize"
CanFindSize(h)     == reqSize[h] # 0
CanMissSize(t, h)  == reqSize[h] = 0 \/ ResizingSizes(t)

--------------------------------------------------------------------------------
(* getMarkPortsClosed(ipRef): is the key there, else store 0, then read.   *)

GetCheck(t) ==
  /\ pc[t] = "check"
  /\ \/ CanFind(t) /\ Goto(t, "read")
     \/ CanMiss(t) /\ Goto(t, "default")
  /\ UNCHANGED <<entries, closed, sizes, host, seen, val, taskLocal,
                 monitorLocal, history>>

GetDefault(t) ==
  /\ pc[t] = "default"
  /\ \/ CanFind(t) /\ closed' = [closed EXCEPT ![host[t]] = 0] /\ Goto(t, "read")
     \/ CanMiss(t) /\ UNCHANGED closed /\ Goto(t, "insert")
  /\ val' = [val EXCEPT ![t] = 0]
  /\ UNCHANGED <<entries, sizes, host, seen, taskLocal, monitorLocal, history>>

(* The entry arrives, or is lost to the insertion of another thread. *)
Inserted(t) ==
  \/ /\ entries' = entries \cup {host[t]}
     /\ closed' = [closed EXCEPT ![host[t]] = val[t]]
  \/ Resizing(t) /\ UNCHANGED <<entries, closed>>

GetInsert(t) ==
  /\ pc[t] = "insert"
  /\ Inserted(t)
  /\ Goto(t, "read")
  /\ UNCHANGED <<sizes, host, seen, val, taskLocal, monitorLocal, history>>

GetRead(t) ==
  /\ pc[t] = "read"
  /\ CanFind(t)
  /\ seen' = [seen EXCEPT ![t] = closed[host[t]]]
  /\ Goto(t, "got")
  /\ UNCHANGED <<entries, closed, sizes, host, val, taskLocal, monitorLocal,
                 history>>

ReadThrowsUncaught(t) ==      \* fault: run has no catch of its own
  /\ pc[t] \in {"read", "openZero", "openLess", "openRead"}
  /\ CanMiss(t)
  /\ Goto(t, "fallback")
  /\ UNCHANGED <<entries, closed, sizes, host, seen, val, taskLocal,
                 monitorLocal, history>>

(* Every read of a key is an apply(): it throws when the key is not found. *)
(* A task catches it and falls back to one fetch for all blocks; the       *)
(* monitor catches it at the end of run and gives up the period.           *)
ReadThrows(t) ==
  /\ pc[t] \in {"read", "openZero", "openLess", "openRead"}
  /\ CanMiss(t)
  /\ Goto(t, IF t = Monitor THEN "idle" ELSE "fallback")
  /\ UNCHANGED <<entries, closed, sizes, host, seen, val, taskLocal,
                 monitorLocal, history>>

--------------------------------------------------------------------------------
(* The tasks: sendRequest with WANBoost enabled.                           *)

(* setSize(h, n) of thread t: in place, which sets the size at once, or by *)
(* adding the key.                                                         *)
SetInPlace(h, n) == CanFindSize(h) /\ reqSize' = [reqSize EXCEPT ![h] = n]

SetByAdding(t, h, n) ==
  /\ CanMissSize(t, h)
  /\ val' = [val EXCEPT ![t] = n]
  /\ Goto(t, "insertSize")
  /\ UNCHANGED sizes

SendRequest(t) ==
  /\ pc[t] = "idle"
  /\ \E h \in Hosts, size \in Sizes :
       /\ host' = [host EXCEPT ![t] = h]
       /\ \/ /\ SetInPlace(h, size)
             /\ fresh' = [fresh EXCEPT ![h] = TRUE]
             /\ Goto(t, "check")
             /\ UNCHANGED <<doubled, torn, val>>
          \/ SetByAdding(t, h, size)
  /\ blk' = [blk EXCEPT ![t] = 0]
  /\ UNCHANGED <<entries, closed, seen, monitorLocal, history>>

(* The new entry arrives, on top of the one that is there if the key was   *)
(* missed or added meanwhile, or it is lost to another insertion.          *)
SizeArrives(t) ==
  /\ reqSize' = [reqSize EXCEPT ![host[t]] = val[t]]
  /\ IF CanFindSize(host[t])
     THEN doubled' = doubled \cup {host[t]} /\ torn' = torn \cup {host[t]}
     ELSE UNCHANGED <<doubled, torn>>
  /\ fresh' = [fresh EXCEPT ![host[t]] = @ \/ t \in Tasks]

SizeIsLost(t) ==
  /\ ResizingSizes(t)
  /\ torn' = torn \cup {host[t]}
  /\ UNCHANGED <<reqSize, doubled, fresh>>

InsertSize(t) ==
  /\ pc[t] = "insertSize"
  /\ SizeArrives(t) \/ SizeIsLost(t)
  /\ val' = [val EXCEPT ![t] = 0]
  /\ Goto(t, IF t = Monitor THEN "collect" ELSE "check")
  /\ UNCHANGED <<entries, closed, host, seen, taskLocal, monitorLocal, history>>

Divisor(t)   == NumServers - seen[t]
(* portArrs(blkIndex % (portArrs.length - closed)): a divisor of zero and  *)
(* an index past the array both throw.  The remainder of a JVM integer     *)
(* division ignores the sign of the divisor.                               *)
Remainder(n, d) == n % (IF d < 0 THEN -d ELSE d)
PortFound(t) == Divisor(t) # 0 /\ Remainder(blk[t], Divisor(t)) < NumServers

(* One more iteration of the loop, at this block or, when those between    *)
(* find their ports and change nothing, at a later one; or the loop ends.  *)
PickPort(t) ==
  /\ pc[t] = "got"
  /\ PortFound(t)
  /\ \/ \E k \in BlockIndexes : /\ k > blk[t]
                                /\ blk' = [blk EXCEPT ![t] = k]
                                /\ Goto(t, "check")
     \/ blk' = [blk EXCEPT ![t] = 0] /\ Goto(t, "idle")
  /\ Forget(t)
  /\ UNCHANGED <<entries, closed, sizes, host, val, monitorLocal, history>>

PickThrows(t) ==
  /\ pc[t] = "got"
  /\ ~PortFound(t)
  /\ Goto(t, "fallback")
  /\ Forget(t)
  /\ UNCHANGED <<entries, closed, sizes, host, val, taskLocal,
                 monitorLocal, history>>

LegacyFetch(t) ==
  /\ pc[t] = "fallback"
  /\ Goto(t, "idle")
  /\ blk' = [blk EXCEPT ![t] = 0]
  /\ UNCHANGED <<entries, closed, sizes, host, seen, val, monitorLocal, history>>

--------------------------------------------------------------------------------
(* The monitor: Command.run.                                               *)

StartPeriod ==
  /\ pc[Monitor] = "idle"
  /\ toRead' = Hosts
  /\ Goto(Monitor, "collect")
  /\ UNCHANGED <<entries, closed, sizes, host, seen, val, taskLocal, pending,
                 stage, want, history>>

(* The size of an entry goes to the optimizer when it is above 1000.       *)
Reported(size) == size > 1000

(* The next entry: its size is taken along with its key.  Of the size in a *)
(* second entry nothing is known but that some thread has set it.          *)
SizesOf(h) == {reqSize[h]} \cup (IF h \in doubled THEN Sizes \cup {1} ELSE {})

ReadSize ==
  /\ pc[Monitor] = "collect"
  /\ \E h \in toRead :
       /\ CanFindSize(h)
       /\ host' = [host EXCEPT ![Monitor] = h]
       /\ \E size \in SizesOf(h) :
            fresh' = [fresh EXCEPT ![h] = @ /\ ~Reported(size)]
       /\ \/ toRead' = toRead \ {h}
          \/ h \in doubled /\ UNCHANGED toRead
  /\ Goto(Monitor, "reset")
  /\ UNCHANGED <<entries, closed, reqSize, doubled, torn, seen, val, taskLocal,
                 pending, stage, want, history>>

(* Entries the iterator passes by because the table moves. *)
SkipSize ==
  /\ pc[Monitor] = "collect"
  /\ ResizingSizes(Monitor)
  /\ \E h \in toRead : toRead' = toRead \ {h}
  /\ UNCHANGED <<entries, closed, sizes, pc, host, seen, val, taskLocal, pending,
                 stage, want, history>>

ForgetReset ==                 \* fault: the size stays after it was read
  /\ pc[Monitor] = "reset"
  /\ Goto(Monitor, "collect")
  /\ UNCHANGED <<entries, closed, sizes, host, seen, val, taskLocal, monitorLocal,
                 history>>

ResetSize ==
  /\ pc[Monitor] = "reset"
  /\ \/ /\ SetInPlace(host[Monitor], 1)
        /\ Goto(Monitor, "collect")
        /\ UNCHANGED <<doubled, fresh, torn, val>>
     \/ SetByAdding(Monitor, host[Monitor], 1)
  /\ UNCHANGED <<entries, closed, host, seen, taskLocal, monitorLocal, history>>

(* The optimizer answers with any hosts, or fails and the period is over.  *)
RunOptimizer ==
  /\ pc[Monitor] = "collect"
  /\ \A h \in toRead : ~CanFindSize(h)
  /\ toRead' = {}
  /\ \/ pending' \in SUBSET Hosts /\ Goto(Monitor, "decide")
     \/ UNCHANGED pending /\ Goto(Monitor, "idle")
  /\ UNCHANGED <<entries, closed, sizes, host, seen, val, taskLocal, stage, want,
                 history>>

NextDecision ==
  /\ pc[Monitor] = "decide"
  /\ \E h \in pending, v \in Decisions :
       /\ host' = [host EXCEPT ![Monitor] = h]
       /\ want' = v
       /\ pending' = pending \ {h}
  /\ stage' = "compare"
  /\ Goto(Monitor, "check")
  /\ UNCHANGED <<entries, closed, sizes, seen, val, taskLocal, toRead, history>>

EndPeriod ==
  /\ pc[Monitor] = "decide"
  /\ pending = {}
  /\ Goto(Monitor, "idle")
  /\ UNCHANGED <<entries, closed, sizes, host, seen, val, taskLocal,
                 monitorLocal, history>>

(* "8" is a literal in the monitor, whatever numServersPerHost is.         *)
OpenNow == 8 - seen[Monitor]

Compare ==
  /\ pc[Monitor] = "got"
  /\ stage = "compare"
  /\ stage' = IF OpenNow > want THEN "close" ELSE "log"
  /\ Goto(Monitor, "check")
  /\ Forget(Monitor)
  /\ UNCHANGED <<entries, closed, sizes, host, val, taskLocal, toRead,
                 pending, want, history>>

(* The warning before markServersOpen looks the number up once more. *)
LogValues ==
  /\ pc[Monitor] = "got"
  /\ stage = "log"
  /\ stage' = "open"
  /\ Goto(Monitor, "check")
  /\ Forget(Monitor)
  /\ UNCHANGED <<entries, closed, sizes, host, val, taskLocal, toRead,
                 pending, want, history>>

Applied == applied' = [applied EXCEPT ![host[Monitor]] = want]
MarkDone ==
  /\ Goto(Monitor, "decide")
  /\ Applied
  /\ val' = [val EXCEPT ![Monitor] = 0]

(* A mark operation stores n: in place, or by adding the key. *)
PutMark(n) ==
  \/ CanFind(Monitor) /\ closed' = [closed EXCEPT ![host[Monitor]] = n] /\ MarkDone
  \/ /\ CanMiss(Monitor)
     /\ val' = [val EXCEPT ![Monitor] = n]
     /\ Goto(Monitor, "insertMark")
     /\ UNCHANGED <<closed, applied>>

CloseAll(num) == num           \* fault: closes every server

(* markServersClosed(key, num): never all of the servers. *)
NumClose(num) == IF num = NumServers THEN num - 1 ELSE num

CallClosed ==
  /\ pc[Monitor] = "got"
  /\ stage = "close"
  /\ LET num == OpenNow - want
     IN IF num <= NumServers
        THEN /\ val' = [val EXCEPT ![Monitor] = NumClose(num)]
             /\ Goto(Monitor, "closeWrite")
             /\ UNCHANGED applied
        ELSE MarkDone
  /\ Forget(Monitor)
  /\ UNCHANGED <<entries, closed, sizes, host, taskLocal, monitorLocal,
                 inherited>>

ClosedWrite ==
  /\ pc[Monitor] = "closeWrite"
  /\ PutMark(val[Monitor])
  /\ UNCHANGED <<entries, sizes, host, seen, taskLocal, monitorLocal, inherited>>

MarkInsert ==
  /\ pc[Monitor] = "insertMark"
  /\ Inserted(Monitor)
  /\ MarkDone
  /\ UNCHANGED <<sizes, host, seen, taskLocal, monitorLocal, inherited>>

(* markServersOpen(key, num): the map is read anew in every condition.     *)
CallOpen ==
  /\ pc[Monitor] = "got"
  /\ stage = "open"
  /\ LET num == want - OpenNow
     IN IF num > 0 /\ num < 20
        THEN /\ val' = [val EXCEPT ![Monitor] = num]
             /\ Goto(Monitor, "openCheck")
             /\ UNCHANGED applied
        ELSE MarkDone
  /\ Forget(Monitor)
  /\ UNCHANGED <<entries, closed, sizes, host, taskLocal, monitorLocal,
                 inherited>>

OpenCheckFound ==
  /\ pc[Monitor] = "openCheck"
  /\ CanFind(Monitor)
  /\ Goto(Monitor, "openZero")
  /\ UNCHANGED <<entries, closed, sizes, host, seen, val, taskLocal,
                 monitorLocal, history>>

(* "Initial call": the key is set to 0. *)
OpenCheckMissed ==
  /\ pc[Monitor] = "openCheck"
  /\ CanMiss(Monitor)
  /\ PutMark(0)
  /\ UNCHANGED <<entries, sizes, host, seen, taskLocal, monitorLocal, inherited>>

OpenZero ==
  /\ pc[Monitor] = "openZero"
  /\ CanFind(Monitor)
  /\ IF closed[host[Monitor]] = 0
     THEN MarkDone
     ELSE Goto(Monitor, "openLess") /\ UNCHANGED <<applied, val>>
  /\ UNCHANGED <<entries, closed, sizes, host, seen, taskLocal,
                 monitorLocal, inherited>>

OpenLess ==
  /\ pc[Monitor] = "openLess"
  /\ CanFind(Monitor)
  /\ IF closed[host[Monitor]] < val[Monitor]
     THEN PutMark(0)
     ELSE Goto(Monitor, "openRead") /\ UNCHANGED <<closed, applied, val>>
  /\ UNCHANGED <<entries, sizes, host, seen, taskLocal, monitorLocal, inherited>>

OpenRead ==
  /\ pc[Monitor] = "openRead"
  /\ CanFind(Monitor)
  /\ seen' = [seen EXCEPT ![Monitor] = closed[host[Monitor]]]
  /\ Goto(Monitor, "openWrite")
  /\ UNCHANGED <<entries, closed, sizes, host, val, taskLocal, monitorLocal,
                 history>>

OpenAdds ==                    \* fault: the resumed ports are added
  /\ pc[Monitor] = "openWrite"
  /\ PutMark(seen[Monitor] + val[Monitor])
  /\ Forget(Monitor)
  /\ UNCHANGED <<entries, sizes, host, taskLocal, monitorLocal, inherited>>

OpenWrite ==
  /\ pc[Monitor] = "openWrite"
  /\ PutMark(seen[Monitor] - val[Monitor])
  /\ Forget(Monitor)
  /\ UNCHANGED <<entries, sizes, host, taskLocal, monitorLocal, inherited>>

--------------------------------------------------------------------------------
(* init creates both maps empty and starts the monitor. *)
Init ==
  /\ entries = {}
  /\ closed = [h \in Hosts |-> 0]
  /\ reqSize = [h \in Hosts |-> 0]
  /\ doubled = {}
  /\ pc = [t \in Threads |-> "idle"]
  /\ host \in {[t \in Threads |-> h] : h \in Hosts}
  /\ seen = [t \in Threads |-> 0]
  /\ val = [t \in Threads |-> 0]
  /\ blk = [t \in Tasks |-> 0]
  /\ toRead = {}
  /\ pending = {}
  /\ stage = "compare"
  /\ want = 0
  /\ applied = [h \in Hosts |-> 0]
  /\ fresh = [h \in Hosts |-> FALSE]
  /\ torn = {}
  /\ inherited = {}

(* A state in which every host is a key of both maps and nobody is busy.   *)
(* The race of the first contact may have left any number below NumServers *)
(* in markPortsClosed, a negative one included (a late default of 0 between *)
(* OpenLess and OpenRead), and second entries in reqSize.                  *)
WarmInit ==
  /\ entries = Hosts
  /\ closed \in [Hosts -> StartNumbers]
  /\ reqSize = [h \in Hosts |-> 1]
  /\ doubled \in SUBSET Hosts
  /\ pc = [t \in Threads |-> "idle"]
  /\ host \in {[t \in Threads |-> h] : h \in Hosts}
  /\ seen = [t \in Threads |-> 0]
  /\ val = [t \in Threads |-> 0]
  /\ blk = [t \in Tasks |-> 0]
  /\ toRead = {}
  /\ pending = {}
  /\ stage = "compare"
  /\ want = 0
  /\ applied = [h \in Hosts |-> 0]
  /\ fresh = [h \in Hosts |-> FALSE]
  /\ torn = doubled
  /\ inherited = {h \in Hosts : closed[h] < 0}

GetStep(t) ==
  GetCheck(t) \/ GetDefault(t) \/ GetInsert(t) \/ GetRead(t) \/ ReadThrows(t)

TaskStep(t) == SendRequest(t) \/ PickPort(t) \/ PickThrows(t) \/ LegacyFetch(t)

MarkStep ==
  \/ CallClosed \/ ClosedWrite \/ MarkInsert
  \/ CallOpen \/ OpenCheckFound \/ OpenCheckMissed
  \/ OpenZero \/ OpenLess \/ OpenRead \/ OpenWrite

MonitorStep ==
  \/ StartPeriod \/ ReadSize \/ SkipSize \/ ResetSize \/ RunOptimizer
  \/ NextDecision \/ EndPeriod \/ Compare \/ LogValues
  \/ MarkStep

Next ==
  \/ \E t \in Threads : GetStep(t) \/ InsertSize(t)
  \/ \E t \in Tasks : TaskStep(t)
  \/ MonitorStep

Spec     == Init /\ [][Next]_vars
WarmSpec == WarmInit /\ [][Next]_vars

--------------------------------------------------------------------------------
GetLabels  == {"check", "default", "insert", "read", "got"}
TaskLabels == GetLabels \cup {"idle", "insertSize", "fallback"}
MonitorLabels ==
  GetLabels \cup {"idle", "collect", "reset", "insertSize", "decide", "closeWrite", "insertMark",
                  "openCheck", "openZero", "openLess", "openRead", "openWrite"}

(* Every variable has its type; nothing is said yet of the numbers. *)
TypeOK ==
  /\ entries \subseteq Hosts
  /\ closed \in [Hosts -> Int]
  /\ reqSize \in [Hosts -> Int]
  /\ doubled \subseteq Hosts
  /\ pc \in [Threads -> TaskLabels \cup MonitorLabels]
  /\ \A t \in Tasks : pc[t] \in TaskLabels
  /\ pc[Monitor] \in MonitorLabels
  /\ host \in [Threads -> Hosts]
  /\ seen \in [Threads -> Int]
  /\ val \in [Threads -> Int]
  /\ blk \in [Tasks -> BlockIndexes]
  /\ toRead \subseteq Hosts
  /\ pending \subseteq Hosts
  /\ stage \in {"compare", "close", "log", "open"}
  /\ want \in 0 .. 8
  /\ applied \in [Hosts -> 0 .. 8]
  /\ fresh \in [Hosts -> BOOLEAN]
  /\ torn \subseteq Hosts
  /\ inherited \subseteq Hosts

(* However the lookups of the tasks and the writes of the monitor          *)
(* interleave, a task never divides by zero when it spreads its blocks     *)
(* over the ports: at least one port is left (markServersClosed closes one *)
(* less than all), even when an entry was lost or overwritten.             *)
DivisorPositive == \A t \in Tasks : pc[t] = "got" => Divisor(t) >= 1

(* The monitor passes a size to the optimizer at most once: between two    *)
(* reports of a host a task has set its size again, although tasks set it  *)
(* between the read and the reset.  What a lost or a doubled entry does    *)
(* is excepted: a reset that is lost leaves the size to be read again, and *)
(* the size in a second entry, which no reset reaches, is reported in      *)
(* every period.                                                           *)
ReportedOnce ==
  [][\A h \in Hosts :
       (pc[Monitor] = "collect" /\ pc'[Monitor] = "reset" /\ host'[Monitor] = h
          /\ Reported(reqSize[h])) => fresh[h] \/ h \in torn]_vars

(* Once every host is known, the monitor never leaves a host with fewer    *)
(* ports than the optimizer last allowed, although it computes the number  *)
(* to close from a lookup it made earlier and the service overwrites       *)
(* instead of adding.  A host that came out of the first contact with a    *)
(* negative number is excepted (the next decision closes too many of its   *)
(* ports), and the number of servers has to be the literal 8 of the        *)
(* monitor: with fewer it closes too many.                                 *)
NeverBelowDecision ==
  \A h \in Hosts \ inherited : applied[h] # 0 => NumServers - closed[h] >= applied[h]

(* Once every host is known, the split of a request ends in the fallback,  *)
(* which fetches again what the split had already requested, only on a     *)
(* host that came out of the first contact with a negative number: no new  *)
(* one arises and every block index finds its port.                        *)
WarmNeverFallsBack == \A t \in Tasks : pc[t] = "fallback" => host[t] \in inherited
================================================================================
