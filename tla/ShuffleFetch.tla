------------------------------ MODULE ShuffleFetch -----------------------------
(***************************************************************************)
(* ShuffleBlockFetcherIterator: one task fetches the blocks of a shuffle   *)
(* from many executors, within limits on the bytes, requests and blocks    *)
(* per address in flight.                                                  *)
(*                                                                         *)
(* The task thread runs initialize, next, fetchUpToMaxBytes and, when the  *)
(* task completes, cleanup.  The callbacks of the network, and of the      *)
(* local external storage (Redis or Wiera) that is asked first, run on     *)
(* other threads at any time; they meet the task in the queue results and, *)
(* under the lock of the iterator, in isZombie and remainingBlocks.  All   *)
(* other variables belong to the task thread, so a step of it is one       *)
(* iteration of a loop, not one statement.                                 *)
(*                                                                         *)
(* Buffers are the network's and the local ones; what the external storage *)
(* hands over is not reference counted by the iterator and has number 0.   *)
(***************************************************************************)
EXTENDS Integers, FiniteSets, Sequences, SequencesExt

CONSTANTS
  BlocksByAddress,  \* sequence of <<address, sequence of [id, size]>>
  Local,            \* blockManager.blockManagerId
  None,
  MaxBytes,         \* maxBytesInFlight
  MaxReqs,          \* maxReqsInFlight
  MaxBlocks,        \* maxBlocksInFlightPerAddress
  External,         \* blocks the external storage may have a copy of
  MayCorrupt,       \* blocks that may arrive corrupt
  Faults,           \* which calls out of the iterator may fail, see below
  KeepsOpen         \* the caller calls next with a stream still open

(* "fetch": the network or storage reports a failure.  "local": a local    *)
(* block cannot be read.  "stream": createInputStream throws on a local    *)
(* block.  "wrap": streamWrapper throws.  "storage": a call to the         *)
(* external storage throws.  "split": the loop that submits the blocks of  *)
(* a request one by one throws (see ReadThrows of PortControl); then all   *)
(* its blocks are submitted again, and BlockFetchSpec, AddressLimited and  *)
(* TypeOK fail.  "kill": the thread is interrupted in results.take().      *)
ASSUME FaultAssumption ==
  Faults \subseteq {"fetch", "local", "stream", "wrap", "storage", "split", "kill"}
ASSUME LimitAssumption ==
  MaxBytes \in Nat \ {0} /\ MaxReqs \in Nat \ {0} /\ MaxBlocks \in Nat \ {0}
ASSUME KeepsOpenAssumption == KeepsOpen \in BOOLEAN

Entries   == ToSet(BlocksByAddress)
Addresses == {e[1] : e \in Entries} \cup {Local}
Blocks    == UNION {ToSet(e[2]) : e \in Entries}

(* The map output tracker names an address once, with all its blocks, and  *)
(* a block is the output of one map task at one address.  A negative size  *)
(* ends the construction of the iterator.                                  *)
ASSUME BlocksAssumption ==
  /\ BlocksByAddress \in Seq(Addresses \X Seq([id : {b.id : b \in Blocks}, size : Nat]))
  /\ \A i, j \in DOMAIN BlocksByAddress :
       BlocksByAddress[i][1] = BlocksByAddress[j][1] => i = j
  /\ \A d, e \in Entries : \A i \in DOMAIN d[2], j \in DOMAIN e[2] :
       d[2][i].id = e[2][j].id => d = e /\ i = j
ASSUME NoneAssumption == None \notin Addresses

VARIABLES
  pc,             \* where the task thread is
  then,           \* where it goes on after fetchUpToMaxBytes
  fetchRequests,  \* Queue of requests [addr, blocks]
  deferred,       \* deferredFetchRequests, <<>> for an address that is no key
  scan, at,       \* addresses left, and the one visited, in the loop over them
  bytesInFlight, reqsInFlight,
  nipa,           \* numBlocksInFlightPerAddress
  corrupted,      \* corruptedBlocks
  localTodo,      \* localBlocks not yet fetched
  numProcessed,   \* numBlocksProcessed
  taken,          \* the result next is working on, or None
  current,        \* currentResult.buf, or 0
  delivered,      \* what next returned: sequence of [id, buf]
  open,           \* indexes in delivered of the streams not yet closed
  isZombie,
  results,        \* LinkedBlockingQueue of FetchResult
  remaining,      \* remainingBlocks of each request sent
  calls,          \* fetches submitted and not yet answered
  refs            \* references the iterator holds on each buffer

taskQueues == <<fetchRequests, deferred>>
loops      == <<scan, at>>
flight     == <<bytesInFlight, reqsInFlight, nipa>>
caller     == <<numProcessed, delivered, open>>
shared     == <<isZombie, results, remaining, calls, refs>>
vars == <<pc, then, taskQueues, loops, flight, corrupted, localTodo, taken,
          current, caller, shared>>

--------------------------------------------------------------------------------
(* splitLocalRemoteBlocks.                                                 *)

SizeOf(blocks) == MapThenSumSet(LAMBDA b : b.size, blocks)
TargetRequestSize == IF MaxBytes \div 5 > 1 THEN MaxBytes \div 5 ELSE 1

IsLocal(e) == e[1] = Local

(* blockInfos.filter(_._2 != 0) *)
NonEmpty(infos) ==
  LET kept[k \in 0 .. Len(infos)] ==
        IF k = 0 THEN <<>>
        ELSE IF infos[k].size = 0 THEN kept[k - 1] ELSE Append(kept[k - 1], infos[k])
  IN kept[Len(infos)]

(* Cut the blocks of one address where a request is big enough: the        *)
(* requests made, and the blocks left over, after the first k blocks.      *)
CutRequests(addr, infos) ==
  LET Request(blocks) == [addr |-> addr, blocks |-> blocks]
      Full(blocks) == \/ SizeOf(blocks) >= TargetRequestSize
                      \/ Cardinality(blocks) >= MaxBlocks
      cut[k \in 0 .. Len(infos)] ==
        IF k = 0 THEN [made |-> {}, cur |-> {}]
        ELSE IF infos[k].size = 0 THEN cut[k - 1]
        ELSE LET blocks == cut[k - 1].cur \cup {infos[k]}
             IN IF Full(blocks)
                THEN [made |-> cut[k - 1].made \cup {Request(blocks)}, cur |-> {}]
                ELSE [made |-> cut[k - 1].made, cur |-> blocks]
      last == cut[Len(infos)]
  IN IF last.cur = {} THEN last.made ELSE last.made \cup {Request(last.cur)}

RemoteRequests == UNION {CutRequests(e[1], e[2]) : e \in {e \in Entries : ~IsLocal(e)}}
LocalBlocks ==
  IF \E e \in Entries : IsLocal(e)
  THEN NonEmpty((CHOOSE e \in Entries : IsLocal(e))[2]) ELSE <<>>

ToFetch == {b.id : b \in {b \in Blocks : b.size # 0}}
NumBlocksToFetch == Cardinality(ToFetch)
HasNext == numProcessed < NumBlocksToFetch

--------------------------------------------------------------------------------
(* Buffers and results.                                                    *)

Release(buf) == IF buf = 0 THEN refs ELSE [refs EXCEPT ![buf] = @ - 1]

Success(block, addr, size, buf, req, done, kind) ==
  [ok |-> TRUE, id |-> block, addr |-> addr, size |-> size, buf |-> buf,
   req |-> req, done |-> done, kind |-> kind]
Failure(block, addr, size, req, kind) ==
  [ok |-> FALSE, id |-> block, addr |-> addr, size |-> size, buf |-> 0,
   req |-> req, done |-> FALSE, kind |-> kind]

(* Fetches of `blocks`, numbered from n + 1: a network fetch has the       *)
(* buffer of its number, a storage fetch has none.                         *)
NewCalls(kind, n, req, addr, blocks) ==
  LET order == SetToSeq(blocks)
  IN {[num |-> n + i, kind |-> kind, req |-> req, addr |-> addr,
       id |-> order[i].id, size |-> order[i].size] : i \in 1 .. Len(order)}

--------------------------------------------------------------------------------
(* send: ask the external storage, then request the rest.                  *)

(* The subsets of a request's blocks the storage may turn out to have; it  *)
(* has nothing under the key of the local executor.                        *)
Hits(r) == IF r.addr = Local THEN {{}}
           ELSE SUBSET {b \in r.blocks : b.id \in External}

(* What sendRequest submits: one fetch per block, on the ports of the      *)
(* address.  If that loop throws after the blocks of `part`, all blocks    *)
(* are submitted again in one fetch on one port.                           *)
Submissions(blocks) ==
  {<<{}, blocks>>} \cup
  (IF "split" \in Faults THEN {<<part, blocks>> : part \in SUBSET blocks \ {blocks}}
   ELSE {})

Answered == Len(refs)     \* numbers given to fetches so far

(* The request goes out and the counters of the task follow. *)
Send(r) ==
  \E hits \in Hits(r) :
    LET rest   == r.blocks \ hits
        req    == Len(remaining) + 1
        stored == NewCalls("storage", Answered, 0, Local, hits)
        n      == Answered + Cardinality(hits)
    IN IF rest = {}
       THEN /\ calls' = calls \cup stored
            /\ refs' = refs \o [i \in 1 .. Cardinality(hits) |-> 0]
            /\ UNCHANGED <<flight, remaining>>
       ELSE \E s \in Submissions(rest) :
              LET m == n + Cardinality(s[1]) IN
              /\ calls' = calls \cup stored
                                \cup NewCalls("network", n, req, r.addr, s[1])
                                \cup NewCalls("network", m, req, r.addr, s[2])
              /\ refs' = refs \o [i \in 1 .. (Cardinality(hits) + Cardinality(s[1])
                                              + Cardinality(s[2])) |-> 0]
              /\ remaining' = Append(remaining, {b.id : b \in rest})
              /\ bytesInFlight' = bytesInFlight + SizeOf(rest)
              /\ reqsInFlight' = reqsInFlight + 1
              /\ nipa' = [nipa EXCEPT ![r.addr] = @ + Cardinality(r.blocks)]

FetchableBefore(queue) ==       \* fault: looks only at what is out already
  /\ queue # <<>>
  /\ bytesInFlight <= MaxBytes /\ reqsInFlight + 1 <= MaxReqs

Fetchable(queue) ==
  /\ queue # <<>>
  /\ \/ bytesInFlight = 0
     \/ /\ reqsInFlight + 1 <= MaxReqs
        /\ bytesInFlight + SizeOf(Head(queue).blocks) <= MaxBytes

MaxedOutBefore(r) == nipa[r.addr] >= MaxBlocks    \* fault: same, per address
MaxedOut(r) == nipa[r.addr] + Cardinality(r.blocks) > MaxBlocks

--------------------------------------------------------------------------------
(* fetchUpToMaxBytes: the deferred requests first, address by address.     *)

EnterFetch(next) ==
  /\ pc' = "deferred"
  /\ then' = next
  /\ scan' = {a \in Addresses : deferred[a] # <<>>}
  /\ at' = None

DeferredReady == Fetchable(deferred[at]) /\ ~MaxedOut(Head(deferred[at]))

VisitDeferred ==
  /\ pc = "deferred" /\ at = None
  /\ \E a \in scan : at' = a /\ scan' = scan \ {a}
  /\ UNCHANGED <<pc, then, taskQueues, flight, corrupted, localTodo, taken,
                 current, caller, shared>>

SendDeferred ==
  /\ pc = "deferred" /\ at # None
  /\ DeferredReady
  /\ Send(Head(deferred[at]))
  /\ deferred' = [deferred EXCEPT ![at] = Tail(@)]
  /\ UNCHANGED <<pc, then, fetchRequests, loops, corrupted, localTodo, taken,
                 current, caller, isZombie, results>>

LeaveDeferred ==
  /\ pc = "deferred" /\ at # None
  /\ ~DeferredReady
  /\ at' = None
  /\ UNCHANGED <<pc, then, taskQueues, scan, flight, corrupted, localTodo, taken,
                 current, caller, shared>>

EndDeferred ==
  /\ pc = "deferred" /\ at = None /\ scan = {}
  /\ pc' = "regular"
  /\ UNCHANGED <<then, taskQueues, loops, flight, corrupted, localTodo, taken,
                 current, caller, shared>>

DeferRegular ==
  /\ pc = "regular"
  /\ Fetchable(fetchRequests)
  /\ LET r == Head(fetchRequests)
     IN /\ MaxedOut(r)
        /\ deferred' = [deferred EXCEPT ![r.addr] = Append(@, r)]
  /\ fetchRequests' = Tail(fetchRequests)
  /\ UNCHANGED <<pc, then, loops, flight, corrupted, localTodo, taken, current,
                 caller, shared>>

SendRegular ==
  /\ pc = "regular"
  /\ Fetchable(fetchRequests)
  /\ ~MaxedOut(Head(fetchRequests))
  /\ Send(Head(fetchRequests))
  /\ fetchRequests' = Tail(fetchRequests)
  /\ UNCHANGED <<pc, then, deferred, loops, corrupted, localTodo, taken, current,
                 caller, isZombie, results>>

EndFetch ==
  /\ pc = "regular"
  /\ ~Fetchable(fetchRequests)
  /\ pc' = then
  /\ UNCHANGED <<then, taskQueues, loops, flight, corrupted, localTodo, taken,
                 current, caller, shared>>

(* The request that is about to be sent, if any. *)
Sending ==
  IF pc = "deferred" /\ at # None /\ DeferredReady THEN {Head(deferred[at])}
  ELSE IF pc = "regular" /\ Fetchable(fetchRequests) /\ ~MaxedOut(Head(fetchRequests))
  THEN {Head(fetchRequests)} ELSE {}

(* A call to the external storage throws after some of the blocks were     *)
(* found there: the exception leaves fetchUpToMaxBytes, and initialize or  *)
(* next with it, and the task ends.                                        *)
StorageThrows ==
  /\ "storage" \in Faults
  /\ \E r \in Sending : \E hits \in Hits(r) :
       /\ calls' = calls \cup NewCalls("storage", Answered, 0, Local, hits)
       /\ refs' = refs \o [i \in 1 .. Cardinality(hits) |-> 0]
  /\ pc' = "cleanup"
  /\ UNCHANGED <<then, taskQueues, loops, flight, corrupted, localTodo, taken,
                 current, caller, isZombie, results, remaining>>

--------------------------------------------------------------------------------
(* fetchLocalBlocks, at the end of initialize.                             *)

FetchLocal ==
  /\ pc = "local" /\ localTodo # <<>>
  /\ LET b == Head(localTodo) IN
     /\ results' = Append(results,
                     Success(b.id, Local, 0, Answered + 1, 0, FALSE, "local"))
     /\ refs' = Append(refs, 1)
  /\ localTodo' = Tail(localTodo)
  /\ UNCHANGED <<pc, then, taskQueues, loops, flight, corrupted, taken, current,
                 caller, isZombie, remaining, calls>>

(* The first local block that cannot be read ends the loop. *)
LocalFails ==
  /\ "local" \in Faults
  /\ pc = "local" /\ localTodo # <<>>
  /\ results' = Append(results, Failure(Head(localTodo).id, Local, 0, 0, "local"))
  /\ localTodo' = <<>>
  /\ UNCHANGED <<pc, then, taskQueues, loops, flight, corrupted, taken, current,
                 caller, isZombie, remaining, calls, refs>>

EndLocal ==
  /\ pc = "local" /\ localTodo = <<>>
  /\ pc' = "caller"
  /\ UNCHANGED <<then, taskQueues, loops, flight, corrupted, localTodo, taken,
                 current, caller, shared>>

--------------------------------------------------------------------------------
(* The callbacks, on the threads of the network and of the storage client. *)

DoneTooEarly(c) ==              \* fault: isEmpty is asked before the removal
  /\ c.kind = "network" /\ c.addr # Local
  /\ IF isZombie
     THEN UNCHANGED <<results, remaining, refs>>
     ELSE /\ refs' = [refs EXCEPT ![c.num] = @ + 1]
          /\ remaining' = [remaining EXCEPT ![c.req] = @ \ {c.id}]
          /\ results' = Append(results, Success(c.id, c.addr, c.size, c.num, c.req,
                                                remaining[c.req] = {}, "network"))

ZombieIgnored(c) ==             \* fault: results are put after cleanup too
  /\ c.kind = "network" /\ c.addr # Local
  /\ LET left == remaining[c.req] \ {c.id} IN
     /\ refs' = [refs EXCEPT ![c.num] = @ + 1]
     /\ remaining' = [remaining EXCEPT ![c.req] = left]
     /\ results' = Append(results, Success(c.id, c.addr, c.size, c.num, c.req,
                                           left = {}, "network"))

NetworkSuccess(c) ==
  /\ c.kind = "network"
  /\ c.addr # Local      \* the local server has none of the remote blocks
  /\ IF isZombie
     THEN UNCHANGED <<results, remaining, refs>>
     ELSE LET left == remaining[c.req] \ {c.id} IN
          /\ refs' = [refs EXCEPT ![c.num] = @ + 1]
          /\ remaining' = [remaining EXCEPT ![c.req] = left]
          /\ results' = Append(results, Success(c.id, c.addr, c.size, c.num, c.req,
                                                left = {}, "network"))

StorageSuccess(c) ==
  /\ c.kind = "storage"
  /\ results' = Append(results, Success(c.id, Local, 0, 0, 0, FALSE, "storage"))
  /\ UNCHANGED <<remaining, refs>>

FetchFails(c) ==
  /\ "fetch" \in Faults \/ (c.kind = "network" /\ c.addr = Local)
  /\ results' = Append(results, Failure(c.id, c.addr, c.size, c.req, c.kind))
  /\ UNCHANGED <<remaining, refs>>

Callback ==
  \E c \in calls :
    /\ NetworkSuccess(c) \/ StorageSuccess(c) \/ FetchFails(c)
    /\ calls' = calls \ {c}
    /\ UNCHANGED <<pc, then, taskQueues, loops, flight, corrupted, localTodo, taken,
                   current, caller, isZombie>>

--------------------------------------------------------------------------------
(* next.                                                                   *)

CallNext ==
  /\ pc = "caller"
  /\ HasNext
  /\ KeepsOpen \/ open = {}
  /\ numProcessed' = numProcessed + 1
  /\ pc' = "take"
  /\ UNCHANGED <<then, taskQueues, loops, flight, corrupted, localTodo, taken,
                 current, delivered, open, shared>>

TakeFailure ==
  /\ pc = "take"
  /\ results # <<>>
  /\ ~Head(results).ok
  /\ results' = Tail(results)
  /\ pc' = "cleanup"
  /\ UNCHANGED <<then, taskQueues, loops, flight, corrupted, localTodo, taken,
                 current, caller, isZombie, remaining, calls, refs>>

ForgetAddress(r) ==             \* fault: the address stays charged
  /\ bytesInFlight' = bytesInFlight - r.size
  /\ reqsInFlight' = IF r.done THEN reqsInFlight - 1 ELSE reqsInFlight
  /\ UNCHANGED nipa

EveryResultDone(r) ==           \* fault: a request counts as done per block
  /\ nipa' = IF r.addr = Local THEN nipa ELSE [nipa EXCEPT ![r.addr] = @ - 1]
  /\ bytesInFlight' = bytesInFlight - r.size
  /\ reqsInFlight' = reqsInFlight - 1

(* The counters go back by what the result says. *)
Account(r) ==
  /\ nipa' = IF r.addr = Local THEN nipa ELSE [nipa EXCEPT ![r.addr] = @ - 1]
  /\ bytesInFlight' = bytesInFlight - r.size
  /\ reqsInFlight' = IF r.done THEN reqsInFlight - 1 ELSE reqsInFlight

ReleaseEarly(r) ==              \* fault: frees the buffer after reading ahead
  /\ taken' = r
  /\ EnterFetch("deliver")
  /\ refs' = Release(r.buf)
  /\ UNCHANGED <<fetchRequests, corrupted>>

TakeGood(r) ==
  /\ taken' = r
  /\ EnterFetch("deliver")
  /\ UNCHANGED <<fetchRequests, corrupted, refs>>

(* Only small blocks are read ahead to see whether they are corrupt. *)
Corrupt(r) == r.id \in MayCorrupt /\ r.size < MaxBytes \div 3

TakeCorruptAgain(r) ==
  /\ Corrupt(r)
  /\ r.kind = "local" \/ r.id \in corrupted
  /\ refs' = Release(r.buf)
  /\ pc' = "cleanup"
  /\ UNCHANGED <<then, loops, fetchRequests, corrupted, taken>>

KeepCorrupt(r) ==               \* fault: fetches again and hands it out as well
  /\ Corrupt(r)
  /\ r.kind # "local" /\ r.id \notin corrupted
  /\ corrupted' = corrupted \cup {r.id}
  /\ fetchRequests' = Append(fetchRequests,
       [addr |-> r.addr, blocks |-> {[id |-> r.id, size |-> r.size]}])
  /\ taken' = r
  /\ EnterFetch("deliver")
  /\ UNCHANGED refs

TakeCorrupt(r) ==
  /\ Corrupt(r)
  /\ r.kind # "local" /\ r.id \notin corrupted
  /\ refs' = Release(r.buf)
  /\ corrupted' = corrupted \cup {r.id}
  /\ fetchRequests' = Append(fetchRequests,
       [addr |-> r.addr, blocks |-> {[id |-> r.id, size |-> r.size]}])
  /\ EnterFetch("take")
  /\ UNCHANGED taken

StreamThrows(r) ==
  /\ "stream" \in Faults /\ r.kind = "local"
  /\ refs' = Release(r.buf)
  /\ pc' = "cleanup"
  /\ UNCHANGED <<then, loops, fetchRequests, corrupted, taken>>

(* streamWrapper is called outside of every try, before currentResult is set. *)
WrapThrows(r) ==
  /\ "wrap" \in Faults
  /\ pc' = "cleanup"
  /\ UNCHANGED <<then, loops, fetchRequests, corrupted, taken, refs>>

TakeSuccess ==
  /\ pc = "take"
  /\ results # <<>>
  /\ Head(results).ok
  /\ results' = Tail(results)
  /\ Account(Head(results))
  /\ LET r == Head(results)
     IN \/ TakeGood(r) \/ TakeCorruptAgain(r) \/ TakeCorrupt(r)
        \/ StreamThrows(r) \/ WrapThrows(r)
  /\ UNCHANGED <<deferred, localTodo, current, caller, isZombie, remaining, calls>>

Deliver ==
  /\ pc = "deliver"
  /\ current' = taken.buf
  /\ delivered' = Append(delivered, [id |-> taken.id, buf |-> taken.buf])
  /\ open' = open \cup {Len(delivered) + 1}
  /\ taken' = None
  /\ pc' = "caller"
  /\ UNCHANGED <<then, taskQueues, loops, flight, corrupted, localTodo,
                 numProcessed, shared>>

CloseKeepsCurrent ==            \* fault: currentResult is not set to null
  /\ pc = "caller"
  /\ \E s \in open : open' = open \ {s}
  /\ refs' = Release(current)
  /\ UNCHANGED <<pc, then, taskQueues, loops, flight, corrupted, localTodo, taken,
                 current, numProcessed, delivered, isZombie, results, remaining,
                 calls>>

(* BufferReleasingInputStream.close: it releases the current buffer of the *)
(* iterator, whichever stream it is called on.                             *)
CloseStream ==
  /\ pc = "caller"
  /\ \E s \in open : open' = open \ {s}
  /\ refs' = Release(current)
  /\ current' = 0
  /\ UNCHANGED <<pc, then, taskQueues, loops, flight, corrupted, localTodo, taken,
                 numProcessed, delivered, isZombie, results, remaining, calls>>

--------------------------------------------------------------------------------
(* The task completes: the caller is done or throws, or is interrupted.    *)

CompleteTask ==
  /\ \/ pc = "caller"
     \/ "kill" \in Faults /\ pc = "take"
  /\ pc' = "cleanup"
  /\ UNCHANGED <<then, taskQueues, loops, flight, corrupted, localTodo, taken,
                 current, caller, shared>>

MarkZombie ==
  /\ pc = "cleanup"
  /\ isZombie' = TRUE
  /\ pc' = "release"
  /\ UNCHANGED <<then, taskQueues, loops, flight, corrupted, localTodo, taken,
                 current, caller, results, remaining, calls, refs>>

(* How many of the queued results hold buffer i. *)
Queued(i) == Cardinality({k \in 1 .. Len(results) : results[k].ok /\ results[k].buf = i})

ReleaseAll ==
  /\ pc = "release"
  /\ refs' = [i \in 1 .. Len(refs) |-> Release(current)[i] - Queued(i)]
  /\ current' = 0
  /\ pc' = "done"
  /\ UNCHANGED <<then, taskQueues, loops, flight, corrupted, localTodo, taken,
                 caller, isZombie, results, remaining, calls>>

(* Nothing is left to happen. *)
Finished == pc = "done" /\ calls = {} /\ UNCHANGED vars

--------------------------------------------------------------------------------
Init ==
  /\ pc = "deferred" /\ then = "local"
  /\ fetchRequests \in SetToSeqs(RemoteRequests)     \* randomized
  /\ deferred = [a \in Addresses |-> <<>>]
  /\ scan = {} /\ at = None
  /\ bytesInFlight = 0 /\ reqsInFlight = 0
  /\ nipa = [a \in Addresses |-> 0]
  /\ corrupted = {}
  /\ localTodo = LocalBlocks
  /\ numProcessed = 0
  /\ taken = None /\ current = 0
  /\ delivered = <<>> /\ open = {}
  /\ isZombie = FALSE
  /\ results = <<>> /\ remaining = <<>> /\ calls = {} /\ refs = <<>>

FetchStep ==
  \/ VisitDeferred \/ SendDeferred \/ LeaveDeferred \/ EndDeferred
  \/ DeferRegular \/ SendRegular \/ EndFetch \/ StorageThrows

LocalStep == FetchLocal \/ LocalFails \/ EndLocal

(* What the task thread does unless it is told to stop. *)
TaskStep ==
  \/ FetchStep \/ LocalStep
  \/ CallNext \/ TakeFailure \/ TakeSuccess \/ Deliver \/ CloseStream
  \/ MarkZombie \/ ReleaseAll

Next == TaskStep \/ Callback \/ CompleteTask \/ Finished

Spec == Init /\ [][Next]_vars

(* The thread of the task runs, its caller goes on iterating and closing   *)
(* its streams, and every fetch is answered in the end (the transport      *)
(* times out on what is not answered).                                     *)
FairSpec == Spec /\ WF_vars(TaskStep) /\ WF_vars(Callback)

--------------------------------------------------------------------------------
Running == pc \notin {"cleanup", "release", "done"}

(* Every variable has its type and the counters of the task are naturals. *)
TypeOK ==
  /\ pc \in {"deferred", "regular", "local", "caller", "take", "deliver",
             "cleanup", "release", "done"}
  /\ then \in {"local", "take", "deliver"}
  /\ scan \subseteq Addresses /\ at \in Addresses \cup {None}
  /\ bytesInFlight \in Nat /\ reqsInFlight \in Nat
  /\ nipa \in [Addresses -> Nat]
  /\ corrupted \subseteq ToFetch
  /\ numProcessed \in 0 .. NumBlocksToFetch
  /\ current \in 0 .. Len(refs)
  /\ open \subseteq 1 .. Len(delivered)
  /\ isZombie \in BOOLEAN
  /\ \A c \in calls : c.num \in 1 .. Len(refs) /\ c.addr \in Addresses
  /\ \A i \in 1 .. Len(remaining) : remaining[i] \subseteq ToFetch

(* The network fetches the task has not taken the result of: not answered  *)
(* yet, or answered in the queue.                                          *)
Unanswered == {c \in calls : c.kind = "network"}
Waiting    == {r \in ToSet(results) : r.kind = "network"}

BytesOut == SizeOf(Unanswered) + SizeOf(Waiting)
BlocksOut(a) == Cardinality({c \in Unanswered : c.addr = a})
                  + Cardinality({r \in Waiting : r.addr = a})
ReqsOut == Cardinality({i \in 1 .. Len(remaining) :
             remaining[i] # {} \/ \E r \in Waiting : r.req = i /\ r.done})

(* The three counters that limit what is in flight, kept by the task       *)
(* thread from what the results say, agree at every moment with what the   *)
(* callbacks have and have not answered ("Current bytes in flight from our *)
(* requests", "Current number of requests in flight", "Current number of   *)
(* blocks in flight per host:port"), retries of corrupt blocks included.   *)
FlightCounted ==
  Running => /\ bytesInFlight = BytesOut
             /\ reqsInFlight = ReqsOut
             /\ \A a \in Addresses : nipa[a] = BlocksOut(a)

(* "we'll pull requests off this gradually to make sure that the number of *)
(* bytes in flight is limited to maxBytesInFlight": what is really out     *)
(* exceeds it only when it is one single request, and never exceeds the    *)
(* number of requests.                                                     *)
Throttled ==
  Running => /\ BytesOut <= MaxBytes \/ ReqsOut <= 1
             /\ ReqsOut <= MaxReqs

(* "release all buffers that haven't been deserialized yet", also when     *)
(* callbacks race with cleanup: once it is done the iterator holds no      *)
(* buffer, and none was released twice.                                    *)
BuffersReleased ==
  pc = "done" => \A i \in 1 .. Len(refs) : refs[i] = 0

(* A caller that closes a stream before it asks for the next block never   *)
(* reads from a buffer that was released.                                  *)
OpenBuffersHeld ==
  pc # "done" => \A s \in open :
                    delivered[s].buf # 0 => refs[delivered[s].buf] = 1

(* The iterator implements BlockFetch: no block twice, none missing when   *)
(* it says it is exhausted.                                                *)
Promise == INSTANCE BlockFetch WITH
  Blocks <- ToFetch,
  got <- {delivered[k].id : k \in 1 .. Len(delivered)},
  status <- IF ~Running THEN "ended"
            ELSE IF pc = "caller" /\ ~HasNext THEN "exhausted" ELSE "open"
BlockFetchSpec == Promise!Spec

(* A task that waits in next gets a block or fails: no combination of the  *)
(* limits, of deferred requests and of retries leaves it waiting.          *)
EventuallyServed == (pc = "take") ~> (pc \in {"caller", "cleanup"})

(* "These requests are tried again when the fetch constraints are          *)
(* satisfied": a task that waits for a result has a fetch on its way.      *)
NeverStarved == pc = "take" /\ results = <<>> => calls # {}

(* Whatever fails, no buffer is released twice or used before it arrived,  *)
(* and cleanup leaves no reference on a buffer of the queue, also on one   *)
(* whose callback came while it was cleaning.                              *)
ReleasedOnce ==
  /\ \A i \in 1 .. Len(refs) : refs[i] \in {0, 1}
  /\ pc = "done" => \A k \in 1 .. Len(results) :
                       results[k].buf # 0 => refs[results[k].buf] = 0

(* No address is asked for more blocks at a time than the configuration    *)
(* allows, and the counter that decides about it never counts too few and  *)
(* never goes beyond the limit, although storage hits are charged to the   *)
(* address and not taken off: whatever fails but the split of a request.   *)
(* A split that throws submits again what it has submitted, with nothing   *)
(* charged for it, and then the limit is exceeded.                         *)
AddressLimited ==
  \A a \in Addresses \ {Local} :
    /\ BlocksOut(a) <= MaxBlocks
    /\ Running => BlocksOut(a) <= nipa[a]
    /\ nipa[a] <= MaxBlocks
================================================================================
