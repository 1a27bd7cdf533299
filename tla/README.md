# A verification of WANify's runtime bandwidth measurement and transfer

WANify measures the bandwidth between data centers (`src/measure.py`,
`src/main.py`), learns to predict it (`src/predict`), derives how many
connections each pair of data centers should use (`src/optimization`), and
changes Spark so that shuffle data is spread over several ports of a remote
executor, as many as an optimizer allows (`parallelDataTransfer`).  This
directory holds TLA+ models of the parts of it that have control worth checking,
the TLC runs that check them, and proofs checked by TLAPS.  Paths below are paths
of the repository.

## The system

| Part | State | Operations | Talks to |
|---|---|---|---|
| Port control: `NettyBlockTransferService.scala`, `WanBoostMonitor.java` | `markPortsClosed`, `reqSize` (two unsynchronised hash maps) | `getMarkPortsClosed`, `setSize`, `markServersOpen`, `markServersClosed`, the monitor's `run` | shuffle tasks (shared maps), an optimizer process |
| Shuffle fetch: `ShuffleBlockFetcherIterator.scala` | request queues, bytes/requests/blocks in flight, result queue, `currentResult`, `isZombie` | `initialize`, `next`, `fetchUpToMaxBytes`, `send`, callbacks, stream close, `cleanup` | network threads (queue, lock), external storage, the task |
| Measurement round: `measure.py`, `bwtesting-client.py`, `setup/*.sh`, `run-all-client.py` | loop variables; on each node scripts, `start.txt`, `status.txt`, servers, clients, the service | `runMonitor`; the service; the client; `cleanup.sh` | scp and ssh commands, mostly not awaited |
| Dataset loop: `main.py` | sample index, retries, cleanup mode, `test_duration` in two files | one iteration per sample and duration | `runMonitor` |
| Live prediction: `livePredictor.py`, `rfPredict.py`, `genRefactoringVector.py` | report directory, refactoring vector, `test_duration` | one run per invocation | `runMonitor`, model, `greedyApp` |
| Channel optimisation: `greedyOptimization.py` | none | `inferDCPairRelationship`, `greedyApp` | scp to the executors |
| Training, statistics, distances, instances, memory load | files | straight scripts | cloud providers, scikit-learn |

What is hard, and what makes each part correct:

* **Port control.** Tasks look a port count up for every block while the monitor
  reads, computes and writes; the maps have no lock, so a lookup may miss a key
  that is being moved and overwrite a decision with its default.  A task must
  always be left a port, a host never fewer ports than decided, a size reported
  at most once, as far as entries are not lost or doubled.
* **Shuffle fetch.** Callbacks race with the task and with its cleanup; three
  counters limit what is in flight; corrupt blocks are fetched again; a request
  may be answered partly by the external storage.  Each block once, none missing,
  every buffer released exactly once, limits kept, never waiting for nothing.
* **Measurement round.** One program drives processes on all nodes by spawned
  commands, and relies on sleeping long enough.  One client per one-shot server, all
  scripts in place before the start, exactly this call's readings recorded,
  nothing left on the nodes after a failure, a call that returns.
* **Dataset loop.** Modes, retries and in-place edits interact across samples.
  Files that are what their names say, samples about one set of nodes, gaps only
  where an error was reported, the edited duration restored, an end; the same
  after a failed call, whose status files stay, and after a crash and a resumed
  start, as far as the code allows.
* **Live prediction.** A script that is started again and again, its state in files:
  the mode is the caller's, the index comes from the directory, dynamic
  rounds come only now and then, a kill leaves a service that has served its round.
  Scripts must be on the nodes when a round in mode 3 presumes them, readings be
  fresh and of the duration their file names, an index be used once.
* **Channel optimisation.** A loop that shortens the list it walks over, a binary
  search with early returns and an off-by-one interval, roundings.  The closer
  must not be ranked farther; each node gets between 1 and 8 channels.

## Modules

| Module | What it is |
|---|---|
| `PortControl` | the two maps, tasks and monitor; one step is one map operation |
| `PortControlProofs` | TLAPS proofs about `PortControl` |
| `BlockFetch` | abstract: what the iterator promises the task |
| `ShuffleFetch` | the iterator with its callbacks; implements `BlockFetch` |
| `ShuffleFetchProofs` | TLAPS proofs about `ShuffleFetch`: its operators, types, buffers and streams |
| `ShuffleFlightProofs` | TLAPS proofs about `ShuffleFetch`: the refinement of `BlockFetch`, what is in flight |
| `MeasurementCalls` | abstract: what the callers of `runMonitor` count on |
| `MonitorRound` | calls of `runMonitor` with the nodes; implements `MeasurementCalls` |
| `MonitorRoundProofs` | TLAPS proofs about `MonitorRound`, the refinement of `MeasurementCalls` included |
| `DatasetLoop` | the loop of `main.py`; a call of `runMonitor` is one step |
| `DatasetLoopProofs` | TLAPS proofs about `DatasetLoop` |
| `LivePredict` | invocations of `livePredictor.py`; a call of `runMonitor` is two steps |
| `LivePredictProofs` | TLAPS proofs about `LivePredict` |
| `GreedyOptimization` | `inferDCPairRelationship`, `binarySearch` and the channels of `greedyApp` |
| `GreedyOptimizationProofs` | TLAPS proofs about `GreedyOptimization` |
| `FoldTheorems` | theorems about induction and recursion over finite sets and over numbers, cited by the proofs |
| `MC...` | instances for TLC |

Definitions whose comment begins with "fault:" or "A mutant of" are broken variants of the
definition that follows; no specification uses them.  They are there to show that
each property can fail: putting one in the place of the original makes TLC find
a violation.

### PortControl

Variables `entries` and `closed` are `markPortsClosed` (its keys, its values),
`reqSize` and `doubled` the map `reqSize` (what a lookup finds, the hosts with a second entry);
the rest is where each thread stands and its
locals.  `GetCheck`, `GetDefault`, `GetInsert`, `GetRead` are the lookup
`getMarkPortsClosed`; `SendRequest`, `PickPort`, `PickThrows`, `LegacyFetch` are
what `sendRequest` of the iterator does with it; the other actions are the
monitor's period in the order of `WanBoostMonitor.run` and the two mark
operations.  `applied`, `fresh`, `torn` and `inherited` are history variables.
The optimizer is external: it may
name any hosts, or fail; its numbers lie in 1..8, as `greedyApp` computes them.
The order of hosts within a period is that of a hash map: any.

Both maps are `mutable.HashMap` with no lock.  Storing under a present key changes one cell;
adding a key may move the table, and while one thread adds a key the others may miss
entries, add a key that is there, or lose what they add (`Resizing`, `ResizingSizes`).
`setSize` is therefore one step (`SetInPlace`) or two (`SetByAdding`, `InsertSize`), for the
tasks and for the monitor's reset to 1.  A key that is added twice in `reqSize` has two entries:
lookups and stores find the later, the monitor's iteration visits both, and the size in the
second is reported in every period (`SizesOf`); an iteration may also pass entries by (`SkipSize`).
`torn` are the hosts of which an entry was lost or doubled.  Left out: that a later
move of the table turns two entries of a key over, that two threads which move it at once
may loop in it, and the internal size of the map.

`WarmInit` is a state in which every host is a key of both maps, from which no key is ever
added.  What the race of the first contact may have left is in it: any number in
`markPortsClosed` below the number of ports (`StartNumbers`), negative ones too, and second entries in
`reqSize`.  `inherited` are the hosts that start with a negative number.

### ShuffleFetch

The variables have the names of the fields.  The task thread is the only one to use
all but `results`, `isZombie`, `remaining` and the buffers, so one of its steps is an
iteration of a loop; `Callback` is the network or the storage client, at any time.
The constant `Faults` says which calls out of the iterator may fail (with `"split"`
among them `BlockFetchSpec` fails, see below), `External`
which blocks the external storage may have, `KeepsOpen` whether the caller asks
for the next block with a stream open.  `refs[i]` counts the references the
iterator holds on buffer `i`.  `SizeOf`, `CutRequests`, `RemoteRequests` are
`splitLocalRemoteBlocks`; `RemoteRequests` is a set, since the queue is filled in random order.
`BlocksAssumption` says what the iterator is given: each address once, each block at one
address, no negative size.  Left out: remote blocks written to disk, the cache of
fetched blocks, metrics.

### MonitorRound

Controller variables have the names of `runMonitor`'s.  Commands that are spawned
and not awaited are elements of `net`; each lands at any later time, in any order.
The code bets that some of them land in time, and the constant `Prompt` names the bets
taken as won:

* `"sleep"`: the sleep before collecting is longer than the measurement;
* `"start"`: `start.txt` reaches all nodes within the three seconds the service
  waits after starting its servers;
* `"cleanup"`: cleanups land before scripts are next placed.

No run can do without them: with any of the three lost, a node has no script, a
client no server, or a reading comes too late, and the polling loop
(`measure.py:223`), which has no end, waits forever.  This is the most important assumption of
the runs and theorems about measurements, and it is listed among the hazards.

`CallAllowed` says which calls are made.  Static bandwidths are measured in mode 1.  Two more
things `runMonitor` takes on trust and checks nowhere; the constant `Heeded` says which of them
callers see to:

* `"sent"`: mode 3 is used only for nodes that have the files of this very selection.
  `main.py:298` does not see to it, since it draws other data centers for each sample
  (`AlreadyTransferred`, below); such a call never returns where a file is missing.
* `"cleared"`: modes 1 and 2 are used only where the files of the kind, if any, are ones the
  call would place itself (`Plan`).  After a late cleanup, or one that has emptied only the nodes of
  one pair, files of another selection may be there, and two clients may then share a server.

`MonitorRound` takes `"cleared"` only, so mode 3 comes with any nodes; `MonitorFaults`, whose
calls have to return, takes both.  The
assumptions on constants (`NodesAssumption`, `SelectionAssumption`, `LayoutAssumption`) say
that no node is listed twice and that each has a region; the instance has selections
in another order than `AllIPs`, since the order gives scripts their names and ports.

`MeasurementCalls` is a call as its caller sees it, without commands under way: `Begin`,
`Send` (a script), `Start`, `Record`, `Fail`, `Return`.  The mapping `Calls` in
`MonitorRound` counts a cleanup that is on its way as done: a node with one is
`ready`, and its directory empty.  Scripts are seen as the servers they are for.  A
call records each pair once, and only from nodes that have the script; a call may begin only
when all nodes are ready, hence the refinement fails if a failed call leaves a script
that counts later, a `status.txt`, a client or a service that does not wait.
A round (`Rounds`) is one pair of a static call and all pairs of another.
After a failed call `Record` says nothing of what is recorded: `runMonitor` leaves the
files it collected on the controller, and with three nodes the file of a node,
left by the round of one pair, is later read for another pair or twice (two nodes
do not show this).  Without a failed call the readings are exactly those of the round.

### DatasetLoop

`config` is the configuration of an execution; `scripts[k][n]` are the client
scripts of kind `k` on node `n` with the server and duration they carry;
`local[n]` is the copy of `n`'s status file in `datasetPath`, with the call it is of;
`test_duration` what the two client files say.

A call collects (`Collects`) from each selected node a copy that is there when it looks
(`Stale`) or the one its own script produces (`Usable`: a script for a server that runs); the new copy
may also come after the old one was read and removed, and is then left for the next call.
`DynamicDone` and `StaticDone` are enabled only if every selected node has either;
otherwise a real call would poll forever, and the model is stuck with it, which
TLC reports as a deadlock or as a violation of `Terminates`.
A failed call has removed the copies it has read, any of them, and leaves the others
(`Leaves`): `measure.py:326-373` removes none.

`Restart` is a crash at any point and the next start: new instances without
scripts, `prevRunDurationRef` 20 and mode 1 again, `index` from
`resumeDatasetFromIndex`, which is the sample that was under way or the one after
it, the files of later samples removed as the comment on that option
(`config.cfg:35`) asks.  What survives are the json files, the copies in `datasetPath` and
`test_duration` in the client
files.  `crashes`, `resumed`, `errors` and `failed` are history variables.
A crash inside a call leaves what a failed call leaves, and is one followed by a crash.
The two client files are edited together; a crash between the two commands is not
modelled.  `Sed` is what sed does: it also finds the old number at the beginning of a longer
one and leaves the digits that follow (`Powers`, up to six of them, bounds how many are
cut off).  `Ambiguous` are the configurations where a duration, the 1 of snapshots and the 20 of
the files included, begins like another, as in `config.cfg:11`'s `<2,15,30>`.
Left out: instances, the pause, training.

### LivePredict

One invocation after the other, each with the mode its operator gives:
the `"documented"` one (2 at first, then 3, `livePredictor.py:302`) and a `"careful"` one who
uses 3 only while the nodes have scripts of both kinds.  `StartCall` is the first half of
`runMonitor` (scripts and `start.txt` are sent, a waiting service starts and
measures), `Succeed` and `Fail` the second (status files are read, the json file
is written or extended, directories are emptied and the service restarted).  All nodes are in
the same state, since every call uses all of them, so the state of one stands for all.
Only the copies of status files in `reportPath` may differ from node to node: `local` has the readings
of all of them.  A call reads of each node a copy that is there or the new one (`Answers`);
a successful one removes what it has read, a failed or killed one leaves copies, which the
next call takes for answers, whatever it measures.
`Kill` ends an invocation anywhere; nodes go on as they are.  `SkipDynamic`,
`Shorten`, `Lengthen`, `Report` are the rest of the script.  A reading is what
the properties distinguish: the kind of call it is of, the duration it was measured for and the
invocations that measured and recorded it.

### GreedyOptimization

One step is one iteration of a loop: of the loop that thins out the sorted list
(`Drop`, `Retain`), of `binarySearch` (`Match`, `GoLower`, `GoHigher`, `GiveUp`), of the loops over
the matrices (`AssignRank`, `AddRank`, `Distribute`).  `At` is Python's indexing, negative indices
included.  Predictions are arbitrary integers; `SortAssumption` says that sorting sorts,
and TLC evaluates it on its predictions.

## What the runs check

| Run | Instance | Distinct states | Shows |
|---|---|---|---|
| `PortControlRace` | 2 tasks, 1 new host, 4 ports, decisions 4, 6 | 1 186 000 | `TypeOK`, `DivisorPositive`, `ReportedOnce` |
| `PortControlWarm` | 1 task, 2 known hosts with 0 or -2 ports closed, 8 ports, decisions 4, 6 | 2 414 000 | `NeverBelowDecision`, `WarmNeverFallsBack` |
| `ShuffleFetch` | 5 blocks, 2 addresses and local, 2 corruptible; failures, kill | 116 000 | `FlightCounted`, `Throttled`, `BuffersReleased`, `OpenBuffersHeld`, `EventuallyServed`, implements `BlockFetch` |
| `ShuffleFaults` | 3 remote blocks and a local one, external storage, all faults but the split, open streams | 530 000 | `ReleasedOnce`, `AddressLimited`, implements `BlockFetch` |
| `MonitorRound` | 3 nodes in 3 or 2 regions, partial and reordered selections, 2 calls, all modes, mode 3 with or without files | 63 000 | `OneClientPerServer`, `StartsComplete`, `RecordsRound` |
| `MonitorFaults` | 2 nodes, 3 calls, calls may fail | 97 000 | `Returns`, implements `MeasurementCalls` (`CallsSpec`) |
| `DatasetLoop` | 6 configurations, 2 or 3 samples, up to 2 failed calls, a crash | 1 059 000 | `MeasuredAsNamed`, `SampleCoherent`, `GapsReported`, `DurationRestored`, `Terminates` |
| `LivePredict` | 6 configurations, 4 invocations, 2 failed calls or kills | 884 000 | `MeasuredAsNamed`, `StalenessBounded`, `IndexFresh`, `Reported`, `HangsAsDocumented`, `Ends` |
| `GreedyOptimization` | 4 data centers, 2 125 predictions | 212 000 | `ThinnedOut`, `ListedRank`, `InferredOrder`, `ChannelsUsable`, `Terminates` |

Every run checks one instance whose bounds are chosen so that the cases that
interest occur:

* *PortControl.* Two tasks and the monitor are enough for a lookup to miss, to
  overwrite a decision and to lose or double an entry of either map, all at once.  Block indexes 0 and 9
  cover the first block and one beyond the eight ports.  The race has the size 5000, above the
  threshold 1000 (the reset to 1 is below it); the warm run, where sizes play no part, has 500.
  Decisions 4 and 6 close and open ports, from 0 and from the negative start number -2.
* *ShuffleFetch.* With `MaxBytes = 10` requests are cut at 2 bytes; two of them
  together exceed the bytes, two to one address exceed `MaxBlocks = 2`, a third
  exceeds `MaxReqs = 2`: each limit stops a request in some behaviour.  There is
  one empty block.  `ShuffleFaults` turns deadlock checking off, because the defect of
  `ShuffleStarved` really stops the task there.
* *MonitorRound.* Three nodes are the least with two clients on one server, and
  with two nodes in one region and a pair across.  Two calls are the least in which
  one can see the remains of another; `MonitorFaults` has three, so that a call
  in mode 3 follows one in mode 2 that follows a failed one.  `MonitorRound` turns
  deadlock checking off, since there a call in mode 3 without files never returns; `MonitorFaults` keeps it on.  `NumPorts = 2` suffices for three nodes.  With four nodes in
  one region the code's start condition is wrong (below).
* *DatasetLoop.* Three samples reach mode 3 twice; three durations keep the loop out
  of it; retries of 1 with two errors (`MCErrors`, one where progress messages renew the retries) exhaust
  them, no retries end a sample at once.  Two samples are enough to see the copies a failed call
  leaves read in the next one, three data centers to draw another selection for it.  In the configuration with the
  single duration 20 no error is injected: there a failed snapshot followed by a
  successful dynamic measurement leads to mode 3 with the snapshot scripts gone,
  and the loop is stuck.  With `maxRetries = 0` the same happens after any error.
  One crash (`MaxCrashes`) at any point shows every duration a start may find; a
  second sample after it is enough to see `sed` match again.  The durations 2, 15, 30 are
  the ones where `sed` may match too much.
* *LivePredict.* With comparisons at every second index, four invocations have two
  dynamic measurements, the first of them after the only call in mode 2.  Two failed calls
  or kills (`MaxAborts`) give a reading that is two invocations old without a kill and three with one.  Deadlock
  checking is off, because a call that waits for scripts that are not there really
  stops.
* *GreedyOptimization.* Every set of eleven bandwidths that are less than 30, exactly
  30 and more than 30 apart gives lists of all lengths up to twelve, so that
  the search ends in every way (a match at either end, two neighbours below and above,
  nothing).  Four data centers give 12 pairs, more than the longest list.  The other
  predictions have equal rows and one data center with two nodes.

### Fairness

`ShuffleFetch` (`FairSpec`): the task thread runs and its caller goes on iterating and
closing streams (weak fairness of `TaskStep`; being killed is never required), and
each fetch is answered in the end, since the transport turns what is not
answered into a failure.  `MonitorRound`: the controller is a running program,
spawned commands end, nodes run; no fairness of callers or faults.
`DatasetLoop`: one sequential program (`WF_vars(Step)`), which nothing makes crash.
`LivePredict`: the script runs (`WF_vars(Step)`); nobody has to start it again or to
kill it.  `GreedyOptimization`: a function that runs.  `PortControl` states no liveness: nothing
in it must happen.

### Violations: where code and words differ

* `ShuffleStarved` / `NeverStarved`.  `send` (`ShuffleBlockFetcherIterator.scala:788-789`) charges the address with all blocks of a
  request, including those the external storage served, whose results are never credited to it.
  A deferred request to that address is never "tried again" (lines 124-125) and `next`
  waits for nothing.
* `DatasetShipped` / `AlreadyTransferred`.  With the shipped duration the second
  sample measures in mode 3 on other data centers than the first, though mode 3 is
  for files "already transferred" (`main.py:215`); the call then never returns.
* `ClosenessOrder` / `ClosenessOrder`.  When its interval becomes empty before it
  met two neighbours, `binarySearch` returns `[-1,-1,-1]`
  (`greedyOptimization.py:47`); the caller takes -1 for a position and ranks the pair farther
  than all others, also above pairs with less bandwidth, though "one denotes closest and higher
  values denote farther away" (line 73).  `InferredOrder` is what
  holds: the order is right among pairs whose search ended otherwise.

Seen while modelling and not a run:

* `markServersOpen` (`NettyBlockTransferService.scala:205-206`) reads the map anew in each
  condition; a task's late default of 0 between the last comparison and the
  subtraction leaves a negative number of closed ports.
* `ShuffleBlockFetcherIterator.scala:313`: a split that throws midway submits all blocks
  again, the duplicates count, and the iterator is exhausted with a block missing.  Once
  the hosts are known it throws only on a host with a negative number of closed ports
  (`WarmNeverFallsBack`): `blkIndex % (8 + n)` runs past the array there.
* `reqSize` (`NettyBlockTransferService.scala:61`) is as unlocked as `markPortsClosed`: a reset that is
  lost, or a key added twice, has the monitor report the same size again.
* An exception from the external storage in `fetchUpToMaxBytes`
  (`ShuffleBlockFetcherIterator.scala:635`) leaks the buffer just taken.
* `measure.py:22` counts the pairs inside a region as c! where c(c-1) is meant, the
  same up to three nodes.
* After an error `runMonitor` leaves the status files it has collected on the
  controller (`measure.py:326-373` removes none); later calls read them for other
  pairs of the same node and record them again.  The next call of `main.py` or
  `livePredictor.py` may be of another duration, sample or set of nodes, and its json file
  then has their readings.
* A json file that exists is extended (`measure.py:289`), although `config.cfg:35`
  announces an error.
* The retries of `main.py` go to the next duration instead of repeating the failed one, and are
  renewed only if progress messages are on; the files they remove (`main.py:257`)
  are not those that are written.
* After a crash of `main.py` with another duration than 20 in the client files the files of the
  next sample are wrong until its durations come to that one; with the shipped
  configuration the scripts of the wrong duration stay on the nodes in mode 2 and 3, and
  all later samples are wrong.  With durations of which one begins like another, as in
  `config.cfg:11`, sed may leave digits behind the new one (25 for 2, after a crash that left 15), and
  nothing puts that right.

## What is proved

`PortControlProofs`, for any sets of hosts and tasks and any number of ports:

| Theorem | Statement |
|---|---|
| `TypeCorrect` | `Spec => []TypeOK` |
| `DivisorNeverZero` | `Spec => []DivisorPositive` |
| `SizesReportedOnce` | `(Spec => ReportedOnce) /\ (WarmSpec => ReportedOnce)` |
| `WarmDecisions` | `WarmSpec => []NeverBelowDecision`, if `NumServers = 8` |
| `WarmNoFallback` | `WarmSpec => []WarmNeverFallsBack` |

They use the assumptions of `PortControl` on its constants (a positive number of
ports, the monitor is not a task, decisions lie in 1..8, start numbers are below the number of
ports) and no others, except that `WarmDecisions` has the eight ports the monitor computes with:
with fewer it closes too many, and the property is false.

* `DivisorPositive` is not inductive: a task could read an entry that is too
  large.  `PortsLeft` adds that every entry, and every number a mark operation is
  about to store, is below the number of ports.  The step that matters is
  `markServersClosed`, which closes one less than all (`NumCloseBound`); subtracting
  only lowers the number.
* `ReportedOnce` needs `SizesInv`: a size above 1000 that is not about to be reset was set
  by a task since the last report (`SizesFresh`), or the host is in `torn`; the monitor resets keys
  that are there, so that a reset that adds the key doubles it (`ResetsKeys`), and what is
  added is a size (`AddsSizes`).
* The warm theorems share `WarmInv`.  `WarmShape` says that every host stays a key, so no
  thread ever adds one; then nothing but the monitor writes `closed`, and
  `WarmMonitor` can relate what the monitor last read, what it is about to write
  and its decision at each control point, for hosts that did not start below zero.  `WarmClosed` says that the
  entries of these lie between 0 and the number of ports less one, and `WarmTasks` that the divisor a
  task computes for them lies between 1 and the number of ports, hence a port is found
  (`RemainderBound`, `WarmPortFound`).  `WarmApplied` is the property, with eight ports.

`DatasetLoopProofs`, for any set of configurations and any bounds on the numbers of
failed calls and of crashes:

| Theorem | Statement |
|---|---|
| `TypeCorrect` | `Spec => []TypeOK` |
| `DurationAlwaysRestored` | `Spec => []DurationRestored` |
| `SamplesCoherent` | `Spec => []SampleCoherent` |
| `FilesMeasuredAsNamed` | `Spec => []MeasuredAsNamed` |
| `NoSilentGap` | `Spec => []GapsReported` |

They assume `ConfigAssumption` (two data centers at least, positive durations, one
of the three run modes) and the types of the two bounds; any durations, those of which one
begins like another included.

* `TypeInv` adds to `TypeOK` where the loops stand (`Progress`): a sample under way is
  within the dataset, a duration under way is one of the list.
* `DurationInv`: the client files say what `prevRunDurationRef` remembers, so
  every `sed` matches (`DurationKnown`), or a crash left another duration
  (`Stuck`), or sed has left digits behind (`Garbled`, only where `Ambiguous`).  A duration that is
  stuck is in the list, so a sample without a failed call comes to it, and until then sed does nothing
  (`SedMisses`); from then on the two agree.  `Disturbed` names the samples up to there.
* `CoherentInv`: the readings in files and copies are of samples that have begun
  (`FilesSoFar`, `ReadingsSoFar`); a copy is there only if a call has failed by then
  (`LeftByFailure`), so what a call reads is its own or left by a failed one (`OwnOrLeft`); and
  the readings of one sample are about the nodes it selected (`SameNodes`).
* `MeasureInv`: scripts that are found on a node (`Aged`) are never those of a static call,
  none are left unless the list has a single duration besides 1, and then, before the
  first restart, snapshot scripts are for 1 second and the others for that one.  So
  every script a call finds or sends is for the duration in the client files, and its readings
  were measured for its own duration (`Fits`).  A failed call
  needs no case of its own as to scripts, since emptying directories only takes them away;
  what it leaves in files and copies was measured like any other.  After a restart (`Resumed`)
  the readings of a sample are right again once `DurationKnown` holds.
* `CompleteInv`: the sample under way has exactly the files that the durations behind it
  ask for (`Due`), unless it has a failed call.

`LivePredictProofs`, for any configurations and any number of invocations, failed calls and
kills:

| Theorem | Statement |
|---|---|
| `TypeCorrect` | `Spec => []TypeOK` |
| `Staleness` | `Spec => []StalenessBounded` |
| `FreshIndices` | `Spec => []IndexFresh` |
| `ReadingsAsNamed` | `Spec => []MeasuredAsNamed` |
| `SnapshotsReported` | `Spec => []Reported` |
| `OnlyDocumentedHangs` | `Spec => []HangsAsDocumented` |

* `NodeInv`: a waiting service has neither a `start.txt` nor a `status.txt`, and between calls it takes a kill for
  it not to wait.
* `AgeInv`: readings in `status.txt` lag behind by at most the number of kills, by one less
  between invocations.  Each kill lets a service that has served its round meet one more
  `start.txt`.
* `LocalInv`: readings in copies lag behind by at most the failed calls, and the kills and one more if
  there was a kill; there are copies only after a failed or killed call, which had no later index
  (`AbortInv`).  `FileInv` carries both over to the json files.
* `TakenInv`: the snapshots have the indices 1 to n.  This is what makes their number
  plus one a fresh index; the cardinality of an interval is from the library.
* `BehindInv` and `AloneInv`: an index that is used a second time was aborted, also
  for the files that are written before the snapshot.
* `CallInv`, for executions without a kill, has three parts.  The template, the scripts on
  the nodes and the readings of a call agree on the duration (`DurationInv`); a careful
  operator's scripts stay while mode 3 needs them (`CarefulInv`); so do those of the documented modes if no
  call fails, and mode 2 is that of the first invocation only (`DocumentedInv`).
* `LineInv`: a line in `compareStatus.txt` is that of its index and comes after the snapshot; an
  invocation that ends without its line was aborted.  It needs no case for kills.

`GreedyOptimizationProofs`, for any number of data centers, predictions and nodes:

| Theorem | Statement |
|---|---|
| `TypeCorrect` | `Spec => []TypeOK` |
| `Thinning` | `Spec => []ThinnedOut` |
| `SearchComplete` | `Spec => []ListedRank` |
| `InferenceOrdered` | `Spec => []InferredOrder` |
| `ChannelsInRange` | `Spec => []ChannelsUsable` |

They assume `DataAssumption` and `SortAssumption`.

* `ThinInv` is `ThinnedOut` for the list up to `i`; `ThinPlace` says that `prevVal` is the
  element before, also right after a removal (`RemoveAtIs`).
* `SearchInv`: a listed bandwidth lies in the interval, from the step that ends the
  search on it is the result or not on the list.  Order of the list (from `ThinnedOut`) is what lets half of the
  interval go.
* `WayInv`: what is left of the interval is below the bandwidth and what is right of it above,
  so a search that ends with two neighbours is determined by the place of the
  bandwidth in the list.  Two bandwidths between the same elements are compared with the same
  two neighbours; hence a higher one never settles lower (`SettledInv`), and ranks,
  which count from there, are in order.
* `SumInv` and `ChannelInv`: a row's sum is at least each of its ranks and, for two
  of them, their sum.  As each rank is positive the quotients stay in 1..8 and the minimum
  below the maximum (`MinMax`); dividing both among the nodes keeps the
  order (`SharedBounds`).

`ShuffleFetchProofs` and `ShuffleFlightProofs`, for any blocks, addresses, sizes and limits, any
blocks in the external storage and any that may arrive corrupt:

| Theorem | Statement | Besides the assumptions on constants |
|---|---|---|
| `ReleasedOnceHolds` | `Spec => []ReleasedOnce` | |
| `OpenBuffersHeldHolds` | `Spec => []OpenBuffersHeld` | `~KeepsOpen` |
| `BuffersReleasedHolds` | `Spec => []BuffersReleased` | `~KeepsOpen`; neither `streamWrapper` nor the storage throws |
| `BlockFetchHolds` | `Spec => BlockFetchSpec` | `"split" \notin Faults` |
| `AddressLimitedHolds` | `Spec => []AddressLimited` | `"split" \notin Faults` |
| `TypeOKHolds` | `Spec => []TypeOK` | `"split" \notin Faults` |
| `FlightCountedHolds` | `Spec => []FlightCounted` | the same, and `External = {}` |
| `ThrottledHolds` | `Spec => []Throttled` | the same, and `External = {}` |

The hypotheses are those without which the code does not keep the property, each of which
TLC or the text of the code shows: a caller that keeps a stream open reads a
released buffer; an exception of `streamWrapper` or the storage loses the buffer in hand;
a split that throws submits blocks twice; with an external storage the counters
of an address keep blocks that are not out (`ShuffleStarved`).  The exceptions
of a network or local fetch, of `createInputStream` and the kill of the task are covered everywhere.

* The operators come first: `SizeOf` is a fold whose value over any finite set is given a
  recursion (`FoldTheorems`); `CutRequests` puts every non-empty block
  into exactly one request, by induction on the recursive function that cuts; `NewCalls` gives
  each block of a request a fetch with a number of its own.
* `TypeInv` types the variables without the signs of the counters, which need the rest.
* `BufferInv`: of a result in hand, the current buffer and the queue, exactly one holds
  a given buffer, and its count is one until `cleanup` is done; a fetch not answered has
  none.  `ReleasedOnce` follows for callbacks that come before, during and after `cleanup`.
* `OpenInv`: at most the last stream is open and reads `currentResult`.
  `HeldInv`: a buffer with a reference has a holder, hence none is left when `cleanup` is done.
* `BlockInv`: each block is in one place at a time (request queue, deferred, local list,
  an unanswered fetch, result queue, in hand, returned), and `numBlocksProcessed` counts the returned ones.
  The places are what the refinement maps; a retry of a corrupt block moves it back.
* `FlightInv`: while the iterator runs, a request that is out has blocks left as long as one is
  not answered (`RequestInv`), the counters equal what is out (`CountInv`), every block has a
  size (`SizesInv`, so that no bytes in flight means nothing in flight), and the limits hold of
  the counters (`LimitInv`).  When the task has stopped only the limits are left,
  since callbacks go on and nobody counts.

`MonitorRoundProofs`, for any nodes, layouts, selections, kinds, modes and number of calls, failed ones
included:

| Theorem | Statement | Besides the assumptions on constants |
|---|---|---|
| `RoundTyped` | `Spec => []TypeOK` | |
| `OneClientHolds` | `Spec => []OneClientPerServer` | `"cleared" \in Heeded` |
| `StartsCompleteHolds` | `Spec => []StartsComplete` | cleanups in time, `"cleared" \in Heeded`, `SmallRegions` |
| `RecordsRoundHolds` | `Spec => []RecordsRound` | `Timely`, `Careful`, `SmallRegions`, `EnoughPorts` |
| `CallsImplemented` | `Spec => CallsSpec` | `Timely`, `Careful`, `SmallRegions`, `EnoughPorts` |

`Timely` is that all three bets are won, `Careful` that callers heed both of `Heeded`.  `SmallRegions` is that no region has more than three
nodes: the code subtracts c! for a region of c nodes, and the pairs within it are c(c-1), the
same up to three (`SmallFactorial`, `PairsCounted`).  Beyond it the property fails: with one region of four
and another of one the start condition is never met, with two regions of four it is met early.
`EnoughPorts` is that there is a server for every other node, `Len(AllIPs) <= NumPorts + 1`:
at most eight nodes with the seven servers of `test_service.sh`.

* `LoopInv`: `globalCountPortIncrs` and `countPortIncrs` are the numbers of pairs done, in all and for
  this server; the pairs done come before the others.  So a pair gets the name
  `Number` and the port `Offset` (`Counted`).
* `FilesInv`: the scripts of a kind are always part of the `Plan` of one selection.  As the names of
  a plan differ, a script overwrites no other one, and as its offsets do, no two clients share a
  port.  Needs no bet: late cleanups only take scripts away, and mode 3 places none.  It does need
  that modes 1 and 2 find no files of another selection.
* `PlacedInv`: the pairs done have their scripts, and all pairs are done when the nodes are started.
* `NetInv`, `StaticInv`, `SentInv`: what may be on its way at each point of a call; the static directory
  holds the script of one pair or is about to be emptied; the nodes of the scripts are
  those that are started and waited for.
* `NodesInv`: outside a round a node is quiet or has a cleanup coming; in a round a started node
  waits for `start.txt`, has it, or runs and has left one reading for each client that is
  through.  `PortsInv`: a server keeps the port of every client that has not run, which is what
  the three seconds of the bet `"start"` buy.
* `LocalInv`, `WrittenInv` (while no call has failed): no collected file outlives its round but for an
  `rm` on its way, what has been read are the readings of the nodes read, the json file has
  those of the rounds so far, each once.
* `CallsImplemented` adds `SelInv`, that the nodes started are those of the call's pairs.  A call,
  a script placed, the start, the output, an error and the return are steps of
  `MeasurementCalls`; all others are shown to change nothing a caller sees (`ControllerHides`, `StartHides`,
  `CleanupHides`, `NodeHides`).  The cleanup is the one that matters: it leaves its node
  waiting for the next `start.txt` because no start is on its way outside a round.

Model-checked only: liveness under fairness (`EventuallyServed`, `Returns`, `Terminates`,
`Ends`), which with anything about ENABLED is beyond the prover here.  Every invariant, every
action property and both refinements that the passing runs check are theorems.  Induction over data
is done over sets and functions (`FoldTheorems`): the library's induction theorems take an
operator as a parameter, so these are stated of the set of the values that have the property
and derived from well-founded orders.

## Plan

*Composition.*  `DatasetLoop` and `LivePredict` make a call one or two steps of their own and
should be shown to be callers of `MeasurementCalls` (kinds and pairs are theirs already,
durations would have to be added).  With it `RecordsRound` would bear on the
samples, and `Plan` on the scripts that mode 3 presumes.

## Not modelled

Training, the forest's numerics (with the refactoring vector of
`genRefactoringVector.py` and the features of `rfPredict.py`), statistics, distances
and the memory load are straight computations.  `greedyApp`'s target bandwidths are a
product of two matrices.  Launching instances is input and output against cloud providers.
The transport under `fetchBlocks`, the server side of the block transfer service and the
optimizer process are external; the models allow any behaviour of them that the
code can see.
