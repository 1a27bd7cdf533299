---------------------------- MODULE LivePredict ----------------------------
(***************************************************************************)
(* The live prediction, src/predict/livePredictor.py: a script that an     *)
(* operator starts again and again.  Each invocation may measure static    *)
(* and dynamic bandwidths, always measures a snapshot, predicts, and       *)
(* appends a line to compareStatus.txt.  Between invocations the state is  *)
(* in files: the json files, of which the number of snapshots gives the    *)
(* next index, the test_duration in the template of the clients, and what  *)
(* is left on the nodes and, of their status files, in reportPath.         *)
(*                                                                         *)
(* A call of runMonitor is two steps here (MonitorRound has its inside):   *)
(* it places scripts and start.txt, then collects status.txt and cleans    *)
(* up, or fails, or waits without end where no status.txt appears.  It     *)
(* takes a copy of a status file that is in reportPath for an answer; a    *)
(* successful call removes each copy it has read, but a failed or killed   *)
(* one leaves copies there, which the next call reads, whatever it is for. *)
(* The operator can kill the script in any state.  All nodes take part in  *)
(* all calls and act alike, so that one set of node variables stands for   *)
(* them (of a static call, which goes over the pairs, this is the last     *)
(* pair); only the copies may be of different calls.  Readings are         *)
(* abstracted to the kind of call they are of, their duration and when     *)
(* they were taken.                                                        *)
(***************************************************************************)
EXTENDS Integers, Sequences, FiniteSets

CONSTANTS
    Configs,        \* the configurations and operators, see ConfigAssumption
    MaxInvocations, \* bound: invocations of livePredictor.py
    MaxAborts       \* bound: calls of runMonitor that return -1, and kills

ASSUME ConfigAssumption ==
    \A c \in Configs : /\ c.captureStatic \in BOOLEAN
                       /\ c.compareFrequency \in Nat \ {0}
                       /\ c.operator \in {"documented", "careful"}
ASSUME BoundAssumption ==
    MaxInvocations \in Nat /\ MaxAborts \in Nat

Kind == {"static", "dynamic", "snapshot"}
NoScripts == 0
None == "none"

VARIABLES
    config,
    pc,            \* "idle", a Kind, "shorten", "lengthen" or "report"
    calling,       \* a call of runMonitor has started the nodes
    statusCode,    \* what the snapshot's call returned: "None" or "-1"
    index, mode, dynamicFlowOn,
    test_duration, \* in bwtesting-client-copy.py, from which clients are made
    scripts,       \* scripts[k]: the duration of the scripts in a directory
    service,       \* bwtesting.service is "waiting" for start.txt or "spent"
    start,         \* the start.txt that no service has taken, by its Kind
    status,        \* the readings in status.txt
    local,         \* the readings in the copies of status files in reportPath
    files,         \* files[k][i]: the readings in the json file of index i
    verdicts,      \* the lines of compareStatus.txt
    round,         \* number of invocations
    failures, kills, aborted \* history: the last are the indices concerned

invocation == <<calling, statusCode, index, mode, dynamicFlowOn>>
node == <<scripts, service, start, status>>
stored == <<node, local, files>>
history == <<round, failures, kills, aborted>>
vars == <<config, pc, invocation, test_duration, stored, verdicts, history>>

-----------------------------------------------------------------------------
Named(k) == IF k = "snapshot" THEN 1 ELSE 20

\* A mutant of Compares: the first invocation counts as zero.
ComparesLate == (index - 1) % config.compareFrequency = 0

Compares == index % config.compareFrequency = 0

\* A mutant of NextIndex: the index of the last snapshot.
NextIndexLast == Cardinality({i \in DOMAIN files["snapshot"] : files["snapshot"][i] # {}})

\* A mutant of NextIndex: all invocations write the same files.
NextIndexFixed == 1

\* One more than there are snapshot files.
NextIndex == Cardinality({i \in DOMAIN files["snapshot"] : files["snapshot"][i] # {}}) + 1

\* The mode on the command line.  The comment asks for 2 at first and for 3
\* from then on; a careful operator uses 3 only while the nodes have scripts
\* of both kinds.
Modes ==
    IF config.operator = "documented" THEN {IF round = 0 THEN 2 ELSE 3}
    ELSE {1, 2} \union (IF NoScripts \in {scripts["dynamic"], scripts["snapshot"]}
                        THEN {} ELSE {3})

Init ==
    /\ config \in Configs
    /\ pc = "idle" /\ calling = FALSE /\ statusCode = "None"
    /\ index = 1 /\ mode = 2 /\ dynamicFlowOn = FALSE
    /\ test_duration = 20
    /\ scripts = [k \in Kind |-> NoScripts]
    /\ service = "waiting" /\ start = None /\ status = {} /\ local = {}
    /\ files = [k \in Kind |-> [i \in 1 .. MaxInvocations |-> {}]]
    /\ verdicts = {}
    /\ round = 0 /\ failures = 0 /\ kills = 0 /\ aborted = {}

Invoke ==
    /\ pc = "idle" /\ round < MaxInvocations
    /\ round' = round + 1
    /\ index' = NextIndex
    /\ mode' \in Modes
    /\ dynamicFlowOn' = FALSE /\ statusCode' = "None"
    /\ pc' = IF config.captureStatic THEN "static" ELSE "dynamic"
    /\ UNCHANGED <<config, calling, test_duration, stored, verdicts,
                   failures, kills, aborted>>

\* Only every compareFrequency-th index has a dynamic measurement.
SkipDynamic ==
    /\ pc = "dynamic" /\ ~calling /\ ~Compares
    /\ pc' = "shorten"
    /\ UNCHANGED <<config, invocation, test_duration, stored, verdicts, history>>

\* sed replaces one duration by the other (neither 1 nor 20 begins like the other).
Sed(old, new) == IF test_duration = old THEN new ELSE test_duration

Shorten ==
    /\ pc = "shorten"
    /\ test_duration' = Sed(20, 1)
    /\ pc' = "snapshot"
    /\ UNCHANGED <<config, invocation, stored, verdicts, history>>

\* A mutant of Lengthen: an error is raised before the duration is restored.
LengthenLate ==
    /\ pc = "lengthen"
    /\ test_duration' = IF statusCode = "None" THEN Sed(1, 20) ELSE test_duration
    /\ pc' = IF statusCode = "None" THEN "report" ELSE "idle"
    /\ UNCHANGED <<config, invocation, stored, verdicts, history>>

\* The duration is restored first, then an error of the snapshot is raised.
Lengthen ==
    /\ pc = "lengthen"
    /\ test_duration' = Sed(1, 20)
    /\ pc' = IF statusCode = "None" THEN "report" ELSE "idle"
    /\ UNCHANGED <<config, invocation, stored, verdicts, history>>

-----------------------------------------------------------------------------
(* A call of runMonitor and the nodes. *)

callMode == IF pc = "static" THEN 1 ELSE mode

\* What a service adds to status.txt that finds a start.txt of kind k.
Measured(k, s) ==
    IF s[k] = NoScripts THEN {}
    ELSE {[kind |-> k, duration |-> s[k], measured |-> round]}

\* The scripts are sent, except in mode 3, and the nodes are started.  A
\* service that has not been restarted since its last round leaves start.txt.
StartCall ==
    /\ pc \in Kind /\ ~calling /\ (pc = "dynamic" => Compares)
    /\ calling' = TRUE
    /\ LET s == IF callMode = 3 THEN scripts ELSE [scripts EXCEPT ![pc] = test_duration] IN
       /\ scripts' = s
       /\ IF service = "waiting"
          THEN status' = status \union Measured(pc, s) /\ service' = "spent" /\ UNCHANGED start
          ELSE start' = pc /\ UNCHANGED <<service, status>>
    /\ UNCHANGED <<config, pc, statusCode, index, mode, dynamicFlowOn, test_duration,
                   local, files, verdicts, history>>

\* A mutant of Cleanup: status.txt stays.
CleanupKeepsStatus(s) ==
    /\ scripts' = s
    /\ status' = IF start = None THEN status ELSE status \union Measured(start, s)
    /\ service' = IF start = None THEN "waiting" ELSE "spent"
    /\ start' = None

\* A mutant of Cleanup: the service is not restarted.
CleanupNoRestart(s) ==
    /\ scripts' = s
    /\ status' = {}
    /\ UNCHANGED <<service, start>>

\* cleanup.sh with scripts s left: status.txt is removed and the service
\* restarted.  If a start.txt is there it begins the next round at once.
Cleanup(s) ==
    /\ scripts' = s
    /\ status' = IF start = None THEN {} ELSE Measured(start, s)
    /\ service' = IF start = None THEN "waiting" ELSE "spent"
    /\ start' = None

\* An existing json file is not replaced, its readings are extended.
Recorded(readings) ==
    [files EXCEPT ![pc][index] =
        @ \union {[kind |-> r.kind, duration |-> r.duration, measured |-> r.measured,
                   recorded |-> round] : r \in readings}]

\* A mutant of Cleared: the scripts of the call, whatever the mode.
ClearedAlways == pc

\* The directory that is emptied after a success: mode 1 takes away the
\* scripts of the call, the other modes empty the directory of static ones.
Cleared == IF callMode = 1 THEN pc ELSE "static"

following == CASE pc = "static" -> "dynamic"
             [] pc = "dynamic" -> "shorten"
             [] pc = "snapshot" -> "lengthen"

\* What a call may read: of every node a copy that is there when it looks, or
\* the new one.
Answers == {old \union new : old \in SUBSET local, new \in {{}, status}} \ {{}}

\* All copies in reportPath are read and removed, or overwritten first; but a new
\* copy may come after the old one was read.
Succeed ==
    /\ calling
    /\ \E readings \in Answers :
          /\ files' = Recorded(readings)
          /\ local' \in {{}} \union IF readings \intersect local = {} THEN {} ELSE {status}
    /\ calling' = FALSE
    /\ Cleanup([scripts EXCEPT ![Cleared] = NoScripts])
    /\ dynamicFlowOn' = (dynamicFlowOn \/ pc = "dynamic")
    /\ pc' = following
    /\ UNCHANGED <<config, statusCode, index, mode, test_duration, verdicts, history>>

\* An exception while the status files are read: -1 is returned after all
\* directories on the nodes have been emptied, and raised at once unless the call
\* is that of the snapshot.  No copy is removed that was not read.  A static call
\* may have recorded pairs before.
Fail ==
    /\ calling /\ Answers # {} /\ failures + kills < MaxAborts
    /\ calling' = FALSE
    /\ failures' = failures + 1 /\ aborted' = aborted \union {index}
    /\ files' \in {files} \union IF pc = "static" THEN {Recorded(r) : r \in Answers} ELSE {}
    /\ local' \in SUBSET (local \union status)
    /\ Cleanup([k \in Kind |-> NoScripts])
    /\ IF pc = "snapshot" THEN pc' = "lengthen" /\ statusCode' = "-1"
       ELSE pc' = "idle" /\ UNCHANGED statusCode
    /\ UNCHANGED <<config, index, mode, dynamicFlowOn, test_duration, verdicts,
                   round, kills>>

-----------------------------------------------------------------------------
\* The readings of a file have the fields that getMetricsFromFile looks up:
\* clients write other fields for a second than for longer durations.
Readable(k) == \A r \in files[k][index] : r.duration = Named(k)

\* The files that are read, in the end with captureStatic a comparison that
\* needs dynamic values: otherwise the script ends with an exception.
CanReport ==
    /\ config.captureStatic => Readable("static") /\ dynamicFlowOn
    /\ dynamicFlowOn => Readable("dynamic")
    /\ Readable("snapshot")

\* Channels are optimised (GreedyOptimization) and a line is written, of what
\* was compared with the dynamic bandwidths: static ones, if measured, take
\* the place of the predicted.
Report ==
    /\ pc = "report"
    /\ verdicts' = IF CanReport
                   THEN verdicts \union
                          {[index |-> index,
                            compared |-> IF config.captureStatic THEN "static"
                                         ELSE IF dynamicFlowOn THEN "predicted"
                                         ELSE "nothing"]}
                   ELSE verdicts
    /\ pc' = "idle"
    /\ UNCHANGED <<config, invocation, test_duration, stored, history>>

Kill ==
    /\ pc # "idle" /\ failures + kills < MaxAborts
    /\ kills' = kills + 1 /\ aborted' = aborted \union {index}
    /\ pc' = "idle" /\ calling' = FALSE
    /\ local' \in IF calling THEN SUBSET (local \union status) ELSE {local}
    /\ UNCHANGED <<config, statusCode, index, mode, dynamicFlowOn, test_duration, node,
                   files, verdicts, round, failures>>

\* The steps of the script.
Step == \/ SkipDynamic \/ Shorten \/ Lengthen \/ StartCall \/ Succeed \/ Fail \/ Report

Next == Invoke \/ Step \/ Kill

Spec == Init /\ [][Next]_vars

\* The script runs; nobody has to start or kill it.
FairSpec == Spec /\ WF_vars(Step)

-----------------------------------------------------------------------------
(* Properties. *)

Reading == [kind : Kind, duration : {1, 20}, measured : Nat]
Record == [kind : Kind, duration : {1, 20}, measured : Nat, recorded : Nat]

\* Every variable has its type; in particular an index is never beyond the
\* number of invocations.
TypeOK ==
    /\ config \in Configs
    /\ pc \in Kind \union {"idle", "shorten", "lengthen", "report"}
    /\ calling \in BOOLEAN /\ (calling => pc \in Kind) /\ statusCode \in {"None", "-1"}
    /\ index \in 1 .. MaxInvocations + 1 /\ (pc # "idle" => index <= round)
    /\ mode \in {1, 2, 3} /\ dynamicFlowOn \in BOOLEAN
    /\ test_duration \in {1, 20}
    /\ scripts \in [Kind -> {NoScripts, 1, 20}]
    /\ service \in {"waiting", "spent"} /\ start \in Kind \union {None}
    /\ status \subseteq Reading /\ local \subseteq Reading
    /\ files \in [Kind -> [1 .. MaxInvocations -> SUBSET Record]]
    /\ \A v \in verdicts : v.index \in 1 .. MaxInvocations
    /\ round \in 0 .. MaxInvocations
    /\ failures \in Nat /\ kills \in Nat /\ failures + kills <= MaxAborts
    /\ aborted \subseteq 1 .. MaxInvocations

\* No later than in an invocation with index i a call failed or the script was
\* killed.
FailedBy(i) == \E a \in aborted : a <= i

\* The readings of a json file are those of a call of the kind in its name, unless
\* a call had failed or was killed by then, whose copies are taken for answers.
\* And as long as nobody killed the script every call measures for the duration
\* of its kind, whatever failed: the duration in the template and the scripts
\* that modes 2 and 3 leave on the nodes are never those of another.
MeasuredAsNamed ==
    \A k \in Kind : \A i \in 1 .. MaxInvocations : \A r \in files[k][i] :
        /\ r.kind = k \/ FailedBy(i)
        /\ kills = 0 => r.duration = Named(r.kind)

\* A reading that is recorded was taken by the same invocation unless a call had
\* failed or was killed by then.  Otherwise it is at most as many invocations
\* older as calls failed and invocations were killed, and one more if any was
\* killed: that leaves a spent service or a start.txt behind as well as copies.
StalenessBounded ==
    \A k \in Kind : \A i \in 1 .. MaxInvocations : \A r \in files[k][i] :
        /\ r.recorded = r.measured \/ FailedBy(i)
        /\ r.recorded - r.measured \in
             0 .. failures + (IF kills = 0 THEN 0 ELSE kills + 1)

\* The index that is computed from the number of snapshot files is never one
\* that has a snapshot, so that no snapshot is mixed into another; a static or
\* dynamic file is extended, its readings then being added up, only where an
\* earlier invocation with its index was aborted.
IndexFresh ==
    \A k \in Kind : \A i \in 1 .. MaxInvocations : \A r, q \in files[k][i] :
        r.recorded # q.recorded => k # "snapshot" /\ i \in aborted

\* The line of the invocations with index i that end, if they write one.
Line(i) ==
    [index |-> i, compared |-> IF config.captureStatic THEN "static"
                               ELSE IF i % config.compareFrequency = 0 THEN "predicted"
                               ELSE "nothing"]

\* Whether there is to be one: static bandwidths are compared with dynamic ones.
HasLine(i) == config.captureStatic => i % config.compareFrequency = 0

\* Every line is that of a snapshot and compares what its index asks for, even
\* after failed calls and kills; and every snapshot has its line unless a call
\* had failed or was killed by then.
Reported ==
    pc = "idle" =>
        /\ \A v \in verdicts : /\ v = Line(v.index) /\ HasLine(v.index)
                               /\ files["snapshot"][v.index] # {}
        /\ \A i \in 1 .. MaxInvocations :
              files["snapshot"][i] # {} /\ HasLine(i) => Line(i) \in verdicts \/ FailedBy(i)

\* A call that waits without end, unless there are copies to take for answers.
Hung == calling /\ status = {}

\* Unless the script was killed, only the documented modes make it hang, in
\* mode 3: at the first dynamic measurement, if that is not in the first
\* invocation, the only one to send scripts; or after a failed call took the
\* scripts away.
HangsAsDocumented ==
    Hung /\ kills = 0 =>
        /\ config.operator = "documented" /\ mode = 3
        /\ \/ pc = "dynamic" /\ \A i \in 1 .. MaxInvocations : files["dynamic"][i] = {}
           \/ failures > 0

\* An invocation of a careful operator ends, unless an earlier one was killed:
\* the nodes are ready for every call, after failed ones too.
Ends == (pc # "idle" /\ kills = 0 /\ config.operator = "careful") ~> pc = "idle"
=============================================================================
