---------------------------- MODULE DatasetLoop ----------------------------
(***************************************************************************)
(* The dataset loop of src/main.py: for every sample a random selection of *)
(* data centers, for every duration a static and a dynamic measurement,    *)
(* retries, the cleanup mode, and the test_duration that sed keeps editing *)
(* in the client file.                                                     *)
(*                                                                         *)
(* A call of runMonitor is one step here (MonitorRound has its inside): it *)
(* succeeds or returns -1, and what counts for the loop is what it does to *)
(* the json files, to the client scripts on the nodes and to the copies of *)
(* the nodes' status files in datasetPath.  A successful call removes each *)
(* copy it has read; a failed one removes none of those it has not, and    *)
(* the next call takes a copy that is there for an answer, whatever call   *)
(* it was fetched by.  A call that has a selected node without a usable    *)
(* script and without such a copy never returns: no client writes a        *)
(* status.txt there and measure.py polls for it without end.  Neither      *)
(* outcome is then enabled and the loop is stuck.                          *)
(*                                                                         *)
(* The program may crash anywhere.  It is then started again on new        *)
(* instances with resumeDatasetFromIndex set; the client files on the      *)
(* controller and datasetPath are as the crash left them.  A crash inside  *)
(* a call leaves what a failed call does, and is modelled as one and a     *)
(* crash after it.                                                         *)
(*                                                                         *)
(* Left out: launching and terminating instances, the wait between two     *)
(* samples, and the training that may follow.                              *)
(***************************************************************************)
EXTENDS Integers, Sequences, FiniteSets, Functions

CONSTANTS
    Configs,      \* the config.cfg files considered, see ConfigAssumption
    MaxErrors,    \* bound: number of calls of runMonitor that fail, per config
    MaxCrashes    \* bound: number of crashes

ASSUME ConfigAssumption ==
    \A c \in Configs :
        /\ c.NUM_DATACENTERS \in Nat \ {0, 1}
        /\ c.runForDurations \in Seq(Nat \ {0})
        /\ c.RUN_MODE \in {"STATIC", "DYNAMIC", "BOTH"}
        /\ c.maxRetries \in Nat /\ c.datasetSize \in Nat
        /\ c.statusProgressMsgEnabled \in BOOLEAN
ASSUME MaxErrorsAssumption == MaxErrors \in [Configs -> Nat]
ASSUME MaxCrashesAssumption == MaxCrashes \in Nat

Kind == {"static", "snapshot", "dynamic"}

VARIABLES
    config,        \* the configuration of this execution
    pc,            \* "sample", "duration", "static", "dynamic" or "finished"
    index,         \* the sample being measured
    selectedIPsForProbe,
    d,             \* position in runForDurations
    maxRetries,
    cleanupMode,
    prevRunDurationRef,
    test_duration, \* what bwtesting-client.py and its copy say
    scripts,       \* scripts[k][n]: the client scripts on node n, <<server, duration>>
    local,         \* local[n]: the copy of n's status file in datasetPath, if any
    files,         \* the json files written
    errors, failed, \* history: number of failed calls; samples with a failed
                    \* call or under way at a crash
    crashes, resumed \* history: number of crashes; where the loop was resumed

restarts == <<crashes, resumed>>
stored == <<scripts, local, files>>
loop == <<index, selectedIPsForProbe, d, maxRetries, cleanupMode>>
vars == <<config, pc, loop, prevRunDurationRef, test_duration, stored,
          errors, failed, restarts>>

-----------------------------------------------------------------------------
Datacenter == 1 .. config.NUM_DATACENTERS

\* The configured durations, with 1 put in front unless it is there.
runForDurations ==
    IF 1 \in Range(config.runForDurations) THEN config.runForDurations
    ELSE <<1>> \o config.runForDurations

runDuration == runForDurations[d]

\* All data centers, or at least two of them but never the first: the draw of
\* the members starts at 2.
Selection ==
    {Datacenter}
    \union {S \in SUBSET (Datacenter \ {1}) :
              Cardinality(S) \in 2 .. config.NUM_DATACENTERS - 1}

WantsStatic == config.RUN_MODE \in {"BOTH", "STATIC"} /\ runDuration # 1
WantsDynamic == config.RUN_MODE \in {"BOTH", "DYNAMIC"}
dynamicKind == IF runDuration = 1 THEN "snapshot" ELSE "dynamic"

\* A mutant of Persists: the directories are reused for all durations.
PersistsAlways == TRUE

\* Whether the scripts may stay on the nodes: there is one directory for
\* snapshots and one for a single other duration.
Persists == Len(runForDurations) = 2

\* The mode of the dynamic call.
dynamicMode == IF Persists /\ cleanupMode = 1 THEN 2 ELSE cleanupMode

\* Scripts as a call in mode 1 or 2 leaves them before it starts the nodes: a
\* script of an earlier call survives unless it is overwritten by name.
Placed(k, old) ==
    {[n \in Datacenter |->
        IF n \in selectedIPsForProbe
        THEN kept[n] \union ((selectedIPsForProbe \ {n}) \X {test_duration})
        ELSE old[n]] :
     kept \in {f \in [Datacenter -> SUBSET UNION Range(old)] :
                 \A n \in Datacenter : f[n] \subseteq old[n]}}

\* The durations a call with scripts s on the nodes measures; only the servers
\* of selected nodes run.
Ran(s) == {p[2] : p \in {q \in UNION {s[n] : n \in selectedIPsForProbe} :
                            q[1] \in selectedIPsForProbe}}

\* The selected nodes with a script to run against a running server.
Usable(s) ==
    {n \in selectedIPsForProbe : \E p \in s[n] : p[1] \in selectedIPsForProbe}

\* What a status file of a call with scripts s says: it is known by its call.
Reading(k, s) == [kind |-> k, index |-> index, duration |-> runDuration,
                  ran |-> Ran(s), nodes |-> selectedIPsForProbe]

\* The copies of their status files that are in datasetPath.
CopiesOf(N) == UNION {local[n] : n \in N}

\* The json file of a call that reads the copies of nodes old as they are there
\* when it looks, and waits for a new copy from nodes new.
File(k, s, old, new) ==
    [kind |-> k, index |-> index, duration |-> runDuration,
     readings |-> CopiesOf(old) \union IF new = {} THEN {} ELSE {Reading(k, s)}]

\* The selected nodes with a copy of their status file in datasetPath.
Stale == {n \in selectedIPsForProbe : local[n] # {}}

\* A mutant of Copies: a copy is not removed after it is read.
CopiesKept(k, s, late, gone) ==
    [n \in Datacenter |-> IF n \in late \union gone THEN {Reading(k, s)} ELSE local[n]]

\* The copies after the call: new ones of the nodes late have come and were not
\* read, those of the nodes gone were read and removed or overwritten.
Copies(k, s, late, gone) ==
    [n \in Datacenter |-> IF n \in late THEN {Reading(k, s)}
                          ELSE IF n \in gone THEN {} ELSE local[n]]

\* A call with scripts s reads one copy at least of every selected node.  Where
\* the one read was there before, the new one may come after it was removed.
Collects(k, s) ==
    \E old \in SUBSET Stale, new \in SUBSET Usable(s) :
        /\ old \union new = selectedIPsForProbe
        /\ files' = files \union {File(k, s, old, new)}
        /\ \E late \in SUBSET (old \intersect Usable(s)) :
              local' = Copies(k, s, late, selectedIPsForProbe)

\* A call that fails has read and removed some copies and leaves the others.
Leaves(k, s, gone) ==
    \E late \in SUBSET Usable(s) : local' = Copies(k, s, late, gone)

\* The directories after the cleanup of nodes N.
Emptied(s, N) == [n \in Datacenter |-> IF n \in N THEN {} ELSE s[n]]

-----------------------------------------------------------------------------
Init ==
    /\ config \in Configs
    /\ pc = "sample" /\ index = 1 /\ d = 1
    /\ selectedIPsForProbe = {}
    /\ maxRetries = config.maxRetries
    /\ cleanupMode = 1
    /\ prevRunDurationRef = 20 /\ test_duration = 20
    /\ scripts = [k \in Kind |-> [n \in Datacenter |-> {}]]
    /\ local = [n \in Datacenter |-> {}]
    /\ files = {}
    /\ errors = 0 /\ failed = {}
    /\ crashes = 0 /\ resumed = {}

\* The while loop begins a sample: the data centers to probe are drawn.
BeginSample ==
    /\ pc = "sample" /\ index <= config.datasetSize
    /\ selectedIPsForProbe' \in Selection
    /\ d' = 1
    /\ pc' = "duration"
    /\ UNCHANGED <<config, index, maxRetries, cleanupMode, prevRunDurationRef,
                   test_duration, stored, errors, failed, restarts>>

\* The powers of ten by which some last digits of a duration are cut off.
Powers == {1, 10, 100, 1000, 10000, 100000, 1000000}

\* sed replaces the digits it expects in the client files, also where more
\* digits follow them: looking for 2 it makes 15 followed by 0 of a 20.  It does
\* nothing where the files say something else.
Sed(old, new) ==
    IF \E p \in Powers : test_duration \div p = old
    THEN LET p == CHOOSE q \in Powers : test_duration \div q = old
         IN new * p + (test_duration % p)
    ELSE test_duration

\* A mutant of SetDuration: prevRunDurationRef is forgotten.
SetDurationForgets ==
    /\ pc = "duration" /\ d <= Len(runForDurations)
    /\ test_duration' = Sed(prevRunDurationRef, runDuration)
    /\ pc' = "static"
    /\ UNCHANGED <<config, loop, prevRunDurationRef, stored, errors, failed, restarts>>

\* The for loop begins a duration.
SetDuration ==
    /\ pc = "duration" /\ d <= Len(runForDurations)
    /\ test_duration' = Sed(prevRunDurationRef, runDuration)
    /\ prevRunDurationRef' = runDuration
    /\ pc' = "static"
    /\ UNCHANGED <<config, loop, stored, errors, failed, restarts>>

\* A mutant of Renewed: a retry is added for every success.
RenewedMore == IF config.statusProgressMsgEnabled THEN maxRetries + 1 ELSE maxRetries

\* After a success the retries are renewed, but only where progress messages
\* are enabled: the assignment stands under that condition.
Renewed == IF config.statusProgressMsgEnabled THEN config.maxRetries ELSE maxRetries

SkipStatic ==
    /\ pc = "static" /\ ~WantsStatic
    /\ pc' = "dynamic"
    /\ UNCHANGED <<config, loop, prevRunDurationRef, test_duration, stored,
                   errors, failed, restarts>>

\* A static measurement, always in mode 1, succeeds: its scripts are removed.
StaticDone ==
    /\ pc = "static" /\ WantsStatic
    /\ \E s \in Placed("static", scripts["static"]) :
          /\ Collects("static", s)
          /\ scripts' = [scripts EXCEPT !["static"] = Emptied(s, selectedIPsForProbe)]
    /\ maxRetries' = Renewed
    /\ pc' = "dynamic"
    /\ UNCHANGED <<config, index, selectedIPsForProbe, d, cleanupMode,
                   prevRunDurationRef, test_duration, errors, failed, restarts>>

\* After a failed call: with retries left the loop says it retries and goes on
\* to the next duration, without retries it says it exits and leaves the loop
\* over the durations.  (The files it removes are not the ones measure.py
\* writes: their names lack the duration.)
AfterError(retryMode, mode) ==
    /\ errors < MaxErrors[config] /\ errors' = errors + 1
    /\ failed' = failed \union {index}
    /\ IF maxRetries > 0
       THEN maxRetries' = maxRetries - 1 /\ d' = d + 1 /\ cleanupMode' = retryMode
       ELSE d' = Len(runForDurations) + 1 /\ cleanupMode' = mode /\ UNCHANGED maxRetries
    /\ pc' = "duration"

\* A static measurement fails at a pair of nodes, whose three directories are
\* emptied; nodes after the pair have not been touched.  If it was not the
\* first pair, the file has the readings of the pairs before.
StaticFails ==
    /\ pc = "static" /\ WantsStatic
    /\ AfterError(cleanupMode, cleanupMode)
    /\ \E pair \in SUBSET selectedIPsForProbe :
          /\ Cardinality(pair) = 2
          /\ scripts' = [k \in Kind |-> Emptied(scripts[k], pair)]
    /\ \E s \in Placed("static", scripts["static"]), gone \in SUBSET selectedIPsForProbe :
          /\ Leaves("static", s, gone)
          /\ \/ UNCHANGED files
             \/ \E old \in SUBSET (gone \intersect Stale), new \in SUBSET Usable(s) :
                   /\ old \union new # {}
                   /\ files' = files \union {File("static", s, old, new)}
    /\ UNCHANGED <<config, index, selectedIPsForProbe, prevRunDurationRef,
                   test_duration, restarts>>

SkipDynamic ==
    /\ pc = "dynamic" /\ ~WantsDynamic
    /\ d' = d + 1
    /\ pc' = "duration"
    /\ UNCHANGED <<config, index, selectedIPsForProbe, maxRetries, cleanupMode,
                   prevRunDurationRef, test_duration, stored, errors, failed, restarts>>

\* A dynamic or snapshot measurement succeeds.  Mode 3 runs the scripts that are
\* there; mode 1 removes its scripts, mode 2 leaves them.
DynamicDone ==
    /\ pc = "dynamic" /\ WantsDynamic
    /\ LET k == dynamicKind IN
       \E s \in IF dynamicMode = 3 THEN {scripts[k]} ELSE Placed(k, scripts[k]) :
          /\ Collects(k, s)
          /\ scripts' = [scripts EXCEPT ![k] =
                IF dynamicMode = 1 THEN Emptied(s, selectedIPsForProbe) ELSE s]
    /\ cleanupMode' = dynamicMode
    /\ maxRetries' = Renewed
    /\ d' = d + 1
    /\ pc' = "duration"
    /\ UNCHANGED <<config, index, selectedIPsForProbe, prevRunDurationRef,
                   test_duration, errors, failed, restarts>>

\* A dynamic or snapshot measurement fails: the selected nodes lose the scripts
\* of all kinds, and the next call sends them again if there are retries left.
DynamicFails ==
    /\ pc = "dynamic" /\ WantsDynamic
    /\ AfterError(1, dynamicMode)
    /\ scripts' = [k \in Kind |-> Emptied(scripts[k], selectedIPsForProbe)]
    /\ LET k == dynamicKind IN
       \E s \in IF dynamicMode = 3 THEN {scripts[k]} ELSE Placed(k, scripts[k]),
         gone \in SUBSET selectedIPsForProbe : Leaves(k, s, gone)
    /\ UNCHANGED <<config, index, selectedIPsForProbe, prevRunDurationRef,
                   test_duration, files, restarts>>

\* A mutant of EndSample: a sample is skipped with every step.
EndSampleSkips ==
    /\ pc = "duration" /\ d > Len(runForDurations)
    /\ cleanupMode' = IF WantsDynamic /\ Persists /\ cleanupMode = 2 THEN 3 ELSE cleanupMode
    /\ index' = index + 2
    /\ pc' = "sample"
    /\ UNCHANGED <<config, selectedIPsForProbe, d, maxRetries, prevRunDurationRef,
                   test_duration, stored, errors, failed, restarts>>

\* A mutant of EndSample: the index is not advanced.
EndSampleStays ==
    /\ pc = "duration" /\ d > Len(runForDurations)
    /\ cleanupMode' = IF WantsDynamic /\ Persists /\ cleanupMode = 2 THEN 3 ELSE cleanupMode
    /\ pc' = "sample"
    /\ UNCHANGED <<config, index, selectedIPsForProbe, d, maxRetries,
                   prevRunDurationRef, test_duration, stored, errors, failed, restarts>>

\* The durations are through: the next sample may use the scripts that are on
\* the nodes.
EndSample ==
    /\ pc = "duration" /\ d > Len(runForDurations)
    /\ cleanupMode' = IF WantsDynamic /\ Persists /\ cleanupMode = 2 THEN 3 ELSE cleanupMode
    /\ index' = index + 1
    /\ pc' = "sample"
    /\ UNCHANGED <<config, selectedIPsForProbe, d, maxRetries, prevRunDurationRef,
                   test_duration, stored, errors, failed, restarts>>

\* All samples are through: the client files get back their duration.
Finish ==
    /\ pc = "sample" /\ index > config.datasetSize
    /\ test_duration' = Sed(prevRunDurationRef, 20)
    /\ pc' = "finished"
    /\ UNCHANGED <<config, loop, prevRunDurationRef, stored, errors, failed, restarts>>

Finished == pc = "finished" /\ UNCHANGED vars

\* The program has crashed and is started again, with the sample that was under
\* way or with the next one as resumeDatasetFromIndex; the comment on that
\* option asks that no files of samples to come exist.  A copy of a status file
\* left in datasetPath counts again if a new instance has its node's address.
Restart ==
    /\ pc # "finished" /\ crashes < MaxCrashes
    /\ crashes' = crashes + 1
    /\ failed' = failed \union ({index} \intersect (1 .. config.datasetSize))
    /\ index' \in {index, index + 1} /\ index' <= config.datasetSize + 1
    /\ resumed' = resumed \union {index'}
    /\ files' = {f \in files : f.index < index'}
    /\ pc' = "sample" /\ d' = 1 /\ selectedIPsForProbe' = {}
    /\ maxRetries' = config.maxRetries /\ cleanupMode' = 1
    /\ prevRunDurationRef' = 20
    /\ scripts' = [k \in Kind |-> [n \in Datacenter |-> {}]]
    /\ UNCHANGED <<config, test_duration, local, errors>>

Step == \/ BeginSample \/ SetDuration \/ SkipStatic \/ StaticDone \/ StaticFails
        \/ SkipDynamic \/ DynamicDone \/ DynamicFails \/ EndSample \/ Finish

Next == Step \/ Restart \/ Finished

Spec == Init /\ [][Next]_vars

\* One sequential program whose calls of runMonitor return when they can;
\* nothing makes it crash.
FairSpec == Spec /\ WF_vars(Step)

-----------------------------------------------------------------------------
(* Properties. *)

Readings == [kind : Kind, index : 1 .. config.datasetSize, duration : Nat \ {0},
             ran : SUBSET (Nat \ {0}), nodes : SUBSET Datacenter]

\* Every variable has its type; in particular cleanupMode is one of the three
\* modes and the retries stay within what is configured.
TypeOK ==
    /\ config \in Configs
    /\ pc \in {"sample", "duration", "static", "dynamic", "finished"}
    /\ index \in 1 .. config.datasetSize + 1
    /\ selectedIPsForProbe \subseteq Datacenter
    /\ d \in 1 .. Len(runForDurations) + 1
    /\ maxRetries \in 0 .. config.maxRetries
    /\ cleanupMode \in {1, 2, 3}
    /\ prevRunDurationRef \in Range(runForDurations) \union {20}
    /\ test_duration \in Nat \ {0}
    /\ scripts \in [Kind -> [Datacenter -> SUBSET (Datacenter \X (Nat \ {0}))]]
    /\ local \in [Datacenter -> SUBSET Readings]
    /\ \A f \in files : /\ f.kind \in Kind /\ f.index \in 1 .. config.datasetSize
                        /\ f.readings \subseteq Readings
    /\ errors \in 0 .. MaxErrors[config]
    /\ failed \subseteq 1 .. config.datasetSize
    /\ crashes \in 0 .. MaxCrashes
    /\ resumed \subseteq 1 .. config.datasetSize + 1

\* Sample i was the first after a restart, or all since the first have failed.
Disturbed(i) == \E r \in resumed : r <= i /\ r .. i - 1 \subseteq failed

\* The loop was resumed at sample i or at one before it.
ResumedBy(i) == \E r \in resumed : r <= i

\* A duration begins like another one, so that sed may find the one in the other:
\* config.cfg's own example <2, 15, 30> has 15, which begins like the snapshots' 1.
Ambiguous ==
    \E x, y \in Range(runForDurations) \union {20} :
        x # y /\ \E p \in Powers : x \div p = y

\* No later than in sample i a call failed, or the program crashed.
FailedBy(i) == \E j \in failed : j <= i

\* What a call measures is the duration it is made for, whether its scripts were
\* sent for it or left on the nodes by an earlier call, and whatever failed in
\* between; and a json file has the readings of a call of another duration or
\* kind only if that call was made when one had failed, whose copies are taken
\* for answers.  After a restart sed looks for 20, which a crash may have
\* replaced; then the readings of a sample may be wrong, but its durations go
\* through the one that is there, and from the next sample on sed matches.  Not so
\* where scripts stay on the nodes (Persists), which keep the wrong duration, and
\* where sed may leave digits of the old duration behind the new one (Ambiguous):
\* there all samples after a restart may be wrong.
MeasuredAsNamed ==
    \A f \in files : \A r \in f.readings :
        /\ \/ r.ran = {r.duration}
           \/ Disturbed(r.index)
           \/ ResumedBy(r.index) /\ (Persists \/ Ambiguous)
        /\ (r.kind = f.kind /\ r.duration = f.duration) \/ FailedBy(r.index)

\* The files of a sample have the readings of that sample, all about the same
\* data centers: the model is trained on pairs of a snapshot and a dynamic file of
\* the same index.  Readings of an earlier sample get into them only where a
\* call had failed by then, and a sample that was begun again after a crash may
\* have been about two selections.
SampleCoherent ==
    \A f, g \in files : \A r \in f.readings, q \in g.readings :
        /\ r.index = f.index \/ FailedBy(r.index)
        /\ r.index = q.index => r.nodes = q.nodes \/ r.index \in resumed

Wanted(i) ==
    {<<"static", t>> : t \in {x \in Range(runForDurations) :
                               config.RUN_MODE # "DYNAMIC" /\ x # 1}}
    \union {<<IF t = 1 THEN "snapshot" ELSE "dynamic", t>> :
              t \in {x \in Range(runForDurations) : config.RUN_MODE # "STATIC"}}

\* A sample that is behind has all the files its configuration asks for, unless
\* one of its own calls failed or it was under way at a crash: no gap without
\* an error that was reported.
GapsReported ==
    \A i \in 1 .. index - 1 : i \notin failed =>
        {<<f.kind, f.duration>> : f \in {g \in files : g.index = i}} = Wanted(i)

\* The client files leave the loop with the duration with which the next start
\* of the program expects to find them, whatever the durations are; its sed would
\* otherwise match nothing.  After a crash they do unless no sample since then was
\* completed, or sed may have left digits behind (Ambiguous).
DurationRestored ==
    pc = "finished" =>
        test_duration = 20 \/ Disturbed(index) \/ (ResumedBy(index) /\ Ambiguous)

\* The dataset is completed.
Terminates == <>(pc = "finished")

\* "3 denotes no send and no cleanup (assuming monitoring files are already
\* transferred)": when the loop measures in mode 3, every selected node holds
\* the monitoring files of that measurement.
AlreadyTransferred ==
    pc = "dynamic" /\ WantsDynamic /\ dynamicMode = 3 =>
        \A n \in selectedIPsForProbe : scripts[dynamicKind][n] # {}
=============================================================================
