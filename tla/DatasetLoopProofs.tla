--------------------------- MODULE DatasetLoopProofs ---------------------------
(***************************************************************************)
(* Theorems about DatasetLoop, for every set of configurations and every   *)
(* bound on the number of failed calls and of crashes.                     *)
(***************************************************************************)
EXTENDS DatasetLoop, FiniteSetTheorems, SequenceTheorems, TLAPS

USE DEF Range, restarts

(* The durations of a configuration, 1 among them. *)
LEMMA Durations ==
  ASSUME config \in Configs
  PROVE  /\ runForDurations \in Seq(Nat \ {0})
         /\ 1 \in Range(runForDurations)
         /\ Len(runForDurations) \in Nat
         /\ \A i \in 1 .. Len(runForDurations) :
              runForDurations[i] \in Nat \ {0} /\ runForDurations[i] \in Range(runForDurations)
<1>1. config.runForDurations \in Seq(Nat \ {0})
  BY ConfigAssumption
<1>2. runForDurations \in Seq(Nat \ {0})
  <2>1. <<1>> \in Seq(Nat \ {0})
    OBVIOUS
  <2>2. <<1>> \o config.runForDurations \in Seq(Nat \ {0})
    BY <1>1, <2>1, ConcatProperties
  <2> QED  BY <1>1, <2>2 DEF runForDurations
<1>3. 1 \in Range(runForDurations)
  <2>1. CASE 1 \in Range(config.runForDurations)
    BY <2>1 DEF runForDurations
  <2>2. CASE 1 \notin Range(config.runForDurations)
    <3>1. runForDurations = <<1>> \o config.runForDurations
      BY <2>2 DEF runForDurations
    <3>2. runForDurations[1] = 1 /\ 1 \in DOMAIN runForDurations
      BY <1>1, <3>1
    <3> QED  BY <3>2
  <2> QED  BY <2>1, <2>2
<1>4. DOMAIN runForDurations = 1 .. Len(runForDurations)
  BY <1>2
<1> QED  BY <1>2, <1>3, <1>4

(* With two durations there is one besides 1. *)
LEMMA OneOther ==
  ASSUME config \in Configs, Persists,
         NEW i \in 1 .. Len(runForDurations), NEW j \in 1 .. Len(runForDurations),
         runForDurations[i] # 1, runForDurations[j] # 1
  PROVE  i = j
<1>1. PICK k \in DOMAIN runForDurations : runForDurations[k] = 1
  BY Durations
<1>2. k \in 1 .. Len(runForDurations)
  BY Durations
<1> QED  BY <1>1, <1>2 DEF Persists

--------------------------------------------------------------------------------
(* Types.                                                                  *)

ScriptSet == SUBSET (Datacenter \X (Nat \ {0}))

(* Where the loops stand. *)
Progress ==
  /\ pc \in {"duration", "static", "dynamic"} => index <= config.datasetSize
  /\ pc \in {"static", "dynamic"} => d <= Len(runForDurations)

TypeInv == TypeOK /\ Progress

(* The configuration is read once. *)
LEMMA SameConfig ==
  ASSUME UNCHANGED config
  PROVE  /\ runForDurations' = runForDurations /\ Datacenter' = Datacenter
         /\ Readings' = Readings
  BY DEF runForDurations, Datacenter, Readings

(* What sed makes of a duration is one again. *)
LEMMA SedType ==
  ASSUME test_duration \in Nat \ {0}, NEW old \in Nat \ {0}, NEW new \in Nat \ {0}
  PROVE  Sed(old, new) \in Nat \ {0}
<1>1. ASSUME NEW p \in Powers PROVE new * p + (test_duration % p) \in Nat \ {0}
  BY <1>1 DEF Powers
<1>2. CASE \E p \in Powers : test_duration \div p = old
  <2> DEFINE p == CHOOSE q \in Powers : test_duration \div q = old
  <2>1. p \in Powers
    BY <1>2
  <2>2. Sed(old, new) = new * p + (test_duration % p)
    BY <1>2 DEF Sed
  <2> QED  BY <1>1, <2>1, <2>2
<1>3. CASE ~ \E p \in Powers : test_duration \div p = old
  BY <1>3 DEF Sed
<1> QED  BY <1>2, <1>3

(* A duration that is the one sed looks for is replaced as a whole. *)
LEMMA SedMatches ==
  ASSUME test_duration \in Nat \ {0}, NEW new \in Nat \ {0}
  PROVE  Sed(test_duration, new) = new
<1>1. ASSUME NEW p \in Powers, test_duration \div p = test_duration PROVE p = 1
  BY <1>1 DEF Powers
<1>2. 1 \in Powers /\ test_duration \div 1 = test_duration
  BY DEF Powers
<1> DEFINE p == CHOOSE q \in Powers : test_duration \div q = test_duration
<1>3. p \in Powers /\ test_duration \div p = test_duration
  BY <1>2
<1>4. Sed(test_duration, new) = new * p + (test_duration % p)
  BY <1>2 DEF Sed
<1> HIDE DEF p
<1>5. p = 1
  BY <1>1, <1>3
<1>6. new * 1 + (test_duration % 1) = new
  OBVIOUS
<1> QED  BY <1>4, <1>5, <1>6

LEMMA PlacedShape ==
  ASSUME NEW k, NEW old \in [Datacenter -> ScriptSet], NEW s \in Placed(k, old)
  PROVE  /\ DOMAIN s = Datacenter
         /\ \A n \in Datacenter \ selectedIPsForProbe : s[n] = old[n]
         /\ \A n \in Datacenter : \A p \in s[n] :
              \/ p \in old[n]
              \/ p \in (selectedIPsForProbe \ {n}) \X {test_duration}
  BY DEF Placed

LEMMA PlacedType ==
  ASSUME NEW k, NEW old \in [Datacenter -> ScriptSet], NEW s \in Placed(k, old),
         test_duration \in Nat \ {0}, selectedIPsForProbe \subseteq Datacenter
  PROVE  s \in [Datacenter -> ScriptSet]
<1>1. ASSUME NEW n \in Datacenter PROVE s[n] \in ScriptSet
  BY PlacedShape DEF ScriptSet
<1>2. s = [n \in Datacenter |-> s[n]]
  BY DEF Placed
<1> QED  BY <1>1, <1>2

LEMMA EmptiedType ==
  ASSUME NEW s \in [Datacenter -> ScriptSet], NEW N
  PROVE  Emptied(s, N) \in [Datacenter -> ScriptSet]
  BY DEF Emptied, ScriptSet

(* What a call reads and leaves in datasetPath has its type. *)
LEMMA ReadingType ==
  ASSUME TypeInv, pc \in {"static", "dynamic"}, NEW k \in Kind,
         NEW s \in [Datacenter -> ScriptSet]
  PROVE  Reading(k, s) \in Readings
<1>1. index \in 1 .. config.datasetSize /\ selectedIPsForProbe \in SUBSET Datacenter
  BY ConfigAssumption DEF TypeInv, TypeOK, Progress
<1>2. runDuration \in Nat \ {0}
  BY Durations DEF TypeInv, TypeOK, Progress, runDuration
<1>3. Ran(s) \in SUBSET (Nat \ {0})
  <2>1. ASSUME NEW n \in selectedIPsForProbe, NEW q \in s[n] PROVE q[2] \in Nat \ {0}
    BY <1>1 DEF ScriptSet
  <2> QED  BY <2>1 DEF Ran
<1> QED  BY <1>1, <1>2, <1>3 DEF Reading, Readings

LEMMA CopiesType ==
  ASSUME local \in [Datacenter -> SUBSET Readings], NEW k, NEW s,
         Reading(k, s) \in Readings, NEW late, NEW gone
  PROVE  Copies(k, s, late, gone) \in [Datacenter -> SUBSET Readings]
<1>1. ASSUME NEW n \in Datacenter
      PROVE  (IF n \in late THEN {Reading(k, s)} ELSE IF n \in gone THEN {} ELSE local[n])
               \in SUBSET Readings
  OBVIOUS
<1> QED  BY <1>1 DEF Copies

(* The readings of a file are those of old copies and of new ones. *)
LEMMA FileReads ==
  ASSUME NEW k, NEW s, NEW old, NEW new
  PROVE  \A r \in File(k, s, old, new).readings :
           (\E n \in old : r \in local[n]) \/ (r = Reading(k, s) /\ new # {})
<1>1. File(k, s, old, new).readings =
        CopiesOf(old) \union IF new = {} THEN {} ELSE {Reading(k, s)}
  BY DEF File
<1>2. \A r \in CopiesOf(old) : \E n \in old : r \in local[n]
  BY DEF CopiesOf
<1> QED  BY <1>1, <1>2

LEMMA FileType ==
  ASSUME local \in [Datacenter -> SUBSET Readings], NEW k, NEW s,
         Reading(k, s) \in Readings, NEW old \in SUBSET Datacenter, NEW new
  PROVE  File(k, s, old, new).readings \subseteq Readings
<1> QED  BY FileReads

LEMMA InitTypeInv == Init => TypeInv
<1> SUFFICES ASSUME Init PROVE TypeInv
    OBVIOUS
<1>1. config \in Configs /\ config.datasetSize \in Nat /\ config.maxRetries \in Nat
  BY ConfigAssumption DEF Init
<1>2. MaxErrors[config] \in Nat
  BY <1>1, MaxErrorsAssumption
<1>3. scripts \in [Kind -> [Datacenter -> ScriptSet]]
  BY DEF Init, ScriptSet
<1>4. local \in [Datacenter -> SUBSET Readings]
  BY DEF Init
<1> QED  BY <1>1, <1>2, <1>3, <1>4, MaxCrashesAssumption, Durations
         DEF Init, TypeInv, TypeOK, Progress, ScriptSet

LEMMA CollectsType ==
  ASSUME TypeInv, pc \in {"static", "dynamic"}, NEW k \in Kind,
         NEW s \in [Datacenter -> ScriptSet], Collects(k, s)
  PROVE  /\ local' \in [Datacenter -> SUBSET Readings]
         /\ \A f \in files' : /\ f.kind \in Kind /\ f.index \in 1 .. config.datasetSize
                              /\ f.readings \subseteq Readings
<1>1. PICK old \in SUBSET Stale, new \in SUBSET Usable(s) :
         /\ files' = files \union {File(k, s, old, new)}
         /\ \E late \in SUBSET (old \intersect Usable(s)) :
               local' = Copies(k, s, late, selectedIPsForProbe)
  BY DEF Collects
<1>2. /\ Reading(k, s) \in Readings /\ local \in [Datacenter -> SUBSET Readings]
      /\ old \in SUBSET Datacenter
  BY <1>1, ReadingType DEF TypeInv, TypeOK, Stale
<1>3. local' \in [Datacenter -> SUBSET Readings]
  BY <1>1, <1>2, CopiesType
<1>4. File(k, s, old, new).readings \subseteq Readings
  BY <1>2, FileType
<1>5. File(k, s, old, new).kind \in Kind /\ File(k, s, old, new).index \in 1 .. config.datasetSize
  BY ConfigAssumption DEF File, TypeInv, TypeOK, Progress
<1> QED  BY <1>1, <1>3, <1>4, <1>5 DEF TypeInv, TypeOK

(* What a call of runMonitor leaves on the nodes keeps its type. *)
LEMMA ScriptsKeepType ==
  ASSUME NEW k \in Kind, scripts \in [Kind -> [Datacenter -> ScriptSet]],
         NEW s \in [Datacenter -> ScriptSet]
  PROVE  [scripts EXCEPT ![k] = s] \in [Kind -> [Datacenter -> ScriptSet]]
  OBVIOUS

LEMMA AllEmptiedType ==
  ASSUME scripts \in [Kind -> [Datacenter -> ScriptSet]], NEW N
  PROVE  [k \in Kind |-> Emptied(scripts[k], N)] \in [Kind -> [Datacenter -> ScriptSet]]
  BY EmptiedType

LEMMA NextTypeInv == TypeInv /\ [Next]_vars => TypeInv'
<1> SUFFICES ASSUME TypeInv, [Next]_vars PROVE TypeInv'
    OBVIOUS
<1> USE DEF TypeInv, TypeOK, Progress
<1>0. /\ config \in Configs
      /\ config.datasetSize \in Nat /\ config.maxRetries \in Nat
      /\ MaxErrors[config] \in Nat
      /\ index \in Nat /\ maxRetries \in Nat /\ errors \in Nat /\ d \in Nat
      /\ MaxCrashes \in Nat /\ crashes \in Nat
  BY ConfigAssumption, MaxErrorsAssumption, MaxCrashesAssumption, Durations
<1>1. /\ test_duration \in Nat \ {0} /\ prevRunDurationRef \in Nat \ {0}
      /\ Len(runForDurations) \in Nat
      /\ \A i \in 1 .. Len(runForDurations) : runForDurations[i] \in Range(runForDurations)
      /\ scripts \in [Kind -> [Datacenter -> ScriptSet]]
  BY Durations DEF ScriptSet
<1>2. UNCHANGED config =>
        /\ runForDurations' = runForDurations /\ Datacenter' = Datacenter
        /\ Readings' = Readings
  BY SameConfig
<1> HIDE DEF Range
<1>3. ASSUME NEW a, NEW b, AfterError(a, b), {a, b} \subseteq {1, 2, 3},
             pc \in {"static", "dynamic"}, UNCHANGED <<config, index>>
      PROVE  /\ pc' = "duration" /\ d' \in 1 .. Len(runForDurations) + 1
             /\ maxRetries' \in 0 .. config.maxRetries
             /\ cleanupMode' \in {1, 2, 3}
             /\ errors' \in 0 .. MaxErrors[config]
             /\ failed' \subseteq 1 .. config.datasetSize
  <2>1. pc' = "duration" /\ cleanupMode' \in {1, 2, 3}
    BY <1>3 DEF AfterError
  <2>2. d \in 1 .. Len(runForDurations) /\ d' \in {d + 1, Len(runForDurations) + 1}
    BY <1>0, <1>1, <1>3 DEF AfterError
  <2>3. maxRetries' \in 0 .. config.maxRetries
    BY <1>0, <1>3 DEF AfterError
  <2>4. errors' \in 0 .. MaxErrors[config]
    BY <1>0, <1>3 DEF AfterError
  <2>5. index \in 1 .. config.datasetSize /\ failed' = failed \union {index}
    BY <1>0, <1>3 DEF AfterError
  <2>6. d' \in 1 .. Len(runForDurations) + 1
    BY <1>1, <2>2
  <2>7. failed' \subseteq 1 .. config.datasetSize
    BY <2>5
  <2> QED  BY <2>1, <2>3, <2>4, <2>6, <2>7
<1>4. Renewed \in 0 .. config.maxRetries
  BY <1>0 DEF Renewed
<1>5. dynamicMode \in {1, 2, 3} /\ dynamicKind \in Kind /\ "static" \in Kind
  BY DEF dynamicMode, dynamicKind, Kind
<1>20. ASSUME UNCHANGED <<config, stored>>
       PROVE  /\ scripts' \in [Kind -> [Datacenter' -> SUBSET (Datacenter' \X (Nat \ {0}))]]
              /\ local' \in [Datacenter' -> SUBSET Readings']
              /\ \A f \in files' : /\ f.kind \in Kind /\ f.index \in 1 .. config.datasetSize
                                   /\ f.readings \subseteq Readings'
  BY <1>2, <1>20 DEF stored
<1> USE DEF stored
<1>6. CASE BeginSample
  <2>1. selectedIPsForProbe' \subseteq Datacenter
    BY <1>6 DEF BeginSample, Selection
  <2> QED  BY <1>0, <1>1, <1>2, <1>6, <1>20, <2>1 DEF BeginSample
<1>7. CASE SetDuration
  <2>1. runDuration \in Range(runForDurations) /\ runDuration \in Nat \ {0}
    BY <1>0, <1>1, <1>7, Durations DEF SetDuration, runDuration
  <2>2. test_duration' \in Nat \ {0}
    BY <1>1, <1>7, <2>1, SedType DEF SetDuration
  <2> QED  BY <1>0, <1>1, <1>2, <1>7, <1>20, <2>1, <2>2 DEF SetDuration, loop
<1>8. CASE SkipStatic
  BY <1>0, <1>1, <1>2, <1>8, <1>20 DEF SkipStatic, loop
<1>9. CASE StaticDone
  <2>1. PICK s \in Placed("static", scripts["static"]) :
           /\ Collects("static", s)
           /\ scripts' = [scripts EXCEPT !["static"] = Emptied(s, selectedIPsForProbe)]
    BY <1>9 DEF StaticDone
  <2>2. s \in [Datacenter -> ScriptSet]
    BY <1>1, <1>5, <2>1, PlacedType
  <2>3. scripts' \in [Kind -> [Datacenter -> ScriptSet]]
    BY <1>1, <1>5, <2>1, <2>2, EmptiedType, ScriptsKeepType
  <2>4. /\ local' \in [Datacenter -> SUBSET Readings]
        /\ \A f \in files' : /\ f.kind \in Kind /\ f.index \in 1 .. config.datasetSize
                             /\ f.readings \subseteq Readings
    BY <1>5, <1>9, <2>1, <2>2, CollectsType DEF StaticDone
  <2> QED  BY <1>0, <1>1, <1>2, <1>4, <1>9, <2>3, <2>4 DEF StaticDone, ScriptSet
<1>10. CASE StaticFails
  <2>1. scripts' \in [Kind -> [Datacenter -> ScriptSet]]
    BY <1>1, <1>10, AllEmptiedType DEF StaticFails
  <2>2. AfterError(cleanupMode, cleanupMode) /\ UNCHANGED <<config, index>>
    BY <1>10 DEF StaticFails
  <2>3. PICK s \in Placed("static", scripts["static"]), gone \in SUBSET selectedIPsForProbe :
           /\ Leaves("static", s, gone)
           /\ \/ UNCHANGED files
              \/ \E old \in SUBSET (gone \intersect Stale), new \in SUBSET Usable(s) :
                   files' = files \union {File("static", s, old, new)}
    BY <1>10 DEF StaticFails
  <2>4. s \in [Datacenter -> ScriptSet]
    BY <1>1, <1>5, <2>3, PlacedType
  <2>5. Reading("static", s) \in Readings
    BY <1>5, <1>10, <2>4, ReadingType DEF StaticFails
  <2>6. local' \in [Datacenter -> SUBSET Readings]
    BY <2>3, <2>5, CopiesType DEF Leaves
  <2>7. \A f \in files' : /\ f.kind \in Kind /\ f.index \in 1 .. config.datasetSize
                          /\ f.readings \subseteq Readings
    <3>1. CASE UNCHANGED files
      BY <3>1
    <3>2. ASSUME NEW old \in SUBSET (gone \intersect Stale), NEW new \in SUBSET Usable(s),
                 files' = files \union {File("static", s, old, new)}
          PROVE  \A f \in files' : /\ f.kind \in Kind /\ f.index \in 1 .. config.datasetSize
                                   /\ f.readings \subseteq Readings
      <4>1. old \in SUBSET Datacenter
        BY <3>2 DEF Stale
      <4>2. File("static", s, old, new).readings \subseteq Readings
        BY <2>5, <4>1, FileType
      <4>3. /\ File("static", s, old, new).kind \in Kind
            /\ File("static", s, old, new).index \in 1 .. config.datasetSize
        BY <1>0, <1>5, <1>10 DEF File, StaticFails
      <4> QED  BY <3>2, <4>2, <4>3
    <3> QED  BY <2>3, <3>1, <3>2
  <2> QED  BY <1>0, <1>1, <1>2, <1>3, <1>10, <2>1, <2>2, <2>6, <2>7 DEF StaticFails, ScriptSet
<1>11. CASE SkipDynamic
  BY <1>0, <1>1, <1>2, <1>11, <1>20 DEF SkipDynamic
<1>12. CASE DynamicDone
  <2>1. PICK s \in IF dynamicMode = 3 THEN {scripts[dynamicKind]}
                   ELSE Placed(dynamicKind, scripts[dynamicKind]) :
           /\ Collects(dynamicKind, s)
           /\ scripts' = [scripts EXCEPT ![dynamicKind] =
                 IF dynamicMode = 1 THEN Emptied(s, selectedIPsForProbe) ELSE s]
    BY <1>12 DEF DynamicDone
  <2>2. s \in [Datacenter -> ScriptSet]
    BY <1>1, <1>5, <2>1, PlacedType
  <2>3. scripts' \in [Kind -> [Datacenter -> ScriptSet]]
    BY <1>1, <1>5, <2>1, <2>2, EmptiedType, ScriptsKeepType
  <2>4. /\ local' \in [Datacenter -> SUBSET Readings]
        /\ \A f \in files' : /\ f.kind \in Kind /\ f.index \in 1 .. config.datasetSize
                             /\ f.readings \subseteq Readings
    BY <1>5, <1>12, <2>1, <2>2, CollectsType DEF DynamicDone
  <2> QED  BY <1>0, <1>1, <1>2, <1>4, <1>5, <1>12, <2>3, <2>4 DEF DynamicDone, ScriptSet
<1>13. CASE DynamicFails
  <2>1. scripts' \in [Kind -> [Datacenter -> ScriptSet]]
    BY <1>1, <1>13, AllEmptiedType DEF DynamicFails
  <2>2. AfterError(1, dynamicMode) /\ UNCHANGED <<config, index>>
    BY <1>13 DEF DynamicFails
  <2>3. PICK s \in IF dynamicMode = 3 THEN {scripts[dynamicKind]}
                   ELSE Placed(dynamicKind, scripts[dynamicKind]),
             gone \in SUBSET selectedIPsForProbe : Leaves(dynamicKind, s, gone)
    BY <1>13 DEF DynamicFails
  <2>4. s \in [Datacenter -> ScriptSet]
    BY <1>1, <1>5, <2>3, PlacedType
  <2>5. local' \in [Datacenter -> SUBSET Readings]
    BY <1>5, <1>13, <2>3, <2>4, ReadingType, CopiesType DEF Leaves, DynamicFails
  <2>6. UNCHANGED files /\ d' \in 1 .. Len(runForDurations) + 1
    BY <1>3, <1>5, <1>13, <2>2 DEF DynamicFails
  <2> QED  BY <1>0, <1>1, <1>2, <1>3, <1>5, <1>13, <2>1, <2>2, <2>5, <2>6
           DEF DynamicFails, ScriptSet
<1>14. CASE EndSample
  BY <1>0, <1>1, <1>2, <1>14, <1>20 DEF EndSample
<1>15. CASE Finish
  <2>1. test_duration' \in Nat \ {0}
    BY <1>1, <1>15, SedType DEF Finish
  <2> QED  BY <1>0, <1>1, <1>2, <1>15, <1>20, <2>1 DEF Finish, loop
<1>16. CASE Finished \/ UNCHANGED vars
  BY <1>0, <1>1, <1>2, <1>16, <1>20 DEF Finished, vars, loop
<1>17. CASE Restart
  <2>1. scripts' \in [Kind -> [Datacenter -> ScriptSet]]
    BY <1>17 DEF Restart, ScriptSet
  <2>2. index' \in 1 .. config.datasetSize + 1 /\ resumed' = resumed \union {index'}
    BY <1>0, <1>17 DEF Restart
  <2>3. crashes' \in 0 .. MaxCrashes
    BY <1>0, <1>17 DEF Restart
  <2>4. failed' \subseteq 1 .. config.datasetSize /\ resumed' \subseteq 1 .. config.datasetSize + 1
    BY <1>17, <2>2 DEF Restart
  <2>5. \A f \in files' : /\ f.kind \in Kind /\ f.index \in 1 .. config.datasetSize
                          /\ f.readings \subseteq Readings
    BY <1>17 DEF Restart
  <2>6. /\ config' = config /\ pc' = "sample" /\ selectedIPsForProbe' = {} /\ d' = 1
        /\ maxRetries' = config.maxRetries /\ cleanupMode' = 1 /\ prevRunDurationRef' = 20
        /\ UNCHANGED <<test_duration, local, errors>>
    BY <1>17 DEF Restart
  <2> QED  BY <1>0, <1>1, <1>2, <2>1, <2>2, <2>3, <2>4, <2>5, <2>6 DEF ScriptSet
<1> QED  BY <1>6, <1>7, <1>8, <1>9, <1>10, <1>11, <1>12, <1>13, <1>14, <1>15, <1>16,
            <1>17 DEF Next, Step

(* Whatever the configuration and whichever calls fail, every variable     *)
(* keeps its type: the mode is one of the three, no more retries are left  *)
(* than were configured, and no sample beyond the dataset is written.      *)
THEOREM TypeCorrect == Spec => []TypeOK
<1>1. TypeInv => TypeOK
  BY DEF TypeInv
<1> QED  BY <1>1, InitTypeInv, NextTypeInv, PTL DEF Spec

--------------------------------------------------------------------------------
(* The duration in the client files.                                       *)

(* The files say what prevRunDurationRef remembers, so each sed matches.   *)
DurationKnown ==
  /\ test_duration = prevRunDurationRef
  /\ pc \in {"static", "dynamic"} => test_duration = runDuration

(* A crash left another duration than 20.  The sample that goes through    *)
(* the durations meets the one in the files, and from then on each sed     *)
(* matches; it has not met it yet, or it has a failed call.                *)
Stuck ==
  /\ Disturbed(index)
  /\ test_duration \in Range(runForDurations)
  /\ \/ pc = "sample"
     \/ index \in failed
     \/ \A j \in 1 .. Len(runForDurations) :
          j < d \/ (j = d /\ pc # "duration") => runForDurations[j] # test_duration

(* Or digits of the other duration may stand behind the one that is meant. *)
Garbled == ResumedBy(index) /\ Ambiguous

DurationInv ==
  IF pc = "finished" THEN test_duration = 20 \/ Disturbed(index) \/ Garbled
  ELSE DurationKnown \/ Stuck \/ Garbled

(* Neither a restart nor a failed call makes an earlier disturbance good.  *)
LEMMA StaysDisturbed ==
  ASSUME resumed \subseteq resumed', failed \subseteq failed', NEW i, Disturbed(i)
  PROVE  Disturbed(i)'
  BY DEF Disturbed

LEMMA StaysGarbled ==
  ASSUME resumed \subseteq resumed', UNCHANGED config, index' \in {index, index + 1},
         index \in Nat, resumed \subseteq Nat, Garbled
  PROVE  Garbled'
<1>1. PICK r \in resumed : r <= index
  BY DEF Garbled, ResumedBy
<1>2. r <= index' /\ r \in resumed'
  BY <1>1
<1>3. Ambiguous' <=> Ambiguous
  BY SameConfig DEF Ambiguous
<1> QED  BY <1>2, <1>3 DEF Garbled, ResumedBy

(* Where no duration begins like another one, sed leaves the others alone. *)
LEMMA SedMisses ==
  ASSUME ~Ambiguous, test_duration \in Range(runForDurations) \union {20},
         NEW old \in Range(runForDurations) \union {20}, test_duration # old, NEW new
  PROVE  Sed(old, new) = test_duration
<1> HIDE DEF Range
<1>1. ~ \E p \in Powers : test_duration \div p = old
  BY DEF Ambiguous
<1> QED  BY <1>1 DEF Sed

(* The samples between a sample and itself. *)
LEMMA NothingBefore ==
  ASSUME NEW i \in Nat
  PROVE  i .. i - 1 = {}
  OBVIOUS

LEMMA NextDurationInv == TypeInv /\ DurationInv /\ [Next]_vars => DurationInv'
<1> SUFFICES ASSUME TypeInv, DurationInv, [Next]_vars PROVE DurationInv'
    OBVIOUS
<1>0. /\ index \in Nat /\ d \in 1 .. Len(runForDurations) + 1
      /\ Len(runForDurations) \in Nat
      /\ test_duration \in Nat \ {0} /\ prevRunDurationRef \in Range(runForDurations) \union {20}
      /\ DOMAIN runForDurations = 1 .. Len(runForDurations)
      /\ \A i \in 1 .. Len(runForDurations) :
           runForDurations[i] \in Range(runForDurations) /\ runForDurations[i] \in Nat \ {0}
      /\ resumed \subseteq Nat
  BY ConfigAssumption, Durations DEF TypeInv, TypeOK
<1>1. UNCHANGED config => runForDurations' = runForDurations
  BY SameConfig
<1>2. UNCHANGED <<config, d>> => runDuration' = runDuration
  BY SameConfig DEF runDuration
<1>3. UNCHANGED <<index, failed, resumed>> => (Disturbed(index)' <=> Disturbed(index))
  BY DEF Disturbed
<1>13. ASSUME Garbled, UNCHANGED config, resumed \subseteq resumed',
              index' \in {index, index + 1}
       PROVE  DurationInv'
  BY <1>0, <1>13, StaysGarbled DEF DurationInv
<1> HIDE DEF Range
<1>14. ASSUME Garbled PROVE DurationInv'
  <2>1. CASE Restart
    BY <1>13, <1>14, <2>1 DEF Restart
  <2>2. CASE ~Restart
    <3>1. /\ UNCHANGED <<config, resumed>> /\ index' \in {index, index + 1}
      BY <2>2 DEF Next, Step, BeginSample, SetDuration, SkipStatic, StaticDone, StaticFails,
         SkipDynamic, DynamicDone, DynamicFails, EndSample, Finish, Finished, vars, loop
    <3> QED  BY <1>13, <1>14, <3>1
  <2> QED  BY <2>1, <2>2
<1>4. CASE BeginSample
  BY <1>0, <1>1, <1>3, <1>4, <1>14 DEF BeginSample, DurationInv, DurationKnown, Stuck
<1>5. CASE SetDuration /\ ~Garbled
  <2>1. CASE test_duration = prevRunDurationRef
    <3>1. runDuration \in Nat \ {0}
      BY <1>0, <1>5 DEF SetDuration, runDuration
    <3>2. test_duration' = runDuration
      BY <1>0, <1>5, <2>1, <3>1, SedMatches DEF SetDuration
    <3> QED  BY <1>2, <1>5, <3>2 DEF SetDuration, loop, DurationInv, DurationKnown
  <2>2. CASE test_duration # prevRunDurationRef
    <3>1. Stuck
      BY <1>5, <2>2 DEF SetDuration, DurationInv, DurationKnown
    <3>2. ~Ambiguous
      BY <1>5, <3>1 DEF Garbled, Stuck, Disturbed, ResumedBy
    <3>3. test_duration' = test_duration
      BY <1>0, <1>5, <2>2, <3>1, <3>2, SedMisses DEF SetDuration, Stuck
    <3>4. CASE runDuration = test_duration
      BY <1>2, <1>5, <3>3, <3>4 DEF SetDuration, loop, DurationInv, DurationKnown
    <3>5. CASE runDuration # test_duration
      <4>1. \/ index \in failed
            \/ \A j \in 1 .. Len(runForDurations) : j <= d => runForDurations[j] # test_duration
        BY <1>0, <1>5, <3>1, <3>5 DEF SetDuration, Stuck, runDuration
      <4> QED  BY <1>0, <1>1, <1>3, <1>5, <3>1, <3>3, <4>1
               DEF SetDuration, loop, DurationInv, Stuck
    <3> QED  BY <3>4, <3>5
  <2> QED  BY <2>1, <2>2
<1>6. CASE (SkipStatic \/ StaticDone) /\ ~Garbled
  BY <1>0, <1>1, <1>2, <1>3, <1>6
     DEF SkipStatic, StaticDone, loop, DurationInv, DurationKnown, Stuck
<1>7. CASE (SkipDynamic \/ DynamicDone) /\ ~Garbled
  BY <1>0, <1>1, <1>3, <1>7 DEF SkipDynamic, DynamicDone, DurationInv, DurationKnown, Stuck
<1>8. CASE (StaticFails \/ DynamicFails) /\ ~Garbled
  <2>1. /\ UNCHANGED <<config, index, prevRunDurationRef, test_duration, resumed>>
        /\ failed' = failed \union {index} /\ pc' = "duration" /\ pc # "finished"
    BY <1>8 DEF StaticFails, DynamicFails, AfterError
  <2>2. Disturbed(index) => Disturbed(index)'
    BY <2>1, StaysDisturbed DEF Disturbed
  <2> QED  BY <1>1, <1>8, <2>1, <2>2 DEF DurationInv, DurationKnown, Stuck
<1>9. CASE EndSample /\ ~Garbled
  <2>1. Stuck => index \in failed
    BY <1>0, <1>9 DEF EndSample, Stuck, Range
  <2>2. Stuck => Disturbed(index)'
    BY <1>0, <1>9, <2>1 DEF EndSample, Stuck, Disturbed, TypeInv, TypeOK
  <2> QED  BY <1>1, <1>9, <2>2 DEF EndSample, DurationInv, DurationKnown, Stuck
<1>10. CASE Finish /\ ~Garbled
  <2>1. DurationKnown => test_duration' = 20
    BY <1>0, <1>10, SedMatches DEF Finish, DurationKnown
  <2> QED  BY <1>3, <1>10, <2>1 DEF Finish, loop, DurationInv, Stuck
<1>11. CASE (Finished \/ UNCHANGED vars) /\ ~Garbled
  BY <1>1, <1>2, <1>3, <1>11 DEF Finished, vars, loop, DurationInv, DurationKnown, Stuck
<1>12. CASE Restart /\ ~Garbled
  <2>1. Disturbed(index)'
    <3>1. index' \in resumed' /\ index' \in Nat
      BY <1>0, <1>12 DEF Restart
    <3>2. index' <= index'
      BY <3>1
    <3>3. index' .. index' - 1 \subseteq failed'
      BY <3>1, NothingBefore
    <3> QED  BY <3>1, <3>2, <3>3 DEF Disturbed
  <2> QED  BY <1>0, <1>1, <1>12, <2>1 DEF Restart, DurationInv, DurationKnown, Stuck
<1> QED  BY <1>4, <1>5, <1>6, <1>7, <1>8, <1>9, <1>10, <1>11, <1>12, <1>14 DEF Next, Step

(* However the loop ends, with failed calls or without, the client files   *)
(* say 20 again, which is what the sed of the next start looks for, for    *)
(* every list of durations.  After a crash they do unless no sample since  *)
(* was completed, or one duration begins like another one, as 15 does like *)
(* 1 in the example of config.cfg: then sed may leave digits behind.       *)
THEOREM DurationAlwaysRestored == Spec => []DurationRestored
<1>1. Init => DurationInv
  BY DEF Init, DurationInv, DurationKnown
<1>2. DurationInv => DurationRestored
  BY DEF DurationInv, DurationRestored, Garbled
<1> QED  BY <1>1, <1>2, InitTypeInv, NextTypeInv, NextDurationInv, PTL DEF Spec

--------------------------------------------------------------------------------
(* The files of a sample.                                                  *)

(* A reading that is kept somewhere. *)
Known(r) ==
  \/ \E n \in Datacenter : r \in local[n]
  \/ \E f \in files : r \in f.readings

(* What a call of kind k with scripts s leaves: old readings and its own.  *)
(* Copies stay only if it fails or if one was there before.                *)
Outcome(k, s) ==
  /\ \A n \in Datacenter : \A r \in local'[n] :
       r \in local[n] \/ (r = Reading(k, s) /\ Usable(s) # {})
  /\ \A f \in files' : f \in files \/
       /\ f.kind = k /\ f.index = index /\ f.duration = runDuration
       /\ \A r \in f.readings : \/ r = Reading(k, s) /\ Usable(s) # {}
                               \/ \E n \in Datacenter : r \in local[n]
  /\ \/ index \in failed'
     \/ \A n \in Datacenter : local'[n] # {} => \E m \in Datacenter : local[m] # {}

(* The scripts the call under way runs. *)
Runs(k, s) ==
  \/ pc = "static" /\ k = "static" /\ s \in Placed("static", scripts["static"])
  \/ /\ pc = "dynamic" /\ k = dynamicKind
     /\ s \in IF dynamicMode = 3 THEN {scripts[dynamicKind]}
              ELSE Placed(dynamicKind, scripts[dynamicKind])

LEMMA CopiesShape ==
  ASSUME NEW k, NEW s, NEW late \in SUBSET Usable(s), NEW gone,
         local' = Copies(k, s, late, gone), NEW n \in Datacenter, NEW r \in local'[n]
  PROVE  r \in local[n] \/ (r = Reading(k, s) /\ n \in late /\ Usable(s) # {})
<1>1. local'[n] = IF n \in late THEN {Reading(k, s)} ELSE IF n \in gone THEN {} ELSE local[n]
  BY DEF Copies
<1> QED  BY <1>1

LEMMA FileShape ==
  ASSUME NEW k, NEW s, NEW old \in SUBSET Datacenter, NEW new \in SUBSET Usable(s)
  PROVE  LET f == File(k, s, old, new) IN
         /\ f.kind = k /\ f.index = index /\ f.duration = runDuration
         /\ \A r \in f.readings : \/ r = Reading(k, s) /\ Usable(s) # {}
                                 \/ \E n \in Datacenter : r \in local[n]
<1>1. \A r \in File(k, s, old, new).readings :
        (\E n \in old : r \in local[n]) \/ (r = Reading(k, s) /\ new # {})
  BY FileReads
<1>2. new # {} => Usable(s) # {}
  OBVIOUS
<1>3. \A r \in File(k, s, old, new).readings :
        \/ r = Reading(k, s) /\ Usable(s) # {}
        \/ \E n \in Datacenter : r \in local[n]
  BY <1>1, <1>2
<1>4. /\ File(k, s, old, new).kind = k /\ File(k, s, old, new).index = index
      /\ File(k, s, old, new).duration = runDuration
  BY DEF File
<1> QED  BY <1>3, <1>4

(* A call that succeeds leaves a copy only for a node that had one.        *)
LEMMA CollectsOutcome ==
  ASSUME TypeInv, NEW k, NEW s, Collects(k, s)
  PROVE  Outcome(k, s)
<1>1. PICK old \in SUBSET Stale, new \in SUBSET Usable(s) :
         /\ old \union new = selectedIPsForProbe
         /\ files' = files \union {File(k, s, old, new)}
         /\ \E late \in SUBSET (old \intersect Usable(s)) :
               local' = Copies(k, s, late, selectedIPsForProbe)
  BY DEF Collects
<1>2. PICK late \in SUBSET (old \intersect Usable(s)) :
         local' = Copies(k, s, late, selectedIPsForProbe)
  BY <1>1
<1>3. Stale \subseteq Datacenter /\ late \in SUBSET Usable(s)
  BY <1>2 DEF Stale, TypeInv, TypeOK
<1>4. ASSUME NEW n \in Datacenter, NEW r \in local'[n]
      PROVE  \/ r \in local[n]
             \/ r = Reading(k, s) /\ n \in late /\ Usable(s) # {}
  BY <1>2, <1>3, CopiesShape
<1>5. ASSUME NEW n \in Datacenter, local'[n] # {}
      PROVE  \E m \in Datacenter : local[m] # {}
  <2>1. CASE local[n] # {}
    BY <2>1
  <2>2. CASE local[n] = {}
    <3>1. n \in Stale
      BY <1>2, <1>4, <1>5, <2>2
    <3> QED  BY <2>2, <3>1 DEF Stale
  <2> QED  BY <2>1, <2>2
<1>6. old \in SUBSET Datacenter
  BY <1>3
<1>7. \A f \in files' : f \in files \/
        /\ f.kind = k /\ f.index = index /\ f.duration = runDuration
        /\ \A r \in f.readings : \/ r = Reading(k, s) /\ Usable(s) # {}
                                \/ \E n \in Datacenter : r \in local[n]
  BY <1>1, <1>6, FileShape
<1> QED  BY <1>4, <1>5, <1>7 DEF Outcome

LEMMA CallOutcome ==
  ASSUME TypeInv, StaticDone \/ StaticFails \/ DynamicDone \/ DynamicFails
  PROVE  \E k, s : k \in Kind /\ Runs(k, s) /\ Outcome(k, s)
<1>0. "static" \in Kind /\ dynamicKind \in Kind
  BY DEF Kind, dynamicKind
<1>1. CASE StaticDone
  <2>1. PICK s \in Placed("static", scripts["static"]) : Collects("static", s)
    BY <1>1 DEF StaticDone
  <2>2. Runs("static", s) /\ Outcome("static", s)
    BY <1>1, <2>1, CollectsOutcome DEF Runs, StaticDone
  <2> QED  BY <1>0, <2>2
<1>2. CASE DynamicDone
  <2>1. PICK s \in IF dynamicMode = 3 THEN {scripts[dynamicKind]}
                   ELSE Placed(dynamicKind, scripts[dynamicKind]) : Collects(dynamicKind, s)
    BY <1>2 DEF DynamicDone
  <2>2. Runs(dynamicKind, s) /\ Outcome(dynamicKind, s)
    BY <1>2, <2>1, CollectsOutcome DEF Runs, DynamicDone
  <2> QED  BY <1>0, <2>2
<1>3. CASE StaticFails
  <2>1. PICK s \in Placed("static", scripts["static"]), gone \in SUBSET selectedIPsForProbe :
           /\ Leaves("static", s, gone)
           /\ \/ UNCHANGED files
              \/ \E old \in SUBSET (gone \intersect Stale), new \in SUBSET Usable(s) :
                   files' = files \union {File("static", s, old, new)}
    BY <1>3 DEF StaticFails
  <2>2. PICK late \in SUBSET Usable(s) : local' = Copies("static", s, late, gone)
    BY <2>1 DEF Leaves
  <2>3. \A n \in Datacenter : \A r \in local'[n] :
          r \in local[n] \/ (r = Reading("static", s) /\ Usable(s) # {})
    BY <2>2, CopiesShape
  <2>4. Stale \subseteq Datacenter
    BY DEF Stale, TypeInv, TypeOK
  <2>5. ASSUME NEW f \in files', f \notin files
        PROVE  /\ f.kind = "static" /\ f.index = index /\ f.duration = runDuration
               /\ \A r \in f.readings : \/ r = Reading("static", s) /\ Usable(s) # {}
                                       \/ \E n \in Datacenter : r \in local[n]
    <3>1. PICK old \in SUBSET (gone \intersect Stale), new \in SUBSET Usable(s) :
             f = File("static", s, old, new)
      BY <2>1, <2>5
    <3>2. old \in SUBSET Datacenter
      BY <2>4
    <3> QED  BY <3>1, <3>2, FileShape
  <2>6. index \in failed' /\ pc = "static"
    BY <1>3 DEF StaticFails, AfterError
  <2>7. Runs("static", s) /\ Outcome("static", s)
    BY <2>1, <2>3, <2>5, <2>6 DEF Runs, Outcome
  <2> QED  BY <1>0, <2>7
<1>4. CASE DynamicFails
  <2>1. PICK s \in IF dynamicMode = 3 THEN {scripts[dynamicKind]}
                   ELSE Placed(dynamicKind, scripts[dynamicKind]),
             gone \in SUBSET selectedIPsForProbe : Leaves(dynamicKind, s, gone)
    BY <1>4 DEF DynamicFails
  <2>2. PICK late \in SUBSET Usable(s) : local' = Copies(dynamicKind, s, late, gone)
    BY <2>1 DEF Leaves
  <2>3. \A n \in Datacenter : \A r \in local'[n] :
          r \in local[n] \/ (r = Reading(dynamicKind, s) /\ Usable(s) # {})
    BY <2>2, CopiesShape
  <2>4. index \in failed' /\ pc = "dynamic" /\ UNCHANGED files
    BY <1>4 DEF DynamicFails, AfterError
  <2>5. Runs(dynamicKind, s) /\ Outcome(dynamicKind, s)
    BY <2>1, <2>3, <2>4 DEF Runs, Outcome
  <2> QED  BY <1>0, <2>5
<1> QED  BY <1>1, <1>2, <1>3, <1>4

(* What a call does not touch. *)
LEMMA CallKeeps ==
  ASSUME StaticDone \/ StaticFails \/ DynamicDone \/ DynamicFails
  PROVE  /\ UNCHANGED <<config, index, selectedIPsForProbe, test_duration,
                        prevRunDurationRef, resumed>>
         /\ failed \subseteq failed' /\ pc \in {"static", "dynamic"}
         /\ pc' \in {"duration", "dynamic"}
  BY DEF StaticDone, StaticFails, DynamicDone, DynamicFails, AfterError

(* The other steps learn nothing. *)
LEMMA OthersKeep ==
  ASSUME [Next]_vars, ~(StaticDone \/ StaticFails \/ DynamicDone \/ DynamicFails)
  PROVE  /\ UNCHANGED <<config, local>> /\ files' \subseteq files
         /\ failed \subseteq failed' /\ resumed \subseteq resumed'
  BY DEF Next, Step, BeginSample, SetDuration, SkipStatic, SkipDynamic, EndSample,
         Finish, Finished, Restart, vars, stored, loop

LEMMA CallLearns ==
  ASSUME UNCHANGED config, NEW k, NEW s, Outcome(k, s), NEW r, Known(r)'
  PROVE  Known(r) \/ (r = Reading(k, s) /\ Usable(s) # {})
<1>1. Datacenter' = Datacenter
  BY SameConfig
<1>2. CASE \E n \in Datacenter : r \in local'[n]
  BY <1>2 DEF Outcome, Known
<1>3. CASE \E f \in files' : r \in f.readings
  BY <1>3 DEF Outcome, Known
<1> QED  BY <1>1, <1>2, <1>3 DEF Known

LEMMA OthersLearnNothing ==
  ASSUME UNCHANGED <<config, local>>, files' \subseteq files, NEW r, Known(r)'
  PROVE  Known(r)
  BY SameConfig DEF Known

LEMMA StaysFailed ==
  ASSUME failed \subseteq failed', NEW i, FailedBy(i)
  PROVE  FailedBy(i)'
  BY DEF FailedBy

(* No file and no reading is about a sample still to come, and those about *)
(* the sample under way are about its nodes, unless it was begun again.    *)
FilesSoFar ==
  \A f \in files :
    /\ f.index <= index
    /\ pc \in {"sample", "finished"} => f.index < index

ReadingsSoFar ==
  \A r : Known(r) =>
    /\ r.index <= index
    /\ r.index = index =>
         \/ pc \notin {"sample", "finished"} /\ r.nodes = selectedIPsForProbe
         \/ index \in resumed

(* Copies are left only by a failed call, or where one was left before.    *)
LeftByFailure == \A n \in Datacenter : \A r \in local[n] : FailedBy(r.index)

OwnOrLeft ==
  \A f \in files : \A r \in f.readings :
    (r.kind = f.kind /\ r.duration = f.duration /\ r.index = f.index) \/ FailedBy(r.index)

SameNodes ==
  \A r, q : Known(r) /\ Known(q) /\ r.index = q.index =>
    r.nodes = q.nodes \/ r.index \in resumed

CoherentInv == FilesSoFar /\ ReadingsSoFar /\ LeftByFailure /\ OwnOrLeft /\ SameNodes

LEMMA KnownType ==
  ASSUME TypeInv, NEW r, Known(r)
  PROVE  r.index \in Nat
<1>1. r \in Readings
  BY DEF Known, TypeInv, TypeOK
<1> QED  BY <1>1, ConfigAssumption DEF Readings, TypeInv, TypeOK

LEMMA NextCoherentInv == TypeInv /\ CoherentInv /\ [Next]_vars => CoherentInv'
<1> SUFFICES ASSUME TypeInv, CoherentInv, [Next]_vars PROVE CoherentInv'
    OBVIOUS
<1>1. index \in Nat /\ \A f \in files : f.index \in Nat
  BY ConfigAssumption DEF TypeInv, TypeOK
<1>2. CASE StaticDone \/ StaticFails \/ DynamicDone \/ DynamicFails
  <2>1. PICK k, s : k \in Kind /\ Runs(k, s) /\ Outcome(k, s)
    BY <1>2, CallOutcome
  <2>2. /\ UNCHANGED <<config, index, selectedIPsForProbe, resumed>>
        /\ failed \subseteq failed' /\ pc' \notin {"sample", "finished"}
        /\ Datacenter' = Datacenter
    BY <1>2, CallKeeps, SameConfig
  <2>3. /\ Reading(k, s).index = index /\ Reading(k, s).nodes = selectedIPsForProbe
        /\ Reading(k, s).kind = k /\ Reading(k, s).duration = runDuration
    BY DEF Reading
  <2>4. \A r : Known(r)' => Known(r) \/ r = Reading(k, s)
    BY <2>1, <2>2, CallLearns
  <2>5. FilesSoFar'
    BY <1>1, <2>1, <2>2 DEF Outcome, FilesSoFar, CoherentInv
  <2>6. ReadingsSoFar'
    <3> SUFFICES ASSUME NEW r, Known(r)'
                 PROVE  /\ r.index <= index
                        /\ r.index = index =>
                             r.nodes = selectedIPsForProbe \/ index \in resumed
        BY <2>2 DEF ReadingsSoFar
    <3> QED  BY <1>1, <2>3, <2>4 DEF ReadingsSoFar, CoherentInv
  <2>7. LeftByFailure'
    <3> SUFFICES ASSUME NEW n \in Datacenter, NEW r \in local'[n]
                 PROVE  FailedBy(r.index)'
        BY <2>2 DEF LeftByFailure
    <3>1. CASE r \in local[n]
      BY <2>2, <3>1, StaysFailed DEF LeftByFailure, CoherentInv
    <3>2. CASE r = Reading(k, s) /\ index \in failed'
      <4>1. index <= index
        BY <1>1
      <4> QED  BY <2>3, <3>2, <4>1 DEF FailedBy
    <3>3. CASE r = Reading(k, s) /\ index \notin failed'
      <4>1. PICK m \in Datacenter : local[m] # {}
        BY <2>1, <3>3 DEF Outcome
      <4>2. PICK q \in local[m] : TRUE
        BY <4>1
      <4>3. Known(q) /\ FailedBy(q.index)
        BY <4>1, <4>2 DEF Known, LeftByFailure, CoherentInv
      <4>4. q.index <= index /\ q.index \in Nat
        BY <4>3, KnownType DEF ReadingsSoFar, CoherentInv
      <4>5. PICK j \in failed : j <= q.index
        BY <4>3 DEF FailedBy
      <4>6. j \in Nat /\ j \in failed'
        BY <2>2, <4>5 DEF TypeInv, TypeOK
      <4>7. j <= index
        BY <1>1, <4>4, <4>5, <4>6
      <4> QED  BY <2>3, <3>3, <4>6, <4>7 DEF FailedBy
    <3> QED  BY <2>1, <3>1, <3>2, <3>3 DEF Outcome
  <2>8. OwnOrLeft'
    <3> SUFFICES ASSUME NEW f \in files', NEW r \in f.readings,
                        ~FailedBy(r.index)'
                 PROVE  r.kind = f.kind /\ r.duration = f.duration /\ r.index = f.index
        BY DEF OwnOrLeft
    <3>1. ~FailedBy(r.index)
      BY <2>2, StaysFailed
    <3>2. CASE f \in files
      BY <3>1, <3>2 DEF OwnOrLeft, CoherentInv
    <3>3. CASE f \notin files
      <4>1. /\ f.kind = k /\ f.index = index /\ f.duration = runDuration
            /\ r = Reading(k, s) \/ \E n \in Datacenter : r \in local[n]
        BY <2>1, <3>3 DEF Outcome
      <4>2. r = Reading(k, s)
        BY <3>1, <4>1 DEF LeftByFailure, CoherentInv
      <4> QED  BY <2>3, <4>1, <4>2
    <3> QED  BY <3>2, <3>3
  <2>9. SameNodes'
    <3> SUFFICES ASSUME NEW r, NEW q, Known(r)', Known(q)', r.index = q.index
                 PROVE  r.nodes = q.nodes \/ r.index \in resumed
        BY <2>2 DEF SameNodes
    <3>1. CASE Known(r) /\ Known(q)
      BY <3>1 DEF SameNodes, CoherentInv
    <3>2. CASE ~Known(r) \/ ~Known(q)
      <4>1. r.index = index
        BY <2>3, <2>4, <3>2
      <4>2. ASSUME NEW x, Known(x)', x.index = index
            PROVE  x.nodes = selectedIPsForProbe \/ index \in resumed
        BY <2>3, <2>4, <4>2 DEF ReadingsSoFar, CoherentInv
      <4> QED  BY <4>1, <4>2
    <3> QED  BY <3>1, <3>2
  <2> QED  BY <2>5, <2>6, <2>7, <2>8, <2>9 DEF CoherentInv
<1>3. CASE ~(StaticDone \/ StaticFails \/ DynamicDone \/ DynamicFails)
  <2>1. /\ UNCHANGED <<config, local>> /\ files' \subseteq files
        /\ failed \subseteq failed' /\ resumed \subseteq resumed'
        /\ Datacenter' = Datacenter
    BY <1>3, OthersKeep, SameConfig
  <2>2. \A r : Known(r)' => Known(r)
    BY <2>1, OthersLearnNothing
  <2>3. LeftByFailure' /\ OwnOrLeft'
    BY <2>1, StaysFailed DEF LeftByFailure, OwnOrLeft, CoherentInv
  <2>4. SameNodes'
    BY <2>1, <2>2 DEF SameNodes, CoherentInv
  <2>5. FilesSoFar'
    <3>1. CASE BeginSample \/ SetDuration \/ SkipStatic \/ SkipDynamic \/ Finish
      BY <1>1, <2>1, <3>1 DEF BeginSample, SetDuration, SkipStatic, SkipDynamic, Finish, loop,
         FilesSoFar, CoherentInv
    <3>2. CASE EndSample
      BY <1>1, <2>1, <3>2 DEF EndSample, FilesSoFar, CoherentInv
    <3>3. CASE Restart
      BY <1>1, <3>3 DEF Restart, FilesSoFar, CoherentInv
    <3>4. CASE Finished \/ UNCHANGED vars
      BY <2>1, <3>4 DEF Finished, vars, loop, FilesSoFar, CoherentInv
    <3> QED  BY <1>3, <3>1, <3>2, <3>3, <3>4 DEF Next, Step
  <2>6. ReadingsSoFar'
    <3> SUFFICES ASSUME NEW r, Known(r)'
                 PROVE  /\ r.index <= index'
                        /\ r.index = index' =>
                             \/ pc' \notin {"sample", "finished"} /\ r.nodes = selectedIPsForProbe'
                             \/ index' \in resumed'
        BY DEF ReadingsSoFar
    <3>1. /\ r.index \in Nat /\ r.index <= index
          /\ r.index = index =>
               \/ pc \notin {"sample", "finished"} /\ r.nodes = selectedIPsForProbe
               \/ index \in resumed
      BY <2>2, KnownType DEF ReadingsSoFar, CoherentInv
    <3>2. CASE BeginSample
      BY <2>1, <3>1, <3>2 DEF BeginSample
    <3>3. CASE SetDuration \/ SkipStatic \/ SkipDynamic
      BY <2>1, <3>1, <3>3 DEF SetDuration, SkipStatic, SkipDynamic, loop
    <3>4. CASE Finish \/ Finished \/ UNCHANGED vars
      BY <2>1, <3>1, <3>4 DEF Finish, Finished, vars, loop
    <3>5. CASE EndSample
      BY <1>1, <3>1, <3>5 DEF EndSample
    <3>6. CASE Restart
      BY <1>1, <3>1, <3>6 DEF Restart
    <3> QED  BY <1>3, <3>2, <3>3, <3>4, <3>5, <3>6 DEF Next, Step
  <2> QED  BY <2>3, <2>4, <2>5, <2>6 DEF CoherentInv
<1> QED  BY <1>2, <1>3

LEMMA InitCoherentInv == Init => CoherentInv
  BY DEF Init, CoherentInv, FilesSoFar, ReadingsSoFar, LeftByFailure, OwnOrLeft, SameNodes,
         Known

(* The files of a sample have readings of that sample, about the same data *)
(* centers, however often samples are drawn.  Readings of an earlier one   *)
(* get in only if a call had failed by then, whose copies were left; and a *)
(* sample begun again after a crash may have been about two selections.    *)
THEOREM SamplesCoherent == Spec => []SampleCoherent
<1>1. CoherentInv => SampleCoherent
  <2> SUFFICES ASSUME CoherentInv, NEW f \in files, NEW g \in files,
                      NEW r \in f.readings, NEW q \in g.readings
               PROVE  /\ r.index = f.index \/ FailedBy(r.index)
                      /\ r.index = q.index => r.nodes = q.nodes \/ r.index \in resumed
      BY DEF SampleCoherent
  <2>1. Known(r) /\ Known(q)
    BY DEF Known
  <2> QED  BY <2>1 DEF CoherentInv, OwnOrLeft, SameNodes
<1> QED  BY <1>1, InitCoherentInv, InitTypeInv, NextTypeInv, NextCoherentInv, PTL DEF Spec

--------------------------------------------------------------------------------
(* The durations the readings were measured for.                           *)

(* What the scripts on node n may have been sent for.  A static call leaves *)
(* none, no other call does where Persists is false, and otherwise the     *)
(* dynamic scripts are for the single duration that is not a snapshot's:   *)
(* this is what makes it safe to reuse them.  After a restart they may be  *)
(* for a wrong duration.                                                   *)
Aged(n) ==
  /\ scripts["static"][n] = {}
  /\ ~Persists => scripts["snapshot"][n] = {} /\ scripts["dynamic"][n] = {}
  /\ resumed = {} =>
       /\ \A p \in scripts["snapshot"][n] : p[2] = 1
       /\ \A p \in scripts["dynamic"][n] :
            p[2] # 1 /\ \E i \in 1 .. Len(runForDurations) : p[2] = runForDurations[i]

(* The loop is not before the sample with which it was resumed. *)
Resumed == resumed # {} => ResumedBy(index)

(* What the script sent for a call may have measured. *)
Fits(r) ==
  \/ r.ran = {r.duration}
  \/ Disturbed(r.index)
  \/ ResumedBy(r.index) /\ (Persists \/ Ambiguous)

MeasureInv ==
  /\ \A r : Known(r) => Fits(r)
  /\ ~Persists => cleanupMode = 1
  /\ pc \in {"duration", "static", "dynamic"} => selectedIPsForProbe # {}
  /\ \A n \in Datacenter : Aged(n)
  /\ Resumed

(* A call one of whose nodes has a script for a running server, with all   *)
(* scripts for one duration, measures that duration.                       *)
LEMMA RanOne ==
  ASSUME NEW s, NEW t, selectedIPsForProbe \subseteq Datacenter,
         NEW m \in selectedIPsForProbe, NEW q \in s[m], q[1] \in selectedIPsForProbe,
         \A n \in Datacenter : \A p \in s[n] : p[2] = t
  PROVE  Ran(s) = {t}
<1>1. Ran(s) \subseteq {t}
  BY DEF Ran
<1>2. q[2] \in Ran(s)
  BY DEF Ran
<1> QED  BY <1>1, <1>2

(* A call from which something is read has such a node. *)
LEMMA UsableOne ==
  ASSUME NEW s, Usable(s) # {}
  PROVE  \E m \in selectedIPsForProbe : \E q \in s[m] : q[1] \in selectedIPsForProbe
  BY DEF Usable

(* A reading that fits stays so.                                           *)
LEMMA StaysFit ==
  ASSUME UNCHANGED config, resumed \subseteq resumed', failed \subseteq failed',
         NEW r, Fits(r)
  PROVE  Fits(r)'
<1>1. (Persists' <=> Persists) /\ (Ambiguous' <=> Ambiguous)
  BY SameConfig DEF Persists, Ambiguous
<1>2. Disturbed(r.index) => Disturbed(r.index)'
  BY StaysDisturbed
<1>3. ResumedBy(r.index) => ResumedBy(r.index)'
  BY DEF ResumedBy
<1> QED  BY <1>1, <1>2, <1>3 DEF Fits

(* A call that ran the duration of the client files has readings that fit. *)
LEMMA CallFits ==
  ASSUME MeasureInv, DurationInv, pc \in {"static", "dynamic"}, NEW k, NEW s,
         ~Persists \/ resumed = {} => Ran(s) = {test_duration}
  PROVE  Fits(Reading(k, s))
<1>1. test_duration = runDuration \/ Disturbed(index) \/ Garbled
  BY DEF DurationInv, DurationKnown, Stuck
<1>2. /\ Reading(k, s).index = index /\ Reading(k, s).duration = runDuration
      /\ Reading(k, s).ran = Ran(s)
  BY DEF Reading
<1>3. CASE ~Persists \/ resumed = {}
  BY <1>1, <1>2, <1>3 DEF Fits, Garbled
<1>4. CASE Persists /\ resumed # {}
  BY <1>2, <1>4 DEF Fits, MeasureInv, Resumed
<1> QED  BY <1>3, <1>4

(* Two data centers at least are drawn.                                    *)
LEMMA SelectionNotEmpty ==
  ASSUME config \in Configs, NEW S \in Selection
  PROVE  S # {}
<1>1. config.NUM_DATACENTERS \in Nat \ {0, 1}
  BY ConfigAssumption
<1>2. Datacenter # {}
  BY <1>1 DEF Datacenter
<1>3. Cardinality({}) = 0
  BY FS_EmptySet
<1>4. S = Datacenter \/ Cardinality(S) \in 2 .. config.NUM_DATACENTERS - 1
  BY DEF Selection
<1>5. 0 \notin 2 .. config.NUM_DATACENTERS - 1
  BY <1>1
<1> QED  BY <1>2, <1>3, <1>4, <1>5

LEMMA InitMeasureInv == Init => MeasureInv
<1> SUFFICES ASSUME Init PROVE MeasureInv
    OBVIOUS
<1> QED  BY DEF Init, MeasureInv, Known, Aged, Resumed, Kind

(* All scripts a static call runs were sent by itself. *)
LEMMA StaticScripts ==
  ASSUME TypeInv, MeasureInv, NEW s \in Placed("static", scripts["static"]),
         NEW n \in Datacenter
  PROVE  \A p \in s[n] : p[2] = test_duration
<1>1. scripts["static"] \in [Datacenter -> ScriptSet] /\ scripts["static"][n] = {}
  BY DEF TypeInv, TypeOK, ScriptSet, Kind, MeasureInv, Aged
<1> QED  BY <1>1, PlacedShape

(* What a dynamic or snapshot call finds and places is for the duration of *)
(* the client files, unless scripts stay on the nodes over a restart.      *)
LEMMA DynamicScripts ==
  ASSUME TypeInv, DurationInv, MeasureInv, pc = "dynamic", ~Persists \/ resumed = {},
         NEW s \in IF dynamicMode = 3 THEN {scripts[dynamicKind]}
                   ELSE Placed(dynamicKind, scripts[dynamicKind]),
         NEW n \in Datacenter
  PROVE  \A p \in s[n] : p[2] = test_duration
<1>1. \A p \in scripts[dynamicKind][n] : p[2] = test_duration
  <2>1. CASE ~Persists
    BY <2>1 DEF MeasureInv, Aged, dynamicKind
  <2>2. CASE Persists
    <3>1. resumed = {}
      BY <2>2
    <3>2. d \in 1 .. Len(runForDurations) /\ test_duration = runDuration
      BY <3>1, Durations
         DEF TypeInv, TypeOK, Progress, DurationInv, DurationKnown, Stuck, Disturbed,
             Garbled, ResumedBy
    <3>3. CASE runDuration = 1
      BY <3>1, <3>2, <3>3 DEF MeasureInv, Aged, dynamicKind
    <3>4. CASE runDuration # 1
      BY <2>2, <3>1, <3>2, <3>4, OneOther
         DEF MeasureInv, Aged, dynamicKind, runDuration, TypeInv, TypeOK
    <3> QED  BY <3>3, <3>4
  <2> QED  BY <2>1, <2>2
<1>2. CASE dynamicMode = 3
  BY <1>1, <1>2
<1>3. CASE dynamicMode # 3
  <2>1. scripts[dynamicKind] \in [Datacenter -> ScriptSet]
    BY DEF TypeInv, TypeOK, ScriptSet, dynamicKind, Kind
  <2>2. ASSUME NEW p \in s[n]
        PROVE  p \in scripts[dynamicKind][n]
               \/ p \in (selectedIPsForProbe \ {n}) \X {test_duration}
    BY <1>3, <2>1, PlacedShape
  <2> QED  BY <1>1, <2>2
<1> QED  BY <1>2, <1>3

(* Emptying directories takes scripts away, whatever kind they are of.     *)
LEMMA EmptiedAged ==
  ASSUME TypeInv, \A n \in Datacenter : Aged(n), UNCHANGED <<config, resumed>>, NEW N,
         scripts' = [k \in Kind |-> Emptied(scripts[k], N)]
  PROVE  \A n \in Datacenter : Aged(n)'
<1> SUFFICES ASSUME NEW n \in Datacenter PROVE Aged(n)'
    OBVIOUS
<1>1. \A k \in Kind : scripts'[k][n] \subseteq scripts[k][n]
  BY DEF Emptied
<1>2. runForDurations' = runForDurations /\ (Persists' <=> Persists)
  BY SameConfig DEF Persists
<1>3. Aged(n)
  OBVIOUS
<1> QED  BY <1>1, <1>2, <1>3 DEF Aged, Kind

(* The readings of every call fit. *)
LEMMA NextFits ==
  ASSUME TypeInv, DurationInv, MeasureInv, [Next]_vars
  PROVE  \A r : Known(r)' => Fits(r)'
<1>1. CASE StaticDone \/ StaticFails \/ DynamicDone \/ DynamicFails
  <2>1. PICK k, s : k \in Kind /\ Runs(k, s) /\ Outcome(k, s)
    BY <1>1, CallOutcome
  <2>2. /\ UNCHANGED <<config, resumed>> /\ failed \subseteq failed'
        /\ pc \in {"static", "dynamic"}
    BY <1>1, CallKeeps
  <2>3. ASSUME Usable(s) # {} PROVE Fits(Reading(k, s))
    <3>1. PICK m \in selectedIPsForProbe : \E q \in s[m] : q[1] \in selectedIPsForProbe
      BY <2>3, UsableOne
    <3>2. selectedIPsForProbe \subseteq Datacenter
      BY DEF TypeInv, TypeOK
    <3>3. CASE pc = "static"
      <4>1. s \in Placed("static", scripts["static"])
        BY <2>1, <3>3 DEF Runs
      <4>2. Ran(s) = {test_duration}
        BY <3>1, <3>2, <4>1, StaticScripts, RanOne
      <4> QED  BY <2>2, <4>2, CallFits
    <3>4. CASE pc = "dynamic"
      <4>1. s \in IF dynamicMode = 3 THEN {scripts[dynamicKind]}
                 ELSE Placed(dynamicKind, scripts[dynamicKind])
        BY <2>1, <3>4 DEF Runs
      <4>2. ASSUME ~Persists \/ resumed = {} PROVE Ran(s) = {test_duration}
        <5>1. \A n \in Datacenter : \A p \in s[n] : p[2] = test_duration
          BY <3>4, <4>1, <4>2, DynamicScripts
        <5> QED  BY <3>1, <3>2, <5>1, RanOne
      <4> QED  BY <2>2, <4>2, CallFits
    <3> QED  BY <2>2, <3>3, <3>4
  <2>4. ASSUME NEW r, Known(r)' PROVE Fits(r)
    BY <2>1, <2>2, <2>3, <2>4, CallLearns DEF MeasureInv
  <2> QED  BY <2>2, <2>4, StaysFit
<1>2. CASE ~(StaticDone \/ StaticFails \/ DynamicDone \/ DynamicFails)
  <2>1. /\ UNCHANGED <<config, local>> /\ files' \subseteq files
        /\ failed \subseteq failed' /\ resumed \subseteq resumed'
    BY <1>2, OthersKeep
  <2>2. ASSUME NEW r, Known(r)' PROVE Fits(r)
    BY <2>1, <2>2, OthersLearnNothing DEF MeasureInv
  <2> QED  BY <2>1, <2>2, StaysFit
<1> QED  BY <1>1, <1>2

LEMMA NextMeasureInv == TypeInv /\ DurationInv /\ MeasureInv /\ [Next]_vars => MeasureInv'
<1> SUFFICES ASSUME TypeInv, DurationInv, MeasureInv, [Next]_vars PROVE MeasureInv'
    OBVIOUS
<1>1. UNCHANGED config =>
        /\ Datacenter' = Datacenter /\ runForDurations' = runForDurations
        /\ (Persists' <=> Persists)
  BY SameConfig DEF Persists
<1>2. /\ config \in Configs /\ selectedIPsForProbe \subseteq Datacenter
      /\ scripts \in [Kind -> [Datacenter -> ScriptSet]]
      /\ index \in Nat /\ \A r \in resumed : r \in Nat
  BY ConfigAssumption DEF TypeInv, TypeOK, ScriptSet
<1>3. UNCHANGED <<config, scripts, resumed>> => \A n \in Datacenter : Aged(n)'
  BY <1>1 DEF MeasureInv, Aged
<1>4. \A r : Known(r)' => Fits(r)'
  BY NextFits
<1>5. UNCHANGED <<index, resumed>> => Resumed'
  BY DEF MeasureInv, Resumed, ResumedBy
<1> USE DEF stored
<1>6. CASE BeginSample
  BY <1>1, <1>2, <1>3, <1>4, <1>5, <1>6, SelectionNotEmpty DEF BeginSample, MeasureInv
<1>7. CASE SetDuration \/ SkipStatic
  BY <1>1, <1>3, <1>4, <1>5, <1>7 DEF SetDuration, SkipStatic, loop, MeasureInv
<1>8. CASE SkipDynamic
  BY <1>1, <1>3, <1>4, <1>5, <1>8 DEF SkipDynamic, MeasureInv
<1>9. CASE EndSample
  <2>1. Resumed'
    BY <1>2, <1>9 DEF EndSample, MeasureInv, Resumed, ResumedBy
  <2> QED  BY <1>1, <1>3, <1>4, <1>9, <2>1 DEF EndSample, MeasureInv
<1>10. CASE Finish
  BY <1>1, <1>3, <1>4, <1>5, <1>10 DEF Finish, loop, MeasureInv
<1>11. CASE Finished \/ UNCHANGED vars
  BY <1>1, <1>3, <1>4, <1>5, <1>11 DEF Finished, vars, loop, MeasureInv
<1>12. CASE StaticFails
  <2>1. UNCHANGED <<config, selectedIPsForProbe, cleanupMode, index, resumed>>
    BY <1>12 DEF StaticFails, AfterError
  <2>2. \A n \in Datacenter : Aged(n)'
    BY <1>12, <2>1, EmptiedAged DEF StaticFails, MeasureInv
  <2>3. selectedIPsForProbe # {}
    BY <1>12 DEF StaticFails, MeasureInv
  <2> QED  BY <1>1, <1>4, <1>5, <2>1, <2>2, <2>3 DEF MeasureInv
<1>13. CASE DynamicFails
  <2>1. /\ UNCHANGED <<config, selectedIPsForProbe, index, resumed>>
        /\ cleanupMode' \in {1, dynamicMode}
    BY <1>13 DEF DynamicFails, AfterError
  <2>2. \A n \in Datacenter : Aged(n)'
    BY <1>13, <2>1, EmptiedAged DEF DynamicFails, MeasureInv
  <2>3. selectedIPsForProbe # {}
    BY <1>13 DEF DynamicFails, MeasureInv
  <2> QED  BY <1>1, <1>4, <1>5, <2>1, <2>2, <2>3 DEF MeasureInv, dynamicMode
<1>14. CASE StaticDone
  <2>1. PICK s \in Placed("static", scripts["static"]) :
           scripts' = [scripts EXCEPT !["static"] = Emptied(s, selectedIPsForProbe)]
    BY <1>14 DEF StaticDone
  <2>2. /\ selectedIPsForProbe # {}
        /\ UNCHANGED <<config, selectedIPsForProbe, cleanupMode, index, resumed>>
    BY <1>14 DEF StaticDone, MeasureInv
  <2>3. ASSUME NEW n \in Datacenter PROVE Aged(n)'
    <3>1. scripts["static"][n] = {} /\ scripts["static"] \in [Datacenter -> ScriptSet]
      BY <1>2 DEF MeasureInv, Aged, Kind
    <3>2. n \notin selectedIPsForProbe => s[n] = {}
      BY <2>1, <3>1, PlacedShape
    <3>3. scripts'["static"][n] = {}
      BY <1>2, <2>1, <3>2 DEF Emptied, Kind
    <3>4. \A k \in {"snapshot", "dynamic"} : scripts'[k][n] = scripts[k][n]
      BY <1>2, <2>1 DEF Kind
    <3> QED  BY <1>1, <2>2, <3>3, <3>4 DEF MeasureInv, Aged
  <2> QED  BY <1>1, <1>4, <1>5, <2>2, <2>3 DEF MeasureInv
<1>15. CASE DynamicDone
  <2>1. PICK s \in IF dynamicMode = 3 THEN {scripts[dynamicKind]}
                   ELSE Placed(dynamicKind, scripts[dynamicKind]) :
           scripts' = [scripts EXCEPT ![dynamicKind] =
              IF dynamicMode = 1 THEN Emptied(s, selectedIPsForProbe) ELSE s]
    BY <1>15 DEF DynamicDone
  <2>2. /\ selectedIPsForProbe # {} /\ pc = "dynamic"
        /\ UNCHANGED <<config, selectedIPsForProbe, index, failed, resumed>>
        /\ cleanupMode' = dynamicMode
    BY <1>15 DEF DynamicDone, MeasureInv
  <2>6. dynamicKind \in Kind \ {"static"} /\ (~Persists => dynamicMode = 1)
    BY DEF dynamicKind, Kind, dynamicMode, MeasureInv
  <2>7. ASSUME NEW n \in Datacenter PROVE Aged(n)'
    <3>1. Aged(n)
      BY DEF MeasureInv
    <3>2. \A k \in Kind \ {dynamicKind} : scripts'[k][n] = scripts[k][n]
      BY <1>2, <2>1
    <3>3. scripts'[dynamicKind][n] \in {{}, s[n]}
      BY <1>2, <2>1, <2>6 DEF Emptied
    <3>4. ASSUME ~Persists PROVE scripts'[dynamicKind][n] = {}
      <4>1. scripts[dynamicKind][n] = {} /\ scripts[dynamicKind] \in [Datacenter -> ScriptSet]
        BY <1>2, <3>1, <3>4 DEF Aged, Kind, dynamicKind
      <4>2. dynamicMode = 1
        BY <2>6, <3>4
      <4>3. n \notin selectedIPsForProbe => s[n] = {}
        BY <2>1, <4>1, <4>2, PlacedShape
      <4> QED  BY <1>2, <2>1, <2>6, <4>2, <4>3 DEF Emptied
    <3>5. ASSUME resumed = {} PROVE \A p \in scripts'[dynamicKind][n] : p[2] = runDuration
      <4>1. test_duration = runDuration
        BY <2>2, <3>5 DEF DurationInv, DurationKnown, Stuck, Disturbed, Garbled, ResumedBy
      <4> QED  BY <2>1, <2>2, <3>3, <3>5, <4>1, DynamicScripts
    <3>6. /\ dynamicKind = "snapshot" => runDuration = 1
          /\ dynamicKind = "dynamic" => runDuration # 1
      BY DEF dynamicKind
    <3>7. \E i \in 1 .. Len(runForDurations) : runDuration = runForDurations[i]
      BY <1>2, <2>2, Durations DEF TypeInv, TypeOK, Progress, runDuration
    <3>8. CASE dynamicKind = "snapshot"
      BY <1>1, <2>2, <3>1, <3>2, <3>4, <3>5, <3>6, <3>8 DEF Aged, Kind
    <3>9. CASE dynamicKind = "dynamic"
      BY <1>1, <2>2, <3>1, <3>2, <3>4, <3>5, <3>6, <3>7, <3>9 DEF Aged, Kind
    <3> QED  BY <2>6, <3>8, <3>9 DEF Kind
  <2> QED  BY <1>1, <1>4, <1>5, <2>2, <2>6, <2>7 DEF MeasureInv
<1>16. CASE Restart
  <2>1. /\ UNCHANGED config /\ cleanupMode' = 1 /\ pc' = "sample"
        /\ resumed' = resumed \union {index'} /\ index' \in {index, index + 1}
        /\ scripts' = [k \in Kind |-> [n \in Datacenter |-> {}]]
    BY <1>16 DEF Restart
  <2>2. Resumed'
    <3>1. index' \in resumed' /\ index' \in Nat
      BY <1>2, <2>1
    <3>2. index' <= index'
      BY <3>1
    <3> QED  BY <3>1, <3>2 DEF Resumed, ResumedBy
  <2>3. \A n \in Datacenter : Aged(n)'
    BY <2>1 DEF Aged, Kind
  <2> QED  BY <1>1, <1>4, <2>1, <2>2, <2>3 DEF MeasureInv
<1> QED  BY <1>6, <1>7, <1>8, <1>9, <1>10, <1>11, <1>12, <1>13, <1>14, <1>15, <1>16
         DEF Next, Step

(* Every reading in a file was measured for the duration its call was made *)
(* for, for any number of durations, data centers and failed calls,        *)
(* although scripts stay on the nodes between samples and a failed call    *)
(* removes only some of them; and it was the call the file is named for,   *)
(* unless a call had failed before and left the copies that are read.      *)
(* After a restart that finds another duration than 20 in the client files *)
(* the first sample to get through is excepted, or all samples where       *)
(* scripts stay on the nodes or one duration begins like another one.      *)
THEOREM FilesMeasuredAsNamed == Spec => []MeasuredAsNamed
<1>1. Init => DurationInv
  BY DEF Init, DurationInv, DurationKnown
<1>2. MeasureInv /\ CoherentInv => MeasuredAsNamed
  <2> SUFFICES ASSUME MeasureInv, CoherentInv
               PROVE  \A f \in files : \A r \in f.readings :
                        Fits(r) /\ ((r.kind = f.kind /\ r.duration = f.duration) \/ FailedBy(r.index))
      BY DEF MeasuredAsNamed, Fits
  <2> TAKE f \in files
  <2> TAKE r \in f.readings
  <2>1. Fits(r)
    BY DEF MeasureInv, Known
  <2> QED  BY <2>1 DEF CoherentInv, OwnOrLeft
<1> QED  BY <1>1, <1>2, InitTypeInv, NextTypeInv, NextDurationInv, InitMeasureInv,
            NextMeasureInv, InitCoherentInv, NextCoherentInv, PTL DEF Spec

--------------------------------------------------------------------------------
(* The files a sample has.                                                 *)

Has(i, k, t) == \E f \in files : f.index = i /\ f.kind = k /\ f.duration = t

(* The kinds measured for the j-th duration once the loop is through with  *)
(* it; the static one comes first.                                         *)
Due(j, k) ==
  \/ /\ k = "static" /\ config.RUN_MODE # "DYNAMIC" /\ runForDurations[j] # 1
     /\ j < d \/ (j = d /\ pc = "dynamic")
  \/ /\ k = (IF runForDurations[j] = 1 THEN "snapshot" ELSE "dynamic")
     /\ config.RUN_MODE # "STATIC" /\ j < d

(* The sample under way has the files of the durations behind, and those   *)
(* behind have all files, unless a call failed.                            *)
CompleteInv ==
  /\ \A i \in 1 .. index - 1 : i \notin failed =>
       \A k, t : Has(i, k, t) <=> <<k, t>> \in Wanted(i)
  /\ pc \in {"duration", "static", "dynamic"} /\ index \notin failed =>
       \A k, t : Has(index, k, t) <=>
          \E j \in 1 .. Len(runForDurations) : runForDurations[j] = t /\ Due(j, k)

(* What a sample is asked to have, duration by duration.                   *)
LEMMA WantedKinds ==
  ASSUME NEW i, NEW k, NEW t
  PROVE  <<k, t>> \in Wanted(i) <=>
           /\ t \in Range(runForDurations)
           /\ \/ k = "static" /\ config.RUN_MODE # "DYNAMIC" /\ t # 1
              \/ /\ k = (IF t = 1 THEN "snapshot" ELSE "dynamic")
                 /\ config.RUN_MODE # "STATIC"
<1> HIDE DEF Range
<1> QED  BY DEF Wanted

(* Samples behind keep their files when the others' change.                *)
LEMMA BehindKept ==
  ASSUME UNCHANGED config, failed \subseteq failed', NEW i, i \notin failed',
         \A f \in files : f.index = i => f \in files',
         \A f \in files' : f.index = i => f \in files,
         i \notin failed => \A k, t : Has(i, k, t) <=> <<k, t>> \in Wanted(i)
  PROVE  \A k, t : Has(i, k, t)' <=> <<k, t>> \in Wanted(i)'
<1>1. Wanted(i)' = Wanted(i)
  BY SameConfig DEF Wanted
<1>2. \A k, t : Has(i, k, t)' <=> Has(i, k, t)
  BY DEF Has
<1> QED  BY <1>1, <1>2

LEMMA NextCompleteInv ==
  TypeInv /\ CoherentInv /\ CompleteInv /\ [Next]_vars => CompleteInv'
<1> SUFFICES ASSUME TypeInv, CoherentInv, CompleteInv, [Next]_vars PROVE CompleteInv'
    OBVIOUS
<1>1. /\ index \in Nat /\ 1 <= index /\ d \in 1 .. Len(runForDurations) + 1
      /\ Len(runForDurations) \in Nat /\ \A f \in files : f.index \in Nat
      /\ DOMAIN runForDurations = 1 .. Len(runForDurations)
      /\ config.RUN_MODE \in {"STATIC", "DYNAMIC", "BOTH"}
      /\ failed \subseteq 1 .. config.datasetSize /\ config.datasetSize \in Nat
  BY ConfigAssumption, Durations DEF TypeInv, TypeOK
<1>2. UNCHANGED config => runForDurations' = runForDurations
  BY SameConfig
<1> HIDE DEF Range
<1> USE DEF stored
<1>3. ASSUME UNCHANGED <<config, index, failed>>,
             \A f \in files : f \in files', \A f \in files' : f \in files \/ f.index = index
      PROVE  \A i \in 1 .. index' - 1 : i \notin failed' =>
               \A k, t : Has(i, k, t)' <=> <<k, t>> \in Wanted(i)'
  <2> SUFFICES ASSUME NEW i \in 1 .. index - 1, i \notin failed
               PROVE  \A k, t : Has(i, k, t)' <=> <<k, t>> \in Wanted(i)'
      BY <1>3
  <2>1. i # index
    BY <1>1
  <2> QED  BY <1>3, <2>1, BehindKept DEF CompleteInv
<1>4. UNCHANGED files => \A i, k, t : Has(i, k, t)' <=> Has(i, k, t)
  BY DEF Has
<1>5. CASE BeginSample
  <2>1. \A k, t : ~Has(index, k, t)
    BY <1>1, <1>5 DEF BeginSample, CoherentInv, FilesSoFar, Has
  <2>2. ASSUME NEW j \in 1 .. Len(runForDurations), NEW k PROVE ~Due(j, k)'
    BY <1>1, <1>5, <2>2 DEF BeginSample, Due
  <2> QED  BY <1>2, <1>3, <1>4, <1>5, <2>1, <2>2 DEF BeginSample, CompleteInv
<1>6. CASE SetDuration \/ SkipStatic
  <2>1. UNCHANGED <<config, loop, files, failed>> /\ pc \in {"duration", "static"}
    BY <1>6 DEF SetDuration, SkipStatic
  <2>2. ASSUME NEW j \in 1 .. Len(runForDurations), NEW k PROVE Due(j, k)' <=> Due(j, k)
    <3>1. CASE SetDuration
      BY <1>2, <2>1, <3>1 DEF SetDuration, Due, loop
    <3>2. CASE SkipStatic
      BY <1>1, <1>2, <2>1, <3>2 DEF SkipStatic, Due, loop, WantsStatic, runDuration
    <3> QED  BY <1>6, <3>1, <3>2
  <2> QED  BY <1>2, <1>3, <1>4, <2>1, <2>2 DEF CompleteInv, loop
<1>7. CASE StaticDone
  <2>1. PICK s, old, new : files' = files \union {File("static", s, old, new)}
    BY <1>7 DEF StaticDone, Collects
  <2>2. /\ UNCHANGED <<config, index, d, failed>> /\ pc = "static" /\ pc' = "dynamic"
        /\ WantsStatic /\ d \in 1 .. Len(runForDurations)
    BY <1>1, <1>7 DEF StaticDone, TypeInv, Progress
  <2>3. ASSUME NEW k, NEW t
        PROVE  Has(index, k, t)' <=> Has(index, k, t) \/ (k = "static" /\ t = runDuration)
    <3>1. /\ File("static", s, old, new).index = index
          /\ File("static", s, old, new).kind = "static"
          /\ File("static", s, old, new).duration = runDuration
      BY DEF File
    <3> HIDE DEF runDuration, dynamicKind
    <3> QED  BY <2>1, <2>2, <3>1 DEF Has
  <2>4. ASSUME NEW j \in 1 .. Len(runForDurations), NEW k
        PROVE  Due(j, k)' <=> Due(j, k) \/ (k = "static" /\ j = d)
    BY <1>1, <1>2, <2>2 DEF Due, WantsStatic, runDuration
  <2>5. \A f \in files' : f \in files \/ f.index = index
    BY <2>1 DEF File
  <2>6. \A i \in 1 .. index' - 1 : i \notin failed' =>
          \A k, t : Has(i, k, t)' <=> <<k, t>> \in Wanted(i)'
    BY <1>3, <2>1, <2>2, <2>5
  <2> QED  BY <1>2, <2>2, <2>3, <2>4, <2>6 DEF CompleteInv, runDuration
<1>8. CASE DynamicDone
  <2>1. PICK s, old, new : files' = files \union {File(dynamicKind, s, old, new)}
    BY <1>8 DEF DynamicDone, Collects
  <2>2. /\ UNCHANGED <<config, index, failed>> /\ pc = "dynamic" /\ pc' = "duration"
        /\ d' = d + 1 /\ WantsDynamic /\ d \in 1 .. Len(runForDurations)
    BY <1>1, <1>8 DEF DynamicDone, TypeInv, Progress
  <2>3. ASSUME NEW k, NEW t
        PROVE  Has(index, k, t)' <=> Has(index, k, t) \/ (k = dynamicKind /\ t = runDuration)
    <3>1. /\ File(dynamicKind, s, old, new).index = index
          /\ File(dynamicKind, s, old, new).kind = dynamicKind
          /\ File(dynamicKind, s, old, new).duration = runDuration
      BY DEF File
    <3> HIDE DEF runDuration, dynamicKind
    <3> QED  BY <2>1, <2>2, <3>1 DEF Has
  <2>4. ASSUME NEW j \in 1 .. Len(runForDurations), NEW k
        PROVE  Due(j, k)' <=> Due(j, k) \/ (k = dynamicKind /\ j = d)
    BY <1>1, <1>2, <2>2 DEF Due, WantsDynamic, dynamicKind, runDuration
  <2>5. \A f \in files' : f \in files \/ f.index = index
    BY <2>1 DEF File
  <2>6. \A i \in 1 .. index' - 1 : i \notin failed' =>
          \A k, t : Has(i, k, t)' <=> <<k, t>> \in Wanted(i)'
    BY <1>3, <2>1, <2>2, <2>5
  <2> QED  BY <1>2, <2>2, <2>3, <2>4, <2>6 DEF CompleteInv, runDuration
<1>9. CASE SkipDynamic
  <2>1. /\ UNCHANGED <<config, index, files, failed>> /\ pc = "dynamic" /\ pc' = "duration"
        /\ d' = d + 1 /\ ~WantsDynamic
    BY <1>9 DEF SkipDynamic
  <2>2. ASSUME NEW j \in 1 .. Len(runForDurations), NEW k PROVE Due(j, k)' <=> Due(j, k)
    BY <1>1, <1>2, <2>1 DEF Due, WantsDynamic
  <2> QED  BY <1>2, <1>3, <1>4, <2>1, <2>2 DEF CompleteInv
<1>10. CASE StaticFails \/ DynamicFails
  <2>1. /\ UNCHANGED <<config, index>> /\ failed' = failed \union {index}
        /\ \A f \in files : f \in files'
        /\ \A f \in files' : f \in files \/ f.index = index
    BY <1>10 DEF StaticFails, DynamicFails, AfterError, File
  <2>2. ASSUME NEW i \in 1 .. index - 1, i \notin failed'
        PROVE  \A k, t : Has(i, k, t)' <=> <<k, t>> \in Wanted(i)'
    BY <2>1, <2>2, BehindKept DEF CompleteInv
  <2> QED  BY <2>1, <2>2 DEF CompleteInv
<1>11. CASE EndSample
  <2>1. /\ UNCHANGED <<config, files, failed>> /\ index' = index + 1 /\ pc' = "sample"
        /\ pc = "duration" /\ d > Len(runForDurations)
    BY <1>11 DEF EndSample
  <2>2. ASSUME index \notin failed, NEW k, NEW t
        PROVE  Has(index, k, t) <=> <<k, t>> \in Wanted(index)
    <3>1. Has(index, k, t) <=>
            \E j \in 1 .. Len(runForDurations) : runForDurations[j] = t /\ Due(j, k)
      BY <2>1, <2>2 DEF CompleteInv
    <3>2. t \in Range(runForDurations) <=>
            \E j \in 1 .. Len(runForDurations) : runForDurations[j] = t
      BY <1>1 DEF Range
    <3>3. ASSUME NEW j \in 1 .. Len(runForDurations), runForDurations[j] = t
          PROVE  Due(j, k) <=>
                   \/ k = "static" /\ config.RUN_MODE # "DYNAMIC" /\ t # 1
                   \/ /\ k = (IF t = 1 THEN "snapshot" ELSE "dynamic")
                      /\ config.RUN_MODE # "STATIC"
      BY <1>1, <2>1, <3>3 DEF Due
    <3> QED  BY <3>1, <3>2, <3>3, WantedKinds
  <2>3. ASSUME NEW i \in 1 .. index' - 1, i \notin failed'
        PROVE  \A k, t : Has(i, k, t)' <=> <<k, t>> \in Wanted(i)'
    <3>1. i = index \/ i \in 1 .. index - 1
      BY <1>1, <2>1
    <3>2. i \notin failed => \A k, t : Has(i, k, t) <=> <<k, t>> \in Wanted(i)
      BY <2>2, <3>1 DEF CompleteInv
    <3> QED  BY <2>1, <2>3, <3>2, BehindKept
  <2> QED  BY <2>1, <2>3 DEF CompleteInv
<1>12. CASE Finish
  BY <1>3, <1>12 DEF Finish, loop, CompleteInv
<1>13. CASE Finished \/ UNCHANGED vars
  <2>1. UNCHANGED <<config, index, d, pc, files, failed>>
    BY <1>13 DEF Finished, vars, loop
  <2>2. \A j, k : Due(j, k)' <=> Due(j, k)
    BY <1>2, <2>1 DEF Due
  <2> QED  BY <1>2, <1>3, <1>4, <2>1, <2>2 DEF CompleteInv
<1>14. CASE Restart
  <2>1. /\ UNCHANGED config /\ pc' = "sample"
        /\ index' \in {index, index + 1} /\ index' <= config.datasetSize + 1
        /\ failed' = failed \union ({index} \intersect (1 .. config.datasetSize))
        /\ files' = {f \in files : f.index < index'}
    BY <1>14 DEF Restart
  <2>2. ASSUME NEW i \in 1 .. index' - 1, i \notin failed'
        PROVE  \A k, t : Has(i, k, t)' <=> <<k, t>> \in Wanted(i)'
    <3>1. index < index' => index \in failed'
      BY <1>1, <2>1
    <3>2. index' \in {index, index + 1}
      BY <2>1
    <3>3. ASSUME index' = index PROVE i \in 1 .. index - 1 /\ i < index'
      BY <1>1, <3>3
    <3>4. ASSUME index' = index + 1 PROVE i \in 1 .. index - 1 /\ i < index'
      <4>1. i # index
        BY <1>1, <2>2, <3>1, <3>4
      <4> QED  BY <1>1, <3>4, <4>1
    <3>5. i \in 1 .. index - 1 /\ i < index'
      BY <3>2, <3>3, <3>4
    <3> QED  BY <2>1, <2>2, <3>5, BehindKept DEF CompleteInv
  <2> QED  BY <2>1, <2>2 DEF CompleteInv
<1> QED  BY <1>5, <1>6, <1>7, <1>8, <1>9, <1>10, <1>11, <1>12, <1>13, <1>14 DEF Next, Step

(* A sample that is behind, with no failed call and no crash of its own,   *)
(* has every file its configuration asks for, whatever happened to the     *)
(* other samples: there is no gap without an error that was reported.      *)
THEOREM NoSilentGap == Spec => []GapsReported
<1>2. Init => CompleteInv
  BY DEF Init, CompleteInv
<1>3. TypeInv /\ CompleteInv => GapsReported
  <2> SUFFICES ASSUME CompleteInv, NEW i \in 1 .. index - 1, i \notin failed
               PROVE  {<<f.kind, f.duration>> : f \in {g \in files : g.index = i}} = Wanted(i)
      BY DEF GapsReported
  <2> DEFINE Made == {<<f.kind, f.duration>> : f \in {g \in files : g.index = i}}
  <2>1. \A k, t : Has(i, k, t) <=> <<k, t>> \in Wanted(i)
    BY DEF CompleteInv
  <2>2. ASSUME NEW x \in Made PROVE x \in Wanted(i)
    BY <2>1, <2>2 DEF Has
  <2>3. ASSUME NEW x \in Wanted(i) PROVE x \in Made
    <3>1. PICK k, t : x = <<k, t>>
      BY DEF Wanted
    <3> QED  BY <2>1, <3>1 DEF Has
  <2> QED  BY <2>2, <2>3
<1> QED  BY <1>2, <1>3, InitCoherentInv, InitTypeInv, NextTypeInv, NextCoherentInv,
            NextCompleteInv, PTL DEF Spec

================================================================================
