------------------------- MODULE LivePredictProofs -------------------------
(***************************************************************************)
(* Theorems about LivePredict, for every configuration and any number of   *)
(* invocations, failed calls and kills.                                    *)
(***************************************************************************)
EXTENDS LivePredict, FiniteSetTheorems, TLAPS

-----------------------------------------------------------------------------
(* The inductive invariant. *)

\* The nodes: a service waits only on a clean node, and outside of a call a
\* spent service, and with it a start.txt that is left, takes a kill.  Without
\* one the readings are those of the call.
NodeInv ==
  /\ service = "waiting" => start = None /\ status = {}
  /\ calling => service = "spent"
  /\ ~calling /\ service = "spent" => kills >= 1
  /\ start # None => kills >= 1
  /\ calling /\ kills = 0 => \A r \in status : r.kind = pc

\* How old the readings in status.txt are.
AgeInv ==
  \A r \in status :
    /\ r.measured <= round
    /\ r.measured >= round - kills
    /\ pc = "idle" => r.measured >= round + 1 - kills
    /\ pc \in {"lengthen", "report"} => r.measured = round

\* The bound of StalenessBounded.
Oldest == failures + (IF kills = 0 THEN 0 ELSE kills + 1)

\* How old the copies in reportPath are, of which there are none before a call
\* has failed or was killed.
LocalInv ==
  \A r \in local :
    /\ failures + kills >= 1
    /\ r.measured <= round
    /\ r.measured >= round - Oldest
    /\ pc \in {"idle", "lengthen", "report"} => r.measured >= round + 1 - Oldest

\* The aborted invocations have had no later index.
AbortInv ==
  /\ failures + kills >= 1 => aborted # {}
  /\ \A a \in aborted : a <= index

\* The readings of a json file: those of another kind or of an earlier
\* invocation take an aborted one.
FileInv ==
  \A k \in Kind : \A i \in 1 .. MaxInvocations : \A r \in files[k][i] :
    /\ (r.kind = k /\ r.recorded = r.measured) \/ FailedBy(i)
    /\ r.recorded - r.measured \in 0 .. Oldest
    /\ r.recorded <= round

Taken == {i \in DOMAIN files["snapshot"] : files["snapshot"][i] # {}}
Pending == pc \in {"static", "dynamic", "shorten", "snapshot"}

\* The snapshots taken have the first indices, an invocation that has not
\* taken its own has the next one.
TakenInv ==
  \E n \in Nat : /\ Taken = 1 .. n /\ n <= round /\ index <= n + 1
                 /\ Pending => index = n + 1 /\ n < round

\* An index that is behind has its snapshot or was aborted.
BehindInv ==
  /\ pc = "report" => index \in Taken
  /\ pc = "lengthen" => IF statusCode = "None" THEN index \in Taken ELSE index \in aborted
  /\ Pending => statusCode = "None"

\* A static or dynamic file without a snapshot is that of the current
\* invocation or of an aborted one.
AloneInv ==
  \A k \in {"static", "dynamic"} : \A i \in 1 .. MaxInvocations :
    files[k][i] # {} /\ i \notin aborted /\ i \notin Taken =>
      /\ i = index
      /\ pc \in IF k = "static" THEN {"dynamic", "shorten", "snapshot"}
                ELSE {"shorten", "snapshot"}

IInv == /\ TypeOK /\ NodeInv /\ AgeInv /\ LocalInv /\ AbortInv /\ FileInv
        /\ TakenInv /\ BehindInv /\ AloneInv /\ IndexFresh

(* The invariant holds initially. *)
THEOREM InitIInv == Init => IInv
<1> SUFFICES ASSUME Init PROVE IInv
  OBVIOUS
<1>1. TypeOK
  <2>1. /\ scripts \in [Kind -> {NoScripts, 1, 20}]
        /\ files \in [Kind -> [1 .. MaxInvocations -> SUBSET Record]]
        /\ status \subseteq Reading /\ local \subseteq Reading
    BY DEF Init
  <2>2. /\ index \in 1 .. MaxInvocations + 1 /\ round \in 0 .. MaxInvocations
        /\ failures \in Nat /\ kills \in Nat /\ failures + kills <= MaxAborts
    BY BoundAssumption DEF Init
  <2> QED  BY <2>1, <2>2 DEF Init, TypeOK
<1>2. NodeInv /\ AgeInv /\ LocalInv /\ AbortInv /\ BehindInv
  BY DEF Init, NodeInv, AgeInv, LocalInv, AbortInv, BehindInv, Pending
<1>3. Taken = {} /\ \A k \in Kind : \A i \in 1 .. MaxInvocations : files[k][i] = {}
  BY DEF Init, Taken, Kind
<1>4. TakenInv
  <2>1. Taken = 1 .. 0 /\ 0 <= round /\ ~Pending /\ index <= 0 + 1
    BY <1>3 DEF Init, Pending
  <2> QED  BY <2>1 DEF TakenInv
<1>5. AloneInv /\ FileInv /\ IndexFresh
  BY <1>3 DEF AloneInv, FileInv, IndexFresh, Kind
<1> QED  BY <1>1, <1>2, <1>4, <1>5 DEF IInv

(* The records of readings R in this invocation.                             *)
RecordsOf(R) ==
  {[kind |-> r.kind, duration |-> r.duration, measured |-> r.measured,
    recorded |-> round] : r \in R}

LEMMA RecordsAre ==
  ASSUME NEW R \in SUBSET Reading, R # {}, round \in Nat
  PROVE  /\ RecordsOf(R) \subseteq Record /\ RecordsOf(R) # {}
         /\ \A q \in RecordsOf(R) :
              /\ q.recorded = round
              /\ \E r \in R : /\ q.kind = r.kind /\ q.duration = r.duration
                              /\ q.measured = r.measured
<1>1. ASSUME NEW r \in R
      PROVE  [kind |-> r.kind, duration |-> r.duration, measured |-> r.measured,
              recorded |-> round] \in Record
  BY <1>1 DEF Reading, Record
<1>2. RecordsOf(R) \subseteq Record /\ RecordsOf(R) # {}
  BY <1>1 DEF RecordsOf
<1>3. ASSUME NEW q \in RecordsOf(R)
      PROVE  /\ q.recorded = round
             /\ \E r \in R : /\ q.kind = r.kind /\ q.duration = r.duration
                             /\ q.measured = r.measured
  BY <1>3 DEF RecordsOf
<1> QED  BY <1>2, <1>3

(* What is in the json files after a call has recorded readings R.           *)
LEMMA RecordedIs ==
  ASSUME TypeOK, calling, NEW R \in SUBSET Reading, R # {}
  PROVE  /\ index \in 1 .. MaxInvocations /\ pc \in Kind
         /\ Recorded(R) \in [Kind -> [1 .. MaxInvocations -> SUBSET Record]]
         /\ \A k \in Kind : \A i \in 1 .. MaxInvocations :
              Recorded(R)[k][i] = IF k = pc /\ i = index THEN files[k][i] \union RecordsOf(R)
                                  ELSE files[k][i]
<1>1. pc \in Kind /\ index \in 1 .. MaxInvocations /\ round \in Nat
  BY BoundAssumption DEF TypeOK, Kind
<1>2. files \in [Kind -> [1 .. MaxInvocations -> SUBSET Record]]
  BY DEF TypeOK
<1>3. Recorded(R) = [files EXCEPT ![pc][index] = @ \union RecordsOf(R)]
  BY DEF Recorded, RecordsOf
<1>4. RecordsOf(R) \subseteq Record
  BY <1>1, RecordsAre
<1>5. Recorded(R) \in [Kind -> [1 .. MaxInvocations -> SUBSET Record]]
  BY <1>1, <1>2, <1>3, <1>4
<1>6. \A k \in Kind : \A i \in 1 .. MaxInvocations :
        Recorded(R)[k][i] = IF k = pc /\ i = index THEN files[k][i] \union RecordsOf(R)
                            ELSE files[k][i]
  BY <1>1, <1>2, <1>3
<1> QED  BY <1>1, <1>5, <1>6

(* What a call leaves in the json files and in reportPath.                   *)
LEMMA CallLeaves ==
  ASSUME TypeOK, Succeed \/ Fail
  PROVE  /\ calling /\ ~calling' /\ pc \in Kind
         /\ \E R \in SUBSET Reading :
              /\ R # {} /\ R \subseteq local \union status
              /\ Succeed => files' = Recorded(R)
              /\ Fail /\ pc # "static" => files' = files
              /\ files' = files \/ files' = Recorded(R)
         /\ local' \subseteq local \union status
         /\ Succeed => local' \subseteq status /\ (local' # {} => local # {})
<1>1. status \subseteq Reading /\ local \subseteq Reading
  BY DEF TypeOK
<1>2. \A R \in Answers : R \in SUBSET Reading /\ R # {} /\ R \subseteq local \union status
  BY <1>1 DEF Answers
<1>3. calling /\ ~calling' /\ pc \in Kind
  BY DEF Succeed, Fail, TypeOK
<1>4. ASSUME Succeed, Fail PROVE FALSE
  BY <1>3, <1>4 DEF Succeed, Fail, TypeOK, history, BoundAssumption
<1>5. CASE Succeed
  <2>1. PICK R \in Answers :
          /\ files' = Recorded(R)
          /\ local' \in {{}} \union IF R \intersect local = {} THEN {} ELSE {status}
    BY <1>5 DEF Succeed
  <2>2. local' \subseteq status /\ (local' # {} => local # {})
    BY <2>1
  <2> QED  BY <1>2, <1>3, <1>4, <1>5, <2>1, <2>2
<1>6. CASE Fail
  <2>1. /\ files' \in {files} \union IF pc = "static" THEN {Recorded(R) : R \in Answers} ELSE {}
        /\ local' \subseteq local \union status /\ Answers # {}
    BY <1>6 DEF Fail
  <2>2. PICK R \in Answers : /\ files' = files \/ files' = Recorded(R)
                             /\ pc # "static" => files' = files
    BY <2>1
  <2> QED  BY <1>2, <1>3, <1>4, <1>6, <2>1, <2>2
<1> QED  BY <1>5, <1>6

(* The scripts, services and status files after the two halves of a call.    *)
LEMMA MeasuredIs ==
  ASSUME TypeOK, NEW k \in Kind, NEW s \in [Kind -> {NoScripts, 1, 20}]
  PROVE  /\ Measured(k, s) \subseteq Reading
         /\ \A r \in Measured(k, s) : r.measured = round /\ r.kind = k
<1>1. round \in Nat
  BY BoundAssumption DEF TypeOK
<1>2. CASE s[k] = NoScripts
  BY <1>2 DEF Measured
<1>3. CASE s[k] # NoScripts
  <2> DEFINE r == [kind |-> k, duration |-> s[k], measured |-> round]
  <2>1. r \in Reading /\ r.measured = round /\ r.kind = k
    BY <1>1, <1>3 DEF Reading
  <2>2. Measured(k, s) = {r}
    BY <1>3 DEF Measured
  <2> HIDE DEF r
  <2> QED  BY <2>1, <2>2
<1> QED  BY <1>2, <1>3

(* cleanup.sh leaves a clean node, unless a start.txt was left over: then    *)
(* the readings are those of the current invocation.                         *)
LEMMA CleanupIs ==
  ASSUME TypeOK, NodeInv, NEW s \in [Kind -> {NoScripts, 1, 20}], Cleanup(s)
  PROVE  /\ scripts' \in [Kind -> {NoScripts, 1, 20}]
         /\ start' = None /\ service' \in {"waiting", "spent"}
         /\ status' \subseteq Reading
         /\ \A r \in status' : r.measured = round
         /\ service' = "waiting" => status' = {}
         /\ service' = "spent" => kills >= 1
         /\ (\A k \in Kind : s[k] = NoScripts) => status' = {}
<1>1. CASE start = None
  BY <1>1 DEF Cleanup
<1>2. CASE start # None
  <2>1. start \in Kind
    BY <1>2 DEF TypeOK
  <2>2. status' = Measured(start, s) /\ service' = "spent" /\ kills >= 1
    BY <1>2 DEF Cleanup, NodeInv
  <2> QED  BY <2>1, <2>2, MeasuredIs DEF Cleanup, Measured
<1> QED  BY <1>1, <1>2

(* The number of invocations and the index computed from the files.          *)
LEMMA Numbers ==
  ASSUME TypeOK, TakenInv
  PROVE  /\ round \in Nat /\ kills \in Nat /\ failures \in Nat /\ index \in Nat
         /\ \E n \in Nat : Taken = 1 .. n /\ n <= round /\ NextIndex = n + 1 /\ index <= n + 1
<1>1. round \in Nat /\ kills \in Nat /\ failures \in Nat /\ index \in Nat
  BY BoundAssumption DEF TypeOK
<1>2. PICK n \in Nat : Taken = 1 .. n /\ n <= round /\ index <= n + 1
  BY DEF TakenInv
<1>3. Cardinality(1 .. n) = n
  BY <1>2, FS_Interval
<1>4. NextIndex = n + 1
  BY <1>2, <1>3 DEF NextIndex, Taken
<1> QED  BY <1>1, <1>2, <1>4

(* Every variable keeps its type.                                            *)
LEMMA TypeStep == IInv /\ [Next]_vars => TypeOK'
<1> SUFFICES ASSUME IInv, [Next]_vars PROVE TypeOK'
  OBVIOUS
<1> USE DEF invocation, node, stored, history
<1>1. TypeOK /\ NodeInv /\ TakenInv
  BY DEF IInv
<1>2. CASE Invoke
  <2>1. index' \in 1 .. MaxInvocations + 1 /\ index' <= round' /\ round' \in 0 .. MaxInvocations
    BY <1>1, <1>2, Numbers, BoundAssumption DEF Invoke, TypeOK
  <2>2. mode' \in {1, 2, 3}
    BY <1>2 DEF Invoke, Modes
  <2>3. pc' \in {"static", "dynamic"}
    BY <1>2 DEF Invoke
  <2> QED  BY <1>1, <1>2, <2>1, <2>2, <2>3 DEF Invoke, TypeOK, Kind
<1>3. CASE SkipDynamic
  BY <1>1, <1>3 DEF SkipDynamic, TypeOK, Kind
<1>4. CASE Shorten
  BY <1>1, <1>4 DEF Shorten, TypeOK, Kind, Sed
<1>5. CASE Lengthen
  BY <1>1, <1>5 DEF Lengthen, TypeOK, Kind, Sed
<1>6. CASE StartCall
  <2> DEFINE s == IF callMode = 3 THEN scripts ELSE [scripts EXCEPT ![pc] = test_duration]
  <2>1. s \in [Kind -> {NoScripts, 1, 20}] /\ pc \in Kind
    BY <1>1, <1>6 DEF TypeOK, StartCall
  <2> HIDE DEF s
  <2>2. CASE service = "waiting"
    <3>1. Measured(pc, s) \subseteq Reading
      BY <1>1, <2>1, MeasuredIs
    <3>2. /\ status' = status \union Measured(pc, s) /\ scripts' = s /\ service' = "spent"
          /\ start' = start
      BY <1>6, <2>2 DEF StartCall, s
    <3>3. status' \subseteq Reading
      BY <1>1, <3>1, <3>2 DEF TypeOK
    <3> QED  BY <1>1, <1>6, <2>1, <3>2, <3>3 DEF StartCall, TypeOK, Kind
  <2>3. CASE service # "waiting"
    <3>1. start' = pc /\ scripts' = s /\ UNCHANGED <<service, status>>
      BY <1>6, <2>3 DEF StartCall, s
    <3> QED  BY <1>1, <1>6, <2>1, <3>1 DEF StartCall, TypeOK, Kind
  <2> QED  BY <2>2, <2>3
<1>7. CASE Succeed
  <2> DEFINE s == [scripts EXCEPT ![Cleared] = NoScripts]
  <2>1. s \in [Kind -> {NoScripts, 1, 20}]
    BY <1>1 DEF TypeOK
  <2>2. /\ files' \in [Kind -> [1 .. MaxInvocations -> SUBSET Record]] /\ pc \in Kind
        /\ local' \subseteq Reading
    BY <1>1, <1>7, CallLeaves, RecordedIs DEF TypeOK
  <2>3. Cleanup(s)
    BY <1>7 DEF Succeed
  <2> HIDE DEF s
  <2>4. /\ scripts' \in [Kind -> {NoScripts, 1, 20}] /\ start' = None
        /\ service' \in {"waiting", "spent"} /\ status' \subseteq Reading
    BY <1>1, <2>1, <2>3, CleanupIs
  <2>5. pc' \in {"dynamic", "shorten", "lengthen"}
    BY <1>7, <2>2 DEF Succeed, following, Kind
  <2> QED  BY <1>1, <1>7, <2>2, <2>4, <2>5 DEF Succeed, TypeOK, Kind
<1>8. CASE Fail
  <2> DEFINE s == [k \in Kind |-> NoScripts]
  <2>1. s \in [Kind -> {NoScripts, 1, 20}]
    OBVIOUS
  <2>2. /\ files' \in [Kind -> [1 .. MaxInvocations -> SUBSET Record]]
        /\ index \in 1 .. MaxInvocations /\ local' \subseteq Reading
    BY <1>1, <1>8, CallLeaves, RecordedIs DEF TypeOK
  <2>3. Cleanup(s)
    BY <1>8 DEF Fail
  <2> HIDE DEF s
  <2>4. /\ scripts' \in [Kind -> {NoScripts, 1, 20}] /\ start' = None
        /\ service' \in {"waiting", "spent"} /\ status' \subseteq Reading
    BY <1>1, <2>1, <2>3, CleanupIs
  <2>5. /\ pc' \in {"lengthen", "idle"} /\ statusCode' \in {"None", "-1"}
        /\ failures' \in Nat /\ failures' + kills <= MaxAborts /\ kills' = kills
        /\ index' = index /\ calling' = FALSE
    BY <1>1, <1>8, BoundAssumption DEF Fail, TypeOK
  <2>6. pc # "idle" /\ aborted' \subseteq 1 .. MaxInvocations
    BY <1>1, <1>8, <2>2 DEF Fail, TypeOK, Kind
  <2> QED  BY <1>1, <1>8, <2>2, <2>4, <2>5, <2>6 DEF Fail, TypeOK, Kind
<1>9. CASE Report
  <2>1. \A v \in verdicts' : v.index \in 1 .. MaxInvocations
    BY <1>1, <1>9, BoundAssumption DEF Report, TypeOK
  <2> QED  BY <1>1, <1>9, <2>1 DEF Report, TypeOK, Kind
<1>10. CASE Kill
  <2>1. /\ aborted' \subseteq 1 .. MaxInvocations /\ kills' \in Nat
        /\ failures' + kills' <= MaxAborts /\ local' \subseteq Reading
    BY <1>1, <1>10, BoundAssumption DEF Kill, TypeOK
  <2> QED  BY <1>1, <1>10, <2>1 DEF Kill, TypeOK, Kind
<1>11. CASE UNCHANGED vars
  BY <1>1, <1>11 DEF vars, TypeOK
<1> QED
  BY <1>2, <1>3, <1>4, <1>5, <1>6, <1>7, <1>8, <1>9, <1>10, <1>11 DEF Next, Step

(* The nodes, and how old what they hold is: a round that begins in a        *)
(* cleanup has the number of the current invocation.                         *)
LEMMA NodeStep == IInv /\ [Next]_vars => NodeInv' /\ AgeInv'
<1> SUFFICES ASSUME IInv, [Next]_vars PROVE NodeInv' /\ AgeInv'
  OBVIOUS
<1>1. /\ TypeOK /\ NodeInv /\ AgeInv
      /\ round \in Nat /\ kills \in Nat /\ failures \in Nat
  BY Numbers DEF IInv
<1>2. \A r \in status : r.measured \in Nat
  BY <1>1 DEF TypeOK, Reading
<1>3. CASE Invoke
  <2>1. /\ UNCHANGED <<service, start, status, kills, calling>> /\ ~calling
        /\ pc = "idle" /\ pc' \in {"static", "dynamic"} /\ round' = round + 1
    BY <1>1, <1>3 DEF Invoke, stored, node, TypeOK, Kind
  <2>2. NodeInv'
    BY <1>1, <2>1 DEF NodeInv
  <2>3. AgeInv'
    BY <1>1, <1>2, <2>1 DEF AgeInv
  <2> QED  BY <2>2, <2>3
<1>4. CASE SkipDynamic \/ Shorten \/ Report
  <2>1. UNCHANGED <<service, start, status, kills, calling, round>> /\ ~calling
    BY <1>1, <1>4 DEF SkipDynamic, Shorten, Report, stored, node, history, invocation, TypeOK, Kind
  <2>2. NodeInv'
    BY <1>1, <2>1 DEF NodeInv
  <2>3. \/ pc' \in {"shorten", "snapshot"}
        \/ pc = "report" /\ pc' = "idle"
    BY <1>4 DEF SkipDynamic, Shorten, Report
  <2>4. \A r \in status : pc = "report" => kills >= 1
    BY <1>1, <2>1 DEF NodeInv, TypeOK
  <2>5. AgeInv'
    BY <1>1, <1>2, <2>1, <2>3, <2>4 DEF AgeInv
  <2> QED  BY <2>2, <2>5
<1>5. CASE Lengthen
  <2>1. /\ UNCHANGED <<service, start, status, kills, calling, round>> /\ ~calling
        /\ pc = "lengthen" /\ pc' \in {"idle", "report"}
    BY <1>1, <1>5 DEF Lengthen, stored, node, history, invocation, TypeOK, Kind
  <2>2. NodeInv'
    BY <1>1, <2>1 DEF NodeInv
  <2>3. \A r \in status : kills >= 1
    BY <1>1, <2>1 DEF NodeInv, TypeOK
  <2>4. AgeInv'
    BY <1>1, <1>2, <2>1, <2>3 DEF AgeInv
  <2> QED  BY <2>2, <2>4
<1>6. CASE StartCall
  <2> DEFINE s == IF callMode = 3 THEN scripts ELSE [scripts EXCEPT ![pc] = test_duration]
  <2>1. s \in [Kind -> {NoScripts, 1, 20}] /\ pc \in Kind
    BY <1>1, <1>6 DEF TypeOK, StartCall
  <2> HIDE DEF s
  <2>2. CASE service = "waiting"
    <3>1. status = {} /\ start = None
      BY <1>1, <2>2 DEF NodeInv
    <3>2. \A r \in Measured(pc, s) : r.measured = round /\ r.kind = pc
      BY <1>1, <2>1, MeasuredIs
    <3>3. status' = Measured(pc, s) /\ service' = "spent" /\ start' = start
      BY <1>6, <2>2, <3>1 DEF StartCall, s
    <3> QED  BY <1>1, <1>6, <2>1, <3>1, <3>2, <3>3 DEF StartCall, history, NodeInv, AgeInv, Kind
  <2>3. CASE service # "waiting"
    <3>1. service = "spent" /\ kills >= 1
      BY <1>1, <1>6, <2>3 DEF TypeOK, StartCall, NodeInv
    <3>2. start' = pc /\ UNCHANGED <<service, status>>
      BY <1>6, <2>3 DEF StartCall
    <3> QED  BY <1>1, <1>2, <1>6, <2>1, <3>1, <3>2 DEF StartCall, history, NodeInv, AgeInv, Kind
  <2> QED  BY <2>2, <2>3
<1>7. CASE Succeed
  <2> DEFINE s == [scripts EXCEPT ![Cleared] = NoScripts]
  <2>1. s \in [Kind -> {NoScripts, 1, 20}] /\ Cleanup(s)
    BY <1>1, <1>7 DEF TypeOK, Succeed
  <2> HIDE DEF s
  <2>2. /\ start' = None
        /\ \A r \in status' : r.measured = round
        /\ service' = "waiting" => status' = {}
        /\ service' = "spent" => kills >= 1
    BY <1>1, <2>1, CleanupIs
  <2>3. pc' # "idle" /\ calling' = FALSE /\ UNCHANGED history
    BY <1>1, <1>7 DEF Succeed, following, TypeOK, Kind
  <2> QED  BY <1>1, <2>2, <2>3 DEF history, NodeInv, AgeInv
<1>8. CASE Fail
  <2> DEFINE s == [k \in Kind |-> NoScripts]
  <2>1. Cleanup(s) /\ s \in [Kind -> {NoScripts, 1, 20}] /\ \A k \in Kind : s[k] = NoScripts
    BY <1>8 DEF Fail
  <2> HIDE DEF s
  <2>2. /\ start' = None /\ status' = {}
        /\ service' = "spent" => kills >= 1
    BY <1>1, <2>1, CleanupIs
  <2> QED  BY <1>8, <2>2 DEF Fail, NodeInv, AgeInv
<1>9. CASE Kill
  <2>1. /\ kills' = kills + 1 /\ round' = round /\ pc' = "idle" /\ calling' = FALSE
        /\ UNCHANGED <<service, start, status>>
    BY <1>9 DEF Kill, node
  <2> QED  BY <1>1, <1>2, <2>1 DEF NodeInv, AgeInv
<1>10. CASE UNCHANGED vars
  BY <1>1, <1>10 DEF vars, stored, node, history, invocation, NodeInv, AgeInv
<1> QED
  BY <1>3, <1>4, <1>5, <1>6, <1>7, <1>8, <1>9, <1>10 DEF Next, Step

(* How the bound grows: by one for a failed call, by more for a kill.        *)
LEMMA OldestIs ==
  ASSUME kills \in Nat, failures \in Nat
  PROVE  /\ Oldest \in Nat /\ (failures + kills >= 1 => Oldest >= kills + 1)
         /\ Oldest >= kills
         /\ failures' = failures /\ kills' = kills => Oldest' = Oldest
         /\ failures' = failures + 1 /\ kills' = kills => Oldest' = Oldest + 1
         /\ failures' = failures /\ kills' = kills + 1 => Oldest' >= Oldest + 1
BY DEF Oldest

(* The copies that are left, and the aborted invocations.                    *)
LEMMA LocalStep == IInv /\ [Next]_vars => LocalInv' /\ AbortInv'
<1> SUFFICES ASSUME IInv, [Next]_vars PROVE LocalInv' /\ AbortInv'
  OBVIOUS
<1>1. /\ TypeOK /\ NodeInv /\ AgeInv /\ LocalInv /\ AbortInv /\ TakenInv
      /\ round \in Nat /\ kills \in Nat /\ failures \in Nat /\ index \in Nat
  BY Numbers DEF IInv
<1>2. \A r \in local \union status : r.measured \in Nat
  BY <1>1 DEF TypeOK, Reading
<1>3. \A a \in aborted : a \in Nat
  BY <1>1 DEF TypeOK
<1> USE OldestIs
<1>4. CASE Invoke
  <2>1. /\ UNCHANGED <<local, kills, failures, aborted>>
        /\ pc = "idle" /\ pc' \in {"static", "dynamic"} /\ round' = round + 1
        /\ index' = NextIndex
    BY <1>4 DEF Invoke, stored
  <2>2. LocalInv'
    BY <1>1, <1>2, <2>1 DEF LocalInv
  <2>3. index <= NextIndex /\ NextIndex \in Nat
    BY <1>1, Numbers
  <2>4. AbortInv'
    BY <1>1, <1>3, <2>1, <2>3 DEF AbortInv
  <2> QED  BY <2>2, <2>4
<1>5. CASE SkipDynamic \/ Shorten \/ Lengthen \/ StartCall \/ Report \/ UNCHANGED vars
  <2>1. UNCHANGED <<local, kills, failures, aborted, index, round>>
    BY <1>5 DEF SkipDynamic, Shorten, Lengthen, StartCall, Report, vars, stored, history, invocation
  <2>2. pc' \in {"idle", "lengthen", "report"} => pc \in {"idle", "lengthen", "report"}
    BY <1>5 DEF SkipDynamic, Shorten, Lengthen, StartCall, Report, vars, Kind
  <2>3. LocalInv'
    BY <1>1, <1>2, <2>1, <2>2 DEF LocalInv
  <2>4. AbortInv'
    BY <1>1, <2>1 DEF AbortInv
  <2> QED  BY <2>3, <2>4
<1>6. CASE Succeed
  <2>1. UNCHANGED <<kills, failures, aborted, index, round>>
    BY <1>6 DEF Succeed, history
  <2>2. local' \subseteq status /\ (local' # {} => local # {})
    BY <1>1, <1>6, CallLeaves
  <2>3. ASSUME NEW r \in local'
        PROVE  /\ failures + kills >= 1 /\ r.measured <= round
               /\ r.measured >= round + 1 - Oldest
    <3>1. failures + kills >= 1
      BY <1>1, <2>2, <2>3 DEF LocalInv
    <3>2. r.measured <= round /\ r.measured >= round - kills
      BY <1>1, <2>2, <2>3 DEF AgeInv
    <3> QED  BY <1>1, <1>2, <2>2, <2>3, <3>1, <3>2
  <2>4. LocalInv'
    <3>1. \A r \in local' : r.measured \in Nat
      BY <1>2, <2>2
    <3> QED  BY <1>1, <2>1, <2>3, <3>1 DEF LocalInv
  <2>5. AbortInv'
    BY <1>1, <2>1 DEF AbortInv
  <2> QED  BY <2>4, <2>5
<1>7. CASE Fail \/ Kill
  <2>1. /\ round' = round /\ index' = index /\ aborted' = aborted \union {index}
        /\ \/ failures' = failures + 1 /\ kills' = kills
           \/ failures' = failures /\ kills' = kills + 1
    BY <1>7 DEF Fail, Kill
  <2>2. local' \subseteq local \union status
    BY <1>7 DEF Fail, Kill
  <2>3. Oldest' >= Oldest + 1 /\ Oldest' \in Nat /\ failures' + kills' >= 1
    BY <1>1, <2>1 DEF Oldest
  <2>4. ASSUME NEW r \in local'
        PROVE  /\ r.measured \in Nat /\ r.measured <= round
               /\ r.measured >= round - Oldest
    <3>1. CASE r \in local
      BY <1>1, <1>2, <3>1 DEF LocalInv
    <3>2. CASE r \in status
      <4>1. r.measured <= round /\ r.measured >= round - kills
        BY <1>1, <3>2 DEF AgeInv
      <4> QED  BY <1>1, <1>2, <3>2, <4>1
    <3> QED  BY <2>2, <2>4, <3>1, <3>2
  <2>5. LocalInv'
    BY <1>1, <2>1, <2>3, <2>4 DEF LocalInv
  <2>6. AbortInv'
    BY <1>1, <2>1 DEF AbortInv
  <2> QED  BY <2>5, <2>6
<1> QED
  BY <1>4, <1>5, <1>6, <1>7 DEF Next, Step

(* What the readings in the json files are of and how old they are.          *)
LEMMA FileStep == IInv /\ [Next]_vars => FileInv'
<1> SUFFICES ASSUME IInv, [Next]_vars PROVE FileInv'
  OBVIOUS
<1>1. /\ TypeOK /\ NodeInv /\ AgeInv /\ LocalInv /\ AbortInv /\ FileInv
      /\ round \in Nat /\ kills \in Nat /\ failures \in Nat
      /\ files \in [Kind -> [1 .. MaxInvocations -> SUBSET Record]]
  BY Numbers DEF IInv, TypeOK
<1>2. /\ kills' \in Nat /\ failures' \in Nat /\ Oldest' \in Nat /\ Oldest' >= Oldest
      /\ Oldest \in Nat /\ round' \in Nat /\ round' >= round /\ aborted \subseteq aborted'
  <2>1. \/ failures' = failures /\ kills' = kills
        \/ failures' = failures + 1 /\ kills' = kills
        \/ failures' = failures /\ kills' = kills + 1
    BY DEF Next, Step, Invoke, SkipDynamic, Shorten, Lengthen, StartCall, Succeed, Fail, Report,
           Kill, vars, history
  <2>2. (round' = round \/ round' = round + 1) /\ aborted \subseteq aborted'
    BY DEF Next, Step, Invoke, SkipDynamic, Shorten, Lengthen, StartCall, Succeed, Fail, Report,
           Kill, vars, history
  <2>3. kills' \in Nat /\ failures' \in Nat
    BY <1>1, <2>1
  <2>4. Oldest \in Nat /\ Oldest' \in Nat /\ Oldest' >= Oldest
    <3>1. CASE failures' = failures /\ kills' = kills
      BY <1>1, <3>1, OldestIs
    <3>2. CASE failures' = failures + 1 /\ kills' = kills
      BY <1>1, <3>2 DEF Oldest
    <3>3. CASE failures' = failures /\ kills' = kills + 1
      BY <1>1, <3>3 DEF Oldest
    <3> QED  BY <2>1, <3>1, <3>2, <3>3
  <2> QED  BY <1>1, <2>2, <2>3, <2>4
<1>3. ASSUME NEW k \in Kind, NEW i \in 1 .. MaxInvocations, NEW q \in files[k][i]
      PROVE  /\ (q.kind = k /\ q.recorded = q.measured) \/ FailedBy(i)'
             /\ q.recorded - q.measured \in 0 .. Oldest'
             /\ q.recorded <= round'
  <2>1. q \in Record
    BY <1>1, <1>3
  <2>2. q.recorded \in Nat /\ q.measured \in Nat
    BY <2>1 DEF Record
  <2>3. FailedBy(i) => FailedBy(i)'
    BY <1>2 DEF FailedBy
  <2> QED  BY <1>1, <1>2, <1>3, <2>2, <2>3 DEF FileInv
<1>4. CASE files' = files
  BY <1>3, <1>4 DEF FileInv
<1>5. CASE Succeed \/ Fail
  <2>1. PICK R \in SUBSET Reading :
          R # {} /\ R \subseteq local \union status /\ (files' = files \/ files' = Recorded(R))
    BY <1>1, <1>5, CallLeaves
  <2>2. calling /\ round' = round /\ index' = index
    BY <1>5 DEF Succeed, Fail, history
  <2>3. ASSUME NEW r \in R
        PROVE  /\ r.measured \in Nat /\ r.measured <= round /\ r.measured >= round - Oldest
               /\ (r.kind = pc /\ r.measured = round) \/ FailedBy(index)
    <3>1. r.measured \in Nat
      BY <2>1, <2>3 DEF Reading
    <3>2. r.measured <= round /\ r.measured >= round - Oldest
      <4>1. CASE r \in local
        BY <1>1, <4>1 DEF LocalInv
      <4>2. CASE r \in status
        <5>1. r.measured <= round /\ r.measured >= round - kills
          BY <1>1, <4>2 DEF AgeInv
        <5> QED  BY <1>1, <3>1, <5>1, OldestIs
      <4> QED  BY <2>1, <2>3, <4>1, <4>2
    <3>3. CASE failures + kills >= 1
      BY <1>1, <3>1, <3>2, <3>3 DEF AbortInv, FailedBy
    <3>4. CASE ~(failures + kills >= 1)
      <4>1. kills = 0 /\ r \notin local
        BY <1>1, <3>4 DEF LocalInv
      <4>2. r \in status
        BY <2>1, <2>3, <4>1
      <4>3. r.kind = pc
        BY <1>1, <2>2, <4>1, <4>2 DEF NodeInv
      <4>4. r.measured <= round /\ r.measured >= round - kills
        BY <1>1, <4>2 DEF AgeInv
      <4> QED  BY <1>1, <3>1, <3>2, <4>1, <4>3, <4>4
    <3> QED  BY <3>3, <3>4
  <2>4. CASE files' = Recorded(R)
    <3>1. /\ pc \in Kind /\ index \in 1 .. MaxInvocations
          /\ \A k \in Kind : \A i \in 1 .. MaxInvocations :
               Recorded(R)[k][i] = IF k = pc /\ i = index THEN files[k][i] \union RecordsOf(R)
                                   ELSE files[k][i]
      BY <1>1, <2>1, <2>2, RecordedIs
    <3>2. ASSUME NEW q \in RecordsOf(R)
          PROVE  /\ (q.kind = pc /\ q.recorded = q.measured) \/ FailedBy(index)'
                 /\ q.recorded - q.measured \in 0 .. Oldest'
                 /\ q.recorded <= round'
      <4>1. PICK r \in R : q.kind = r.kind /\ q.measured = r.measured /\ q.recorded = round
        BY <1>1, <2>1, <3>2, RecordsAre
      <4>2. FailedBy(index) => FailedBy(index)'
        BY <1>2, <2>2 DEF FailedBy
      <4>3. round - r.measured \in 0 .. Oldest'
        BY <1>1, <1>2, <2>3
      <4> QED  BY <1>1, <1>2, <2>3, <4>1, <4>2, <4>3
    <3>3. index' = index
      BY <2>2
    <3>4. ASSUME NEW k \in Kind, NEW i \in 1 .. MaxInvocations, NEW q \in files'[k][i]
          PROVE  /\ (q.kind = k /\ q.recorded = q.measured) \/ FailedBy(i)'
                 /\ q.recorded - q.measured \in 0 .. Oldest'
                 /\ q.recorded <= round'
      <4>1. CASE q \in files[k][i]
        BY <1>3, <4>1
      <4>2. CASE q \notin files[k][i]
        <5>1. k = pc /\ i = index /\ q \in RecordsOf(R)
          BY <2>4, <3>1, <3>4, <4>2
        <5>2. FailedBy(index)' => FailedBy(i)'
          BY <3>3, <5>1 DEF FailedBy
        <5> QED  BY <3>2, <5>1, <5>2
      <4> QED  BY <4>1, <4>2
    <3> QED  BY <3>4 DEF FileInv
  <2> QED  BY <1>4, <2>1, <2>4
<1> QED
  BY <1>4, <1>5
     DEF Next, Step, Invoke, SkipDynamic, Shorten, Lengthen, StartCall, Report, Kill, vars, stored

(* The indices: the snapshot that is recorded is the first of its index, a   *)
(* static or dynamic file is that of the current invocation.                 *)
LEMMA IndexStep ==
  IInv /\ [Next]_vars => TakenInv' /\ BehindInv' /\ AloneInv' /\ IndexFresh'
<1> SUFFICES ASSUME IInv, [Next]_vars
             PROVE  TakenInv' /\ BehindInv' /\ AloneInv' /\ IndexFresh'
  OBVIOUS
<1>1. /\ TypeOK /\ NodeInv /\ TakenInv /\ BehindInv /\ AloneInv /\ IndexFresh
      /\ round \in Nat /\ kills \in Nat /\ failures \in Nat /\ index \in Nat
      /\ files \in [Kind -> [1 .. MaxInvocations -> SUBSET Record]]
  BY Numbers DEF IInv, TypeOK
<1>2. /\ Taken = {i \in 1 .. MaxInvocations : files["snapshot"][i] # {}}
      /\ {"static", "dynamic"} \subseteq Kind
  BY <1>1 DEF Taken, Kind
<1>3. PICK n \in Nat : /\ Taken = 1 .. n /\ n <= round /\ index <= n + 1
                       /\ Pending => index = n + 1 /\ n < round
  BY <1>1 DEF TakenInv
<1>4. CASE Invoke
  <2>1. /\ UNCHANGED <<files, aborted>> /\ Taken' = Taken /\ round' = round + 1
        /\ index' = n + 1 /\ pc = "idle" /\ pc' \in {"static", "dynamic"}
    <3>1. index' = n + 1
      <4>1. Cardinality(1 .. n) = n
        BY <1>3, FS_Interval
      <4>2. NextIndex = n + 1
        BY <1>3, <4>1 DEF NextIndex, Taken
      <4> QED  BY <1>4, <4>2 DEF Invoke
    <3> QED  BY <1>4, <3>1 DEF Invoke, Taken, stored
  <2>2. TakenInv'
    <3>1. n <= round /\ round \in Nat /\ round' = round + 1
      BY <1>1, <1>3, <2>1
    <3>2. n <= round' /\ n < round'
      BY <3>1
    <3>3. Taken' = 1 .. n /\ index' <= n + 1
      BY <1>3, <2>1
    <3> QED  BY <2>1, <3>2, <3>3 DEF TakenInv
  <2>3. BehindInv'
    <3>1. statusCode' = "None"
      BY <1>4 DEF Invoke
    <3> QED  BY <2>1, <3>1 DEF BehindInv
  <2>4. AloneInv'
    <3>1. ASSUME NEW k \in {"static", "dynamic"}, NEW i \in 1 .. MaxInvocations,
                 files[k][i] # {}, i \notin aborted, i \notin Taken
          PROVE  FALSE
      BY <1>1, <2>1, <3>1 DEF AloneInv
    <3> QED  BY <2>1, <3>1 DEF AloneInv
  <2>5. IndexFresh'
    BY <1>1, <2>1 DEF IndexFresh
  <2> QED  BY <2>2, <2>3, <2>4, <2>5
<1>5. CASE SkipDynamic \/ Shorten \/ StartCall \/ Lengthen \/ Report
  <2>1. UNCHANGED <<files, aborted, index, round, statusCode>> /\ Taken' = Taken
    BY <1>5 DEF SkipDynamic, Shorten, StartCall, Lengthen, Report, invocation, stored, history, Taken
  <2>2. \/ pc = "dynamic" /\ pc' = "shorten"
        \/ pc = "shorten" /\ pc' = "snapshot"
        \/ pc' = pc /\ pc \in Kind
        \/ pc = "lengthen" /\ statusCode = "None" /\ pc' = "report"
        \/ pc = "lengthen" /\ statusCode # "None" /\ pc' = "idle"
        \/ pc = "report" /\ pc' = "idle"
    BY <1>5 DEF SkipDynamic, Shorten, StartCall, Lengthen, Report
  <2>3. TakenInv'
    <3>1. Pending' => Pending
      BY <2>2 DEF Pending
    <3> QED  BY <1>3, <2>1, <3>1 DEF TakenInv
  <2>4. BehindInv'
    BY <1>1, <2>1, <2>2 DEF BehindInv, Kind, Pending
  <2>5. AloneInv'
    BY <1>1, <2>1, <2>2 DEF AloneInv, Kind
  <2>6. IndexFresh'
    BY <1>1, <2>1 DEF IndexFresh
  <2> QED  BY <2>3, <2>4, <2>5, <2>6
<1>6. CASE Kill
  <2>1. /\ UNCHANGED <<files, index, round>> /\ Taken' = Taken /\ pc' = "idle"
        /\ aborted' = aborted \union {index}
    BY <1>6 DEF Kill, Taken
  <2>2. TakenInv'
    BY <1>3, <2>1 DEF TakenInv, Pending
  <2>3. BehindInv' /\ IndexFresh'
    BY <1>1, <2>1 DEF BehindInv, IndexFresh, Pending
  <2>4. AloneInv'
    BY <1>1, <2>1 DEF AloneInv
  <2> QED  BY <2>2, <2>3, <2>4
<1>7. ASSUME NEW R \in SUBSET Reading, R # {}, calling, files' \in {files, Recorded(R)}
      PROVE  \A k \in Kind : \A i \in 1 .. MaxInvocations :
               /\ ~(k = pc /\ i = index) => files'[k][i] = files[k][i]
               /\ files[k][i] = {} => \A r, q \in files'[k][i] : r.recorded = q.recorded
               /\ files' = Recorded(R) /\ k = pc /\ i = index => files'[k][i] # {}
  <2>1. \A k \in Kind : \A i \in 1 .. MaxInvocations :
          Recorded(R)[k][i] = IF k = pc /\ i = index THEN files[k][i] \union RecordsOf(R)
                              ELSE files[k][i]
    BY <1>1, <1>7, RecordedIs
  <2>2. RecordsOf(R) # {} /\ \A q \in RecordsOf(R) : q.recorded = round
    BY <1>1, RecordsAre, <1>7
  <2> SUFFICES ASSUME NEW k \in Kind, NEW i \in 1 .. MaxInvocations
               PROVE  /\ ~(k = pc /\ i = index) => files'[k][i] = files[k][i]
                      /\ files[k][i] = {} => \A r, q \in files'[k][i] : r.recorded = q.recorded
                      /\ files' = Recorded(R) /\ k = pc /\ i = index => files'[k][i] # {}
    OBVIOUS
  <2>3. \/ files'[k][i] = files[k][i] /\ (files' = Recorded(R) => ~(k = pc /\ i = index))
        \/ k = pc /\ i = index /\ files'[k][i] = files[k][i] \union RecordsOf(R)
    BY <1>7, <2>1
  <2> QED  BY <2>2, <2>3
<1>8. CASE Succeed
  <2>0. PICK R \in SUBSET Reading : R # {} /\ files' = Recorded(R)
    BY <1>1, <1>8, CallLeaves
  <2>1. /\ pc \in Kind /\ index \in 1 .. MaxInvocations /\ calling
        /\ DOMAIN files'["snapshot"] = 1 .. MaxInvocations
        /\ UNCHANGED <<aborted, index, round, statusCode>>
        /\ index = n + 1 /\ n < round /\ index \notin Taken
    <3>1. Pending
      BY <1>1, <1>8 DEF TypeOK, Succeed, Kind, Pending
    <3>2. DOMAIN Recorded(R)["snapshot"] = 1 .. MaxInvocations /\ index \in 1 .. MaxInvocations
      BY <1>1, <1>8, <2>0, RecordedIs DEF Succeed, Kind
    <3>3. pc \in Kind /\ calling /\ UNCHANGED <<aborted, index, round, statusCode>>
      BY <1>1, <1>8 DEF Succeed, history, TypeOK
    <3> QED  BY <1>1, <1>3, <2>0, <3>1, <3>2, <3>3
  <2>9. \A k \in Kind : \A i \in 1 .. MaxInvocations :
          /\ ~(k = pc /\ i = index) => files'[k][i] = files[k][i]
          /\ files[k][i] = {} => \A r, q \in files'[k][i] : r.recorded = q.recorded
          /\ k = pc /\ i = index => files'[k][i] # {}
    BY <1>7, <2>0, <2>1
  <2>2. CASE pc = "snapshot"
    <3>1. /\ pc' = "lengthen" /\ "snapshot" \in Kind
          /\ \A k \in {"static", "dynamic"} : \A i \in 1 .. MaxInvocations :
               files'[k][i] = files[k][i]
      BY <1>2, <1>8, <2>1, <2>2, <2>9 DEF Succeed, following, Kind
    <3>2. Taken' = Taken \union {index}
      BY <1>2, <2>1, <2>2, <2>9, <3>1 DEF Taken
    <3>3. TakenInv'
      <4>1. Taken' = 1 .. (n + 1) /\ n + 1 \in Nat /\ n + 1 <= round' /\ index' <= (n + 1) + 1
        BY <1>1, <1>3, <2>1, <3>2
      <4> QED  BY <3>1, <4>1 DEF TakenInv, Pending
    <3>4. BehindInv'
      <4>1. index' \in Taken'
        BY <2>1, <3>2
      <4>2. statusCode' = "None" \/ index' \in aborted'
        BY <1>1, <2>1, <2>2 DEF BehindInv, Pending
      <4> QED  BY <3>1, <4>1, <4>2 DEF BehindInv, Pending
    <3>5. AloneInv'
      BY <1>1, <1>2, <2>1, <2>2, <3>1, <3>2 DEF AloneInv
    <3>6. IndexFresh'
      <4>1. files["snapshot"][index] = {}
        BY <1>2, <2>1
      <4>2. ASSUME NEW k \in Kind, NEW i \in 1 .. MaxInvocations,
                   NEW r \in files'[k][i], NEW q \in files'[k][i], r.recorded # q.recorded
            PROVE  k # "snapshot" /\ i \in aborted'
        <5>1. ~(k = pc /\ i = index)
          BY <2>2, <2>9, <4>1, <4>2
        <5>2. files'[k][i] = files[k][i]
          BY <2>9, <5>1
        <5> QED  BY <1>1, <2>1, <4>2, <5>2 DEF IndexFresh
      <4> QED  BY <4>2 DEF IndexFresh
    <3> QED  BY <3>3, <3>4, <3>5, <3>6
  <2>3. CASE pc # "snapshot"
    <3>1. /\ \/ pc = "static" /\ pc' = "dynamic"
             \/ pc = "dynamic" /\ pc' = "shorten"
          /\ "snapshot" \in Kind
      BY <1>8, <2>1, <2>3 DEF Succeed, following, Kind
    <3>2. /\ Taken' = Taken
          /\ \A i \in 1 .. MaxInvocations : files'["snapshot"][i] = files["snapshot"][i]
      BY <1>2, <2>1, <2>3, <2>9, <3>1 DEF Taken
    <3>3. TakenInv'
      BY <1>3, <2>1, <3>1, <3>2 DEF TakenInv, Pending
    <3>4. BehindInv'
      BY <1>1, <2>1, <3>1 DEF BehindInv, Pending
    <3>5. ASSUME NEW k \in {"static", "dynamic"}, NEW i \in 1 .. MaxInvocations,
                 files'[k][i] # {}, i \notin aborted, i \notin Taken
          PROVE  /\ i = index
                 /\ pc' \in IF k = "static" THEN {"dynamic", "shorten", "snapshot"}
                            ELSE {"shorten", "snapshot"}
      <4>1. CASE k = pc /\ i = index
        BY <3>1, <4>1
      <4>2. CASE ~(k = pc /\ i = index)
        <5>1. files[k][i] # {}
          BY <1>2, <2>9, <3>5, <4>2
        <5> QED  BY <1>1, <3>1, <3>5, <5>1 DEF AloneInv
      <4> QED  BY <4>1, <4>2
    <3>6. AloneInv'
      BY <2>1, <3>2, <3>5 DEF AloneInv
    <3>7. ASSUME NEW k \in Kind, NEW i \in 1 .. MaxInvocations,
                 NEW r \in files'[k][i], NEW q \in files'[k][i], r.recorded # q.recorded
          PROVE  k # "snapshot" /\ i \in aborted
      <4>1. CASE k = pc /\ i = index
        <5>1. k \in {"static", "dynamic"}
          BY <3>1, <4>1
        <5>2. files[k][i] = {} \/ i \in aborted
          BY <1>1, <2>1, <3>1, <4>1, <5>1 DEF AloneInv
        <5> QED  BY <2>9, <3>7, <5>1, <5>2
      <4>2. CASE ~(k = pc /\ i = index)
        <5>1. files'[k][i] = files[k][i]
          BY <2>9, <4>2
        <5> QED  BY <1>1, <3>7, <5>1 DEF IndexFresh
      <4> QED  BY <4>1, <4>2
    <3>8. IndexFresh'
      BY <2>1, <3>7 DEF IndexFresh
    <3> QED  BY <3>3, <3>4, <3>6, <3>8
  <2> QED  BY <2>2, <2>3
<1>9. CASE Fail
  <2>0. PICK R \in SUBSET Reading : /\ R # {} /\ files' \in {files, Recorded(R)}
                                    /\ pc # "static" => files' = files
    BY <1>1, <1>9, CallLeaves
  <2>1. /\ pc \in Kind /\ index \in 1 .. MaxInvocations /\ calling
        /\ DOMAIN files'["snapshot"] = 1 .. MaxInvocations
        /\ aborted' = aborted \union {index} /\ UNCHANGED <<index, round>>
    <3>1. DOMAIN Recorded(R)["snapshot"] = 1 .. MaxInvocations /\ index \in 1 .. MaxInvocations
      BY <1>1, <1>9, <2>0, RecordedIs DEF Fail, Kind
    <3>2. DOMAIN files["snapshot"] = 1 .. MaxInvocations
      BY <1>1 DEF Kind
    <3>3. pc \in Kind /\ calling /\ aborted' = aborted \union {index} /\ UNCHANGED <<index, round>>
      BY <1>1, <1>9 DEF Fail, TypeOK
    <3> QED  BY <2>0, <3>1, <3>2, <3>3
  <2>2. \A k \in Kind : \A i \in 1 .. MaxInvocations :
          ~(k = pc /\ i = index) => files'[k][i] = files[k][i]
    BY <1>7, <2>0, <2>1
  <2>3. /\ Taken' = Taken
        /\ \A i \in 1 .. MaxInvocations : files'["snapshot"][i] = files["snapshot"][i]
    <3>1. \A i \in 1 .. MaxInvocations : files'["snapshot"][i] = files["snapshot"][i]
      BY <2>0, <2>2 DEF Kind
    <3> QED  BY <1>2, <2>1, <3>1 DEF Taken
  <2>4. \/ pc' = "idle"
        \/ pc' = "lengthen" /\ statusCode' = "-1"
    BY <1>9 DEF Fail
  <2>5. TakenInv'
    BY <1>3, <2>1, <2>3, <2>4 DEF TakenInv, Pending
  <2>6. BehindInv'
    BY <2>1, <2>4 DEF BehindInv, Pending
  <2>7. ASSUME NEW k \in {"static", "dynamic"}, NEW i \in 1 .. MaxInvocations,
               files'[k][i] # {}, i \notin aborted', i \notin Taken
        PROVE  FALSE
    <3>1. i # index /\ i \notin aborted /\ files[k][i] # {}
      BY <1>2, <2>1, <2>2, <2>7
    <3> QED  BY <1>1, <2>7, <3>1 DEF AloneInv
  <2>8. AloneInv'
    BY <2>3, <2>7 DEF AloneInv
  <2>9. ASSUME NEW k \in Kind, NEW i \in 1 .. MaxInvocations,
               NEW r \in files'[k][i], NEW q \in files'[k][i], r.recorded # q.recorded
        PROVE  k # "snapshot" /\ i \in aborted'
    <3>1. CASE files'[k][i] = files[k][i]
      BY <1>1, <2>1, <2>9, <3>1 DEF IndexFresh
    <3>2. CASE files'[k][i] # files[k][i]
      <4>1. k = pc /\ i = index /\ pc = "static"
        BY <2>0, <2>2, <3>2
      <4> QED  BY <2>1, <4>1
    <3> QED  BY <3>1, <3>2
  <2>10. IndexFresh'
    BY <2>9 DEF IndexFresh
  <2> QED  BY <2>5, <2>6, <2>8, <2>10
<1>10. CASE UNCHANGED vars
  <2>1. UNCHANGED <<pc, files, aborted, index, round, statusCode>> /\ Taken' = Taken
    BY <1>10 DEF vars, stored, invocation, history, Taken
  <2> QED
    BY <1>1, <2>1 DEF TakenInv, BehindInv, AloneInv, IndexFresh, Pending
<1> QED
  BY <1>4, <1>5, <1>6, <1>8, <1>9, <1>10 DEF Next, Step

(* IInv is inductive. *)
THEOREM StepIInv == IInv /\ [Next]_vars => IInv'
BY TypeStep, NodeStep, LocalStep, FileStep, IndexStep DEF IInv

(* IInv holds in every state of every behaviour. *)
THEOREM AlwaysIInv == Spec => []IInv
BY InitIInv, StepIInv, PTL DEF Spec

-----------------------------------------------------------------------------
(* What the readings are of, which calls hang and what is reported.          *)

\* Without a kill the template, the scripts and the readings of a call have
\* the duration of its kind, those in copies that of theirs, and a call has new
\* readings exactly if there were scripts, which only mode 3 does not send.
DurationInv ==
  kills = 0 =>
    /\ test_duration = IF pc \in {"snapshot", "lengthen"} THEN 1 ELSE 20
    /\ \A k \in Kind : scripts[k] \in {NoScripts, Named(k)}
    /\ calling => /\ \A r \in status : r.duration = Named(r.kind)
                  /\ status = {} => callMode = 3 /\ scripts[pc] = NoScripts
                  /\ status # {} => scripts[pc] # NoScripts
    /\ \A r \in local : r.duration = Named(r.kind)
    /\ \A k \in Kind : \A i \in 1 .. MaxInvocations : \A r \in files[k][i] :
          r.duration = Named(r.kind)

\* A careful operator goes into mode 3 with scripts of both kinds on the
\* nodes, and they are there until the snapshot is taken.
CarefulInv ==
  config.operator = "careful" /\ mode = 3 /\ Pending =>
    scripts["dynamic"] # NoScripts /\ scripts["snapshot"] # NoScripts

\* As documented, mode 2 is that of the first invocation only.  It places the
\* scripts of the snapshot, and the first dynamic measurement its own; if
\* nothing fails they stay.
DocumentedInv ==
  config.operator = "documented" /\ kills = 0 /\ failures = 0 =>
    /\ mode \in {2, 3}
    /\ scripts["snapshot"] = NoScripts =>
         IF round = 0 THEN pc = "idle" ELSE mode = 2 /\ Pending
    /\ scripts["dynamic"] = NoScripts =>
         \A i \in 1 .. MaxInvocations : files["dynamic"][i] = {}

\* The line of a snapshot comes with its report, unless an invocation with its
\* index or an earlier one was aborted.
LineInv ==
  /\ pc \in {"static", "dynamic"} => ~dynamicFlowOn
  /\ pc = "dynamic" /\ calling => Compares
  /\ pc \in {"shorten", "snapshot", "lengthen", "report"} => (dynamicFlowOn <=> Compares)
  /\ \A v \in verdicts : v = Line(v.index) /\ HasLine(v.index) /\ v.index \in Taken
  /\ \A i \in Taken :
       HasLine(i) /\ ~(i = index /\ pc \in {"lengthen", "report"}) =>
         Line(i) \in verdicts \/ FailedBy(i)

CallInv == DurationInv /\ CarefulInv /\ DocumentedInv /\ LineInv

(* Initially nothing was measured.                                           *)
LEMMA InitCallInv == Init => CallInv
<1> SUFFICES ASSUME Init PROVE CallInv
  OBVIOUS
<1>1. /\ pc = "idle" /\ ~calling /\ test_duration = 20 /\ round = 0 /\ mode = 2 /\ verdicts = {}
      /\ \A k \in Kind : scripts[k] = NoScripts
      /\ \A k \in Kind : \A i \in 1 .. MaxInvocations : files[k][i] = {}
      /\ local = {}
  BY DEF Init
<1>2. Taken = {}
  BY DEF Init, Taken, Kind
<1>3. DurationInv
  BY <1>1 DEF DurationInv
<1>4. CarefulInv /\ DocumentedInv
  BY <1>1 DEF CarefulInv, DocumentedInv, Pending, Kind
<1>5. LineInv
  BY <1>1, <1>2 DEF LineInv
<1> QED  BY <1>3, <1>4, <1>5 DEF CallInv

(* A call starts on a clean node unless the script was killed.               *)
LEMMA StartIs ==
  ASSUME TypeOK, NodeInv, kills = 0, StartCall
  PROVE  /\ pc \in Kind /\ calling' = TRUE
         /\ UNCHANGED <<pc, mode, test_duration, files, local>>
         /\ scripts' = IF callMode = 3 THEN scripts ELSE [scripts EXCEPT ![pc] = test_duration]
         /\ \/ scripts'[pc] = NoScripts /\ status' = {}
            \/ /\ scripts'[pc] # NoScripts
               /\ status' = {[kind |-> pc, duration |-> scripts'[pc], measured |-> round]}
<1>1. service = "waiting" /\ status = {}
  BY DEF NodeInv, TypeOK, StartCall
<1>2. status' = Measured(pc, scripts')
  <2>1. status' = status \union Measured(pc, scripts')
    BY <1>1 DEF StartCall
  <2> QED  BY <1>1, <2>1
<1>3. CASE scripts'[pc] = NoScripts
  BY <1>1, <1>2, <1>3 DEF StartCall, Measured, history
<1>4. CASE scripts'[pc] # NoScripts
  BY <1>1, <1>2, <1>4 DEF StartCall, Measured, history
<1> QED  BY <1>3, <1>4

(* A call ends with fewer scripts unless it was killed.                      *)
LEMMA EndIs ==
  ASSUME TypeOK, NodeInv, kills = 0, Succeed \/ Fail
  PROVE  /\ kills' = 0 /\ \A k \in Kind : scripts'[k] \in {NoScripts, scripts[k]}
         /\ UNCHANGED <<config, index, mode, test_duration, verdicts, round>>
<1>1. start = None
  BY DEF NodeInv
<1>2. CASE Succeed
  <2>1. scripts' = [scripts EXCEPT ![Cleared] = NoScripts]
    BY <1>2 DEF Succeed, Cleanup
  <2> QED  BY <1>2, <2>1 DEF Succeed, TypeOK, history
<1>3. CASE Fail
  <2>1. scripts' = [k \in Kind |-> NoScripts]
    BY <1>3 DEF Fail, Cleanup
  <2> QED  BY <1>3, <2>1 DEF Fail, TypeOK
<1> QED  BY <1>2, <1>3

(* Without kills nothing mixes the durations.                                *)
LEMMA DurationStep == IInv /\ DurationInv /\ [Next]_vars => DurationInv'
<1> SUFFICES ASSUME IInv, DurationInv, [Next]_vars, kills' = 0 PROVE DurationInv'
  BY DEF DurationInv
<1> USE DEF invocation, node, stored, history
<1>1. /\ TypeOK /\ NodeInv /\ kills \in Nat /\ round \in Nat
  BY Numbers DEF IInv
<1>2. ~Kill
  BY <1>1 DEF Kill
<1>3. kills = 0
  BY <1>2 DEF Next, Step, Invoke, SkipDynamic, Shorten, Lengthen, StartCall, Succeed, Fail, Report,
             vars
<1>4. /\ test_duration = IF pc \in {"snapshot", "lengthen"} THEN 1 ELSE 20
      /\ \A k \in Kind : scripts[k] \in {NoScripts, Named(k)}
      /\ calling => /\ \A r \in status : r.duration = Named(r.kind)
                    /\ status = {} => callMode = 3 /\ scripts[pc] = NoScripts
                    /\ status # {} => scripts[pc] # NoScripts
      /\ \A r \in local : r.duration = Named(r.kind)
      /\ \A k \in Kind : \A i \in 1 .. MaxInvocations : \A r \in files[k][i] :
            r.duration = Named(r.kind)
  BY <1>3 DEF DurationInv
<1>5. CASE Invoke \/ SkipDynamic \/ Shorten \/ Lengthen \/ Report
  <2>1. UNCHANGED <<scripts, local, files>> /\ ~calling'
    BY <1>1, <1>5 DEF Invoke, SkipDynamic, Shorten, Lengthen, Report, TypeOK, Kind
  <2>2. test_duration' = IF pc' \in {"snapshot", "lengthen"} THEN 1 ELSE 20
    BY <1>4, <1>5 DEF Invoke, SkipDynamic, Shorten, Lengthen, Report, Sed
  <2> QED  BY <1>4, <2>1, <2>2 DEF DurationInv
<1>6. CASE StartCall
  <2>1. /\ pc \in Kind /\ calling' = TRUE
        /\ UNCHANGED <<pc, mode, test_duration, files, local>>
        /\ scripts' = IF callMode = 3 THEN scripts ELSE [scripts EXCEPT ![pc] = test_duration]
        /\ \/ scripts'[pc] = NoScripts /\ status' = {}
           \/ /\ scripts'[pc] # NoScripts
              /\ status' = {[kind |-> pc, duration |-> scripts'[pc], measured |-> round]}
    BY <1>1, <1>3, <1>6, StartIs
  <2>2. test_duration = Named(pc) /\ test_duration # NoScripts
    BY <1>4, <2>1 DEF Kind, Named, NoScripts
  <2>3. scripts \in [Kind -> {NoScripts, 1, 20}]
    BY <1>1 DEF TypeOK
  <2>4. \A k \in Kind : scripts'[k] \in {NoScripts, Named(k)}
    BY <1>4, <2>1, <2>2, <2>3
  <2>5. scripts'[pc] = NoScripts => callMode = 3
    BY <2>1, <2>2, <2>3
  <2>6. \A r \in status' : r.duration = Named(r.kind)
    BY <2>1, <2>4
  <2>7. callMode' = callMode
    BY <2>1 DEF callMode
  <2>8. status' = {} <=> scripts'[pc] = NoScripts
    BY <2>1
  <2>9. test_duration' = IF pc' \in {"snapshot", "lengthen"} THEN 1 ELSE 20
    BY <1>4, <2>1
  <2> QED  BY <1>4, <2>1, <2>4, <2>5, <2>6, <2>7, <2>8, <2>9 DEF DurationInv
<1>7. CASE Succeed \/ Fail
  <2>1. /\ \A k \in Kind : scripts'[k] \in {NoScripts, scripts[k]}
        /\ UNCHANGED test_duration
    BY <1>1, <1>3, <1>7, EndIs
  <2>2. PICK R \in SUBSET Reading :
          R # {} /\ R \subseteq local \union status /\ (files' = files \/ files' = Recorded(R))
    BY <1>1, <1>7, CallLeaves
  <2>3. calling /\ ~calling' /\ pc \in Kind /\ local' \subseteq local \union status
    BY <1>1, <1>7, CallLeaves
  <2>4. test_duration' = IF pc' \in {"snapshot", "lengthen"} THEN 1 ELSE 20
    BY <1>4, <1>7, <2>1, <2>3 DEF Succeed, Fail, following, Kind
  <2>5. \A r \in local \union status : r.duration = Named(r.kind)
    BY <1>4, <2>3
  <2>6. ASSUME NEW k \in Kind, NEW i \in 1 .. MaxInvocations, NEW q \in files'[k][i]
        PROVE  q.duration = Named(q.kind)
    <3>1. CASE q \in files[k][i]
      BY <1>4, <3>1
    <3>2. CASE q \notin files[k][i]
      <4>1. files' = Recorded(R)
        BY <2>2, <2>6, <3>2
      <4>2. q \in RecordsOf(R)
        <5>1. Recorded(R)[k][i] = IF k = pc /\ i = index THEN files[k][i] \union RecordsOf(R)
                                  ELSE files[k][i]
          BY <1>1, <2>2, <2>3, RecordedIs
        <5> QED  BY <2>6, <3>2, <4>1, <5>1
      <4>3. PICK r \in R : q.kind = r.kind /\ q.duration = r.duration
        BY <1>1, <2>2, <4>2, RecordsAre
      <4>4. r.duration = Named(r.kind)
        BY <2>2, <2>5
      <4> QED  BY <4>3, <4>4
    <3> QED  BY <3>1, <3>2
  <2> QED  BY <1>4, <2>1, <2>3, <2>4, <2>5, <2>6 DEF DurationInv
<1>8. CASE UNCHANGED vars
  BY <1>3, <1>4, <1>8 DEF vars, DurationInv, callMode
<1> QED
  BY <1>2, <1>5, <1>6, <1>7, <1>8 DEF Next, Step

(* The scripts of a careful operator stay.                                   *)
LEMMA CarefulStep == IInv /\ CarefulInv /\ [Next]_vars => CarefulInv'
<1> SUFFICES ASSUME IInv, CarefulInv, [Next]_vars, config'.operator = "careful", mode' = 3, Pending'
             PROVE  scripts'["dynamic"] # NoScripts /\ scripts'["snapshot"] # NoScripts
  BY DEF CarefulInv
<1> USE DEF invocation, node, stored, history
<1>1. TypeOK /\ config' = config /\ "dynamic" \in Kind /\ "snapshot" \in Kind
  BY DEF IInv, Next, Step, Invoke, SkipDynamic, Shorten, Lengthen, StartCall, Succeed, Fail, Report,
         Kill, vars, Kind
<1>2. CASE Invoke
  BY <1>1, <1>2 DEF Invoke, Modes
<1>3. CASE SkipDynamic \/ Shorten \/ UNCHANGED vars
  BY <1>1, <1>3 DEF SkipDynamic, Shorten, vars, CarefulInv, Pending
<1>4. CASE Lengthen \/ Report \/ Kill
  BY <1>4 DEF Lengthen, Report, Kill, Pending
<1>5. CASE StartCall
  <2>1. /\ scripts' = IF callMode = 3 THEN scripts ELSE [scripts EXCEPT ![pc] = test_duration]
        /\ test_duration # NoScripts /\ mode' = mode /\ pc' = pc
    BY <1>1, <1>5 DEF StartCall, TypeOK, NoScripts
  <2>2. scripts["dynamic"] # NoScripts /\ scripts["snapshot"] # NoScripts
    BY <1>1, <2>1 DEF CarefulInv, Pending
  <2> QED  BY <1>1, <2>1, <2>2 DEF TypeOK
<1>6. CASE Succeed
  <2>1. /\ scripts' = [scripts EXCEPT ![Cleared] = NoScripts] /\ mode' = mode /\ pc \in Kind
        /\ pc' = following
    BY <1>1, <1>6 DEF Succeed, Cleanup, TypeOK
  <2>2. Cleared = "static" /\ Pending
    BY <2>1 DEF Cleared, callMode, Kind, following, Pending
  <2> QED  BY <1>1, <2>1, <2>2 DEF CarefulInv, TypeOK
<1>7. CASE Fail
  BY <1>7 DEF Fail, Pending
<1> QED
  BY <1>2, <1>3, <1>4, <1>5, <1>6, <1>7 DEF Next, Step

(* The scripts of the documented modes stay if nothing fails.                *)
LEMMA DocumentedStep == IInv /\ DurationInv /\ DocumentedInv /\ [Next]_vars => DocumentedInv'
<1> SUFFICES ASSUME IInv, DurationInv, DocumentedInv, [Next]_vars, config'.operator = "documented",
                    kills' = 0, failures' = 0
             PROVE  DocumentedInv'
  BY DEF DocumentedInv
<1> USE DEF invocation, node, stored, history
<1>1. /\ TypeOK /\ NodeInv /\ LocalInv
      /\ config' = config /\ "dynamic" \in Kind /\ "snapshot" \in Kind
      /\ kills \in Nat /\ failures \in Nat /\ round \in Nat
  BY Numbers DEF IInv, Next, Step, Invoke, SkipDynamic, Shorten, Lengthen, StartCall, Succeed, Fail,
                 Report, Kill, vars, Kind
<1>2. ~Kill /\ ~Fail
  BY <1>1 DEF Kill, Fail
<1>3. kills = 0 /\ failures = 0
  BY <1>2 DEF Next, Step, Invoke, SkipDynamic, Shorten, Lengthen, StartCall, Succeed, Report, vars
<1>4. /\ mode \in {2, 3}
      /\ scripts["snapshot"] = NoScripts =>
           IF round = 0 THEN pc = "idle" ELSE mode = 2 /\ Pending
      /\ scripts["dynamic"] = NoScripts =>
           \A i \in 1 .. MaxInvocations : files["dynamic"][i] = {}
  BY <1>1, <1>3 DEF DocumentedInv
<1>5. CASE Invoke
  <2>1. /\ mode' = (IF round = 0 THEN 2 ELSE 3) /\ round' = round + 1 /\ round' # 0
        /\ pc' \in {"static", "dynamic"} /\ pc = "idle" /\ UNCHANGED <<scripts, files>>
    BY <1>1, <1>5 DEF Invoke, Modes
  <2>2. scripts["snapshot"] = NoScripts => mode' = 2 /\ Pending'
    BY <1>4, <2>1 DEF Pending
  <2> QED  BY <1>4, <2>1, <2>2 DEF DocumentedInv
<1>6. CASE SkipDynamic \/ Shorten \/ Lengthen \/ Report \/ UNCHANGED vars
  <2>1. UNCHANGED <<scripts, files, mode, round>>
    BY <1>6 DEF SkipDynamic, Shorten, Lengthen, Report, vars
  <2>2. (Pending => Pending') /\ (pc = "idle" => pc' = "idle")
    BY <1>6 DEF SkipDynamic, Shorten, Lengthen, Report, vars, Pending
  <2> QED  BY <1>4, <2>1, <2>2 DEF DocumentedInv
<1>7. CASE StartCall
  <2>1. /\ UNCHANGED <<pc, mode, files, round>> /\ pc \in Kind /\ test_duration # NoScripts
        /\ scripts' = IF callMode = 3 THEN scripts ELSE [scripts EXCEPT ![pc] = test_duration]
    BY <1>1, <1>7 DEF StartCall, TypeOK, NoScripts
  <2>2. \A k \in Kind : scripts'[k] = NoScripts => scripts[k] = NoScripts
    BY <1>1, <2>1 DEF TypeOK
  <2>3. pc' = pc /\ (Pending' <=> Pending)
    BY <2>1 DEF Pending
  <2> QED  BY <1>1, <1>4, <2>1, <2>2, <2>3 DEF DocumentedInv
<1>8. CASE Succeed
  <2>1. /\ scripts' = [scripts EXCEPT ![Cleared] = NoScripts] /\ UNCHANGED <<mode, round>>
        /\ pc \in Kind /\ pc' = following /\ calling
    BY <1>1, <1>8 DEF Succeed, Cleanup, TypeOK
  <2>9. PICK R \in SUBSET Reading :
          R # {} /\ R \subseteq local \union status /\ files' = Recorded(R)
    BY <1>1, <1>8, CallLeaves
  <2>10. status # {}
    <3>1. local = {}
      BY <1>1, <1>3 DEF LocalInv
    <3> QED  BY <2>9, <3>1
  <2>2. Cleared = "static"
    BY <1>4, <2>1 DEF Cleared, callMode
  <2>3. scripts'["dynamic"] = scripts["dynamic"] /\ scripts'["snapshot"] = scripts["snapshot"]
    BY <1>1, <2>1, <2>2 DEF TypeOK
  <2>4. scripts[pc] # NoScripts
    BY <1>3, <2>1, <2>10 DEF DurationInv
  <2>5. CASE pc = "snapshot"
    <3>1. \A i \in 1 .. MaxInvocations : files'["dynamic"][i] = files["dynamic"][i]
      BY <1>1, <2>1, <2>5, <2>9, RecordedIs
    <3> QED  BY <1>4, <2>1, <2>3, <2>4, <2>5, <3>1 DEF DocumentedInv
  <2>6. CASE pc = "dynamic"
    <3>1. Pending' /\ pc # "idle"
      BY <2>1, <2>6 DEF Pending, following
    <3> QED  BY <1>4, <2>1, <2>3, <2>4, <2>6, <3>1 DEF DocumentedInv
  <2>7. CASE pc = "static"
    <3>1. \A i \in 1 .. MaxInvocations : files'["dynamic"][i] = files["dynamic"][i]
      BY <1>1, <2>1, <2>7, <2>9, RecordedIs
    <3>2. Pending' /\ pc # "idle"
      BY <2>1, <2>7 DEF Pending, following
    <3> QED  BY <1>4, <2>1, <2>3, <3>1, <3>2 DEF DocumentedInv
  <2> QED  BY <2>1, <2>5, <2>6, <2>7 DEF Kind
<1> QED
  BY <1>2, <1>5, <1>6, <1>7, <1>8 DEF Next, Step

(* A snapshot and its line go together.                                      *)
LEMMA LineStep == IInv /\ DurationInv /\ LineInv /\ [Next]_vars => LineInv'
<1> SUFFICES ASSUME IInv, DurationInv, LineInv, [Next]_vars PROVE LineInv'
  OBVIOUS
<1> USE DEF invocation, node, stored, history
<1>1. /\ TypeOK /\ TakenInv /\ BehindInv /\ AbortInv /\ FileInv /\ config' = config
      /\ kills \in Nat /\ failures \in Nat /\ index \in Nat
      /\ aborted \subseteq aborted' /\ \A a \in aborted : a \in Nat
  <2>1. TypeOK /\ TakenInv /\ BehindInv /\ AbortInv /\ FileInv
    BY DEF IInv
  <2>2. config' = config /\ aborted \subseteq aborted'
    BY DEF Next, Step, Invoke, SkipDynamic, Shorten, Lengthen, StartCall, Succeed, Fail,
           Report, Kill, vars
  <2>3. \A a \in aborted : a \in Nat
    BY <2>1 DEF TypeOK
  <2> QED  BY <2>1, <2>2, <2>3, Numbers
<1>2. /\ pc \in {"static", "dynamic"} => ~dynamicFlowOn
      /\ pc = "dynamic" /\ calling => Compares
      /\ pc \in {"shorten", "snapshot", "lengthen", "report"} => (dynamicFlowOn <=> Compares)
      /\ \A v \in verdicts : v = Line(v.index) /\ HasLine(v.index) /\ v.index \in Taken
      /\ \A i \in Taken :
           HasLine(i) /\ ~(i = index /\ pc \in {"lengthen", "report"}) =>
             Line(i) \in verdicts \/ FailedBy(i)
  BY DEF LineInv
<1>3. \A i : /\ Line(i)' = Line(i) /\ (HasLine(i)' <=> HasLine(i))
             /\ (FailedBy(i) => FailedBy(i)')
  BY <1>1 DEF Line, HasLine, FailedBy
<1>4. Pending => index \notin Taken
  <2>1. PICK n \in Nat : Taken = 1 .. n /\ (Pending => index = n + 1)
    BY <1>1 DEF TakenInv
  <2> QED  BY <2>1
<1>5. CASE Invoke
  <2>1. /\ pc = "idle" /\ pc' \in {"static", "dynamic"} /\ ~dynamicFlowOn' /\ Taken' = Taken
        /\ ~calling' /\ verdicts' = verdicts
    BY <1>1, <1>5 DEF Invoke, Taken, TypeOK, Kind
  <2> QED  BY <1>2, <1>3, <2>1 DEF LineInv
<1>6. CASE SkipDynamic \/ Shorten \/ StartCall \/ UNCHANGED vars
  <2>1. /\ Taken' = Taken
        /\ UNCHANGED <<index, dynamicFlowOn, statusCode, verdicts>>
    BY <1>6 DEF SkipDynamic, Shorten, StartCall, vars, Taken
  <2>2. (Compares' <=> Compares)
    BY <1>1, <2>1 DEF Compares
  <2>3. \/ pc = "dynamic" /\ pc' = "shorten" /\ ~Compares
        \/ pc = "shorten" /\ pc' = "snapshot"
        \/ pc' = pc /\ (pc = "dynamic" => (calling' => Compares \/ calling))
    BY <1>6 DEF SkipDynamic, Shorten, StartCall, vars
  <2> QED  BY <1>2, <1>3, <2>1, <2>2, <2>3 DEF LineInv
<1>7. CASE Lengthen
  <2>1. /\ Taken' = Taken /\ pc = "lengthen"
        /\ UNCHANGED <<index, dynamicFlowOn, statusCode, verdicts, aborted>>
        /\ pc' = IF statusCode = "None" THEN "report" ELSE "idle"
    BY <1>7 DEF Lengthen, Taken
  <2>2. (Compares' <=> Compares)
    BY <1>1, <2>1 DEF Compares
  <2>3. statusCode # "None" => FailedBy(index)
    BY <1>1, <2>1 DEF BehindInv, FailedBy
  <2> QED  BY <1>2, <1>3, <2>1, <2>2, <2>3 DEF LineInv
<1>8. CASE Report
  <2>1. /\ Taken' = Taken /\ pc = "report" /\ pc' = "idle" /\ index' = index /\ index \in Taken
    BY <1>1, <1>8 DEF Report, Taken, BehindInv
  <2>2. index \in 1 .. MaxInvocations
    BY <1>1, <2>1 DEF Taken, TypeOK, Kind
  <2>3. (dynamicFlowOn <=> index % config.compareFrequency = 0)
    BY <1>2, <2>1 DEF Compares
  <2>4. CASE CanReport
    <3>1. verdicts' = verdicts \union {Line(index)}
      <4>1. verdicts' = verdicts \union
                          {[index |-> index,
                            compared |-> IF config.captureStatic THEN "static"
                                         ELSE IF dynamicFlowOn THEN "predicted"
                                         ELSE "nothing"]}
        BY <1>8, <2>4 DEF Report
      <4> QED  BY <2>3, <4>1 DEF Line
    <3>2. Line(index).index = index
      BY DEF Line
    <3>3. HasLine(index)
      BY <2>3, <2>4 DEF CanReport, HasLine
    <3>4. \A v \in verdicts' : v = Line(v.index) /\ HasLine(v.index) /\ v.index \in Taken
      BY <1>2, <2>1, <3>1, <3>2, <3>3
    <3>5. \A i \in Taken : HasLine(i) => Line(i) \in verdicts' \/ FailedBy(i)
      BY <1>2, <3>1
    <3> QED  BY <1>3, <2>1, <3>4, <3>5 DEF LineInv
  <2>5. CASE ~CanReport
    <3>1. verdicts' = verdicts
      BY <1>8, <2>5 DEF Report
    <3>2. HasLine(index) => FailedBy(index)
      <4>1. SUFFICES ASSUME ~FailedBy(index), HasLine(index) PROVE CanReport
        BY <2>5
      <4>2. failures + kills = 0
        BY <1>1, <4>1 DEF AbortInv, FailedBy
      <4>3. kills = 0
        BY <1>1, <4>2
      <4>4. \A k \in Kind : Readable(k)
        <5>1. \A k \in Kind : \A r \in files[k][index] : r.kind = k
          BY <1>1, <2>2, <4>1 DEF FileInv
        <5>2. \A k \in Kind : \A r \in files[k][index] : r.duration = Named(r.kind)
          BY <2>2, <4>3 DEF DurationInv
        <5> QED  BY <5>1, <5>2 DEF Readable
      <4> QED  BY <2>3, <4>1, <4>4 DEF CanReport, HasLine, Kind
    <3> QED  BY <1>2, <1>3, <2>1, <3>1, <3>2 DEF LineInv
  <2> QED  BY <2>4, <2>5
<1>9. CASE Succeed
  <2>1. /\ calling /\ pc \in Kind /\ pc' = following
        /\ ~calling' /\ UNCHANGED <<index, statusCode, verdicts>>
        /\ dynamicFlowOn' = (dynamicFlowOn \/ pc = "dynamic")
    BY <1>1, <1>9 DEF Succeed, TypeOK, Kind
  <2>2. (Compares' <=> Compares)
    BY <1>1, <2>1 DEF Compares
  <2>3. index \notin Taken /\ Pending
    BY <1>4, <2>1 DEF Pending, Kind
  <2>4. PICK R \in SUBSET Reading : R # {} /\ files' = Recorded(R)
    BY <1>1, <1>9, CallLeaves
  <2>5. /\ files' \in [Kind -> [1 .. MaxInvocations -> SUBSET Record]]
        /\ \A k \in Kind : \A i \in 1 .. MaxInvocations :
             files'[k][i] = IF k = pc /\ i = index THEN files[k][i] \union RecordsOf(R)
                            ELSE files[k][i]
        /\ index \in 1 .. MaxInvocations
    BY <1>1, <2>1, <2>4, RecordedIs
  <2>6. /\ DOMAIN files["snapshot"] = 1 .. MaxInvocations
        /\ DOMAIN files'["snapshot"] = 1 .. MaxInvocations
    BY <1>1, <2>5 DEF TypeOK, Kind
  <2>7. CASE pc \in {"static", "dynamic"}
    <3>1. \/ pc = "dynamic" /\ pc' = "shorten" /\ dynamicFlowOn' /\ Compares
          \/ pc = "static" /\ pc' = "dynamic" /\ ~dynamicFlowOn'
      BY <1>2, <2>1, <2>7 DEF following
    <3>2. Taken' = Taken
      BY <2>5, <2>6, <2>7 DEF Taken, Kind
    <3> QED  BY <1>2, <1>3, <2>1, <2>2, <2>3, <3>1, <3>2 DEF LineInv
  <2>8. CASE pc = "snapshot"
    <3>1. /\ pc' = "lengthen" /\ (dynamicFlowOn' <=> Compares)
      BY <1>2, <2>1, <2>8 DEF following
    <3>2. Taken \subseteq Taken' /\ Taken' \subseteq Taken \union {index}
      BY <2>5, <2>6, <2>8 DEF Taken, Kind
    <3>3. \A i \in Taken : HasLine(i) => Line(i) \in verdicts \/ FailedBy(i)
      BY <1>2, <2>8
    <3> QED  BY <1>2, <1>3, <2>1, <2>2, <3>1, <3>2, <3>3 DEF LineInv
  <2> QED  BY <2>1, <2>7, <2>8 DEF Kind
<1>10. CASE Fail
  <2>1. /\ pc \in Kind /\ ~calling' /\ UNCHANGED <<index, dynamicFlowOn, verdicts>>
        /\ pc' = IF pc = "snapshot" THEN "lengthen" ELSE "idle"
    BY <1>1, <1>10 DEF Fail, TypeOK
  <2>2. (Compares' <=> Compares)
    BY <1>1, <2>1 DEF Compares
  <2>3. Taken' = Taken
    <3>1. PICK R \in SUBSET Reading : /\ R # {} /\ (files' = files \/ files' = Recorded(R))
                                      /\ pc # "static" => files' = files
      BY <1>1, <1>10, CallLeaves
    <3>2. CASE files' = files
      BY <3>2 DEF Taken
    <3>3. CASE files' # files
      <4>1. /\ pc = "static" /\ calling /\ files' = Recorded(R)
        BY <1>10, <3>1, <3>3 DEF Fail
      <4>2. /\ files' \in [Kind -> [1 .. MaxInvocations -> SUBSET Record]]
            /\ \A i \in 1 .. MaxInvocations : files'["snapshot"][i] = files["snapshot"][i]
        BY <1>1, <3>1, <4>1, RecordedIs DEF Kind
      <4>3. /\ DOMAIN files["snapshot"] = 1 .. MaxInvocations
            /\ DOMAIN files'["snapshot"] = 1 .. MaxInvocations
        BY <1>1, <4>2 DEF TypeOK, Kind
      <4> QED  BY <4>2, <4>3 DEF Taken
    <3> QED  BY <3>2, <3>3
  <2>4. index \notin Taken
    BY <1>4, <2>1 DEF Pending, Kind
  <2> QED  BY <1>2, <1>3, <2>1, <2>2, <2>3, <2>4 DEF LineInv
<1>11. CASE Kill
  <2>1. /\ pc' = "idle" /\ ~calling' /\ Taken' = Taken /\ verdicts' = verdicts
        /\ index \in aborted'
    BY <1>11 DEF Kill, Taken
  <2>2. FailedBy(index)'
    <3>1. index' = index
      BY <1>11 DEF Kill
    <3> QED  BY <1>1, <2>1, <3>1 DEF FailedBy
  <2>3. \A i : FailedBy(i)' <=> \E a \in aborted' : a <= i
    BY DEF FailedBy
  <2>4. \A i \in Taken : HasLine(i) => Line(i) \in verdicts \/ \E a \in aborted' : a <= i
    <3> SUFFICES ASSUME NEW i \in Taken, HasLine(i)
                 PROVE  Line(i) \in verdicts \/ \E a \in aborted' : a <= i
      OBVIOUS
    <3>1. CASE i = index
      BY <1>1, <2>1, <3>1
    <3>2. CASE i # index
      BY <1>1, <1>2, <3>2 DEF FailedBy
    <3> QED  BY <3>1, <3>2
  <2> QED  BY <1>2, <1>3, <2>1, <2>3, <2>4 DEF LineInv
<1> QED
  BY <1>5, <1>6, <1>7, <1>8, <1>9, <1>10, <1>11 DEF Next, Step

(* CallInv holds in every state of every behaviour.                          *)
THEOREM AlwaysCallInv == Spec => []CallInv
<1>1. IInv /\ CallInv /\ [Next]_vars => CallInv'
  BY DurationStep, CarefulStep, DocumentedStep, LineStep DEF CallInv
<1> QED  BY <1>1, InitCallInv, AlwaysIInv, PTL DEF Spec

-----------------------------------------------------------------------------
(* The results. *)

(* Every variable keeps its type; the index that is computed from the files  *)
(* never overtakes the invocations.                                          *)
THEOREM TypeCorrect == Spec => []TypeOK
<1>1. IInv => TypeOK
  BY DEF IInv
<1> QED  BY <1>1, AlwaysIInv, PTL

(* A recorded reading is fresh unless a call had failed or was killed by      *)
(* then; otherwise it is no more invocations old than calls failed or were    *)
(* killed, and one more after a kill.                                         *)
THEOREM Staleness == Spec => []StalenessBounded
<1>1. IInv => StalenessBounded
  BY DEF IInv, FileInv, StalenessBounded, Oldest
<1> QED  BY <1>1, AlwaysIInv, PTL

(* No snapshot is ever mixed into another, and a static or dynamic file is    *)
(* extended only if an invocation with its index was aborted.                 *)
THEOREM FreshIndices == Spec => []IndexFresh
<1>1. IInv => IndexFresh
  BY DEF IInv
<1> QED  BY <1>1, AlwaysIInv, PTL

(* Unless the script is killed every call measures for the duration of its    *)
(* kind, whatever calls fail and whichever modes are used; and a file has the *)
(* readings of a call of another kind only where a call had failed or was     *)
(* killed by then.                                                            *)
THEOREM ReadingsAsNamed == Spec => []MeasuredAsNamed
<1>1. CallInv /\ IInv => MeasuredAsNamed
  BY DEF CallInv, DurationInv, IInv, FileInv, MeasuredAsNamed
<1> QED  BY <1>1, AlwaysIInv, AlwaysCallInv, PTL

(* A line is written for snapshots only and compares at every                 *)
(* compareFrequency-th index, also after failed calls and kills; and each     *)
(* snapshot has its line unless a call had failed or was killed by then.      *)
THEOREM SnapshotsReported == Spec => []Reported
<1>1. CallInv /\ IInv => Reported
  <2> SUFFICES ASSUME CallInv, IInv, pc = "idle"
               PROVE  /\ \A v \in verdicts : /\ v = Line(v.index) /\ HasLine(v.index)
                                             /\ files["snapshot"][v.index] # {}
                      /\ \A i \in 1 .. MaxInvocations :
                           files["snapshot"][i] # {} /\ HasLine(i) =>
                             Line(i) \in verdicts \/ FailedBy(i)
    BY DEF Reported
  <2>1. DOMAIN files["snapshot"] = 1 .. MaxInvocations
    BY DEF IInv, TypeOK, Kind
  <2>2. \A v \in verdicts : v = Line(v.index) /\ HasLine(v.index) /\ v.index \in Taken
    BY DEF CallInv, LineInv
  <2>3. \A i \in Taken : HasLine(i) => Line(i) \in verdicts \/ FailedBy(i)
    BY DEF CallInv, LineInv
  <2> QED  BY <2>1, <2>2, <2>3 DEF Taken
<1> QED  BY <1>1, AlwaysIInv, AlwaysCallInv, PTL

(* Unless the script is killed a call that waits without end is one in mode 3 *)
(* of the documented modes: the first dynamic one, or one after a failure.    *)
THEOREM OnlyDocumentedHangs == Spec => []HangsAsDocumented
<1>1. CallInv /\ IInv => HangsAsDocumented
  <2> SUFFICES ASSUME CallInv, IInv, Hung, kills = 0
               PROVE  /\ config.operator = "documented" /\ mode = 3
                      /\ \/ /\ pc = "dynamic"
                            /\ \A i \in 1 .. MaxInvocations : files["dynamic"][i] = {}
                         \/ failures > 0
    BY DEF HangsAsDocumented
  <2>1. pc \in Kind /\ callMode = 3 /\ scripts[pc] = NoScripts
    BY DEF CallInv, DurationInv, Hung, IInv, TypeOK
  <2>2. mode = 3 /\ pc \in {"dynamic", "snapshot"} /\ Pending
    BY <2>1 DEF callMode, Kind, Pending
  <2>3. config.operator = "documented"
    <3>1. config.operator \in {"documented", "careful"}
      BY ConfigAssumption DEF IInv, TypeOK
    <3> QED  BY <2>1, <2>2, <3>1 DEF CallInv, CarefulInv
  <2>4. ASSUME ~(failures > 0)
        PROVE  pc = "dynamic" /\ \A i \in 1 .. MaxInvocations : files["dynamic"][i] = {}
    <3>1. failures = 0
      BY <2>4, BoundAssumption DEF IInv, TypeOK
    <3> QED  BY <2>1, <2>2, <2>3, <3>1 DEF CallInv, DocumentedInv
  <2> QED  BY <2>2, <2>3, <2>4
<1> QED  BY <1>1, AlwaysIInv, AlwaysCallInv, PTL

=============================================================================
