---------------------------- MODULE MonitorRound ----------------------------
(***************************************************************************)
(* One call of runMonitor (src/measure.py) after another, with the machine *)
(* the calls drive: on every node the bwtesting service (test_service.sh), *)
(* the one-shot iperf3 servers it starts, the clients run-all-client.py    *)
(* starts, and cleanup.sh.                                                 *)
(*                                                                         *)
(* runMonitor waits for the scp that places a client script, and for       *)
(* nothing else: the scp of start.txt, the scp of status.txt, the rm of    *)
(* the local copy and the ssh that runs cleanup.sh are spawned and         *)
(* forgotten.  They are elements of net and land in any order.  The code   *)
(* counts on time.sleep and on its own slowness instead; Prompt names      *)
(* which of these bets are assumed to be won.                              *)
(*                                                                         *)
(* Left out: which key and user name ssh is given, the random memory load, *)
(* the values of a reading, the scp of a script that is retried until it   *)
(* succeeds (it is one step), and all timing statistics.                   *)
(***************************************************************************)
EXTENDS Integers, Sequences, FiniteSets, Functions, Folds

CONSTANTS
    AllIPs,       \* the nodes in the order of all_IPs, a sequence
    Layouts,      \* possible values of ip_To_Region
    Selections,   \* the sequences of nodes a caller may pass as all_IPs
    Kinds,        \* the measurements a caller asks for
    Modes,        \* the values of cleanupMode a caller passes
    Heeded,       \* what callers see to, though runMonitor checks none of it
    MaxCalls,     \* bound: number of calls of runMonitor
    NumPorts,     \* iperf3 servers test_service.sh starts (7 in the script)
    Prompt,       \* which unawaited commands finish in the time left to them
    Faults        \* {"bad"}: a collected status file may fail to parse

Kind == {"static", "snapshot", "dynamic"}
Node == Range(AllIPs)
None == "none"

ASSUME NodesAssumption == AllIPs \in Seq(Node) /\ Cardinality(Node) = Len(AllIPs)
ASSUME NumPortsAssumption == NumPorts \in Nat \ {0}
ASSUME MaxCallsAssumption == MaxCalls \in Nat
ASSUME LayoutAssumption == \A l \in Layouts : l \in [Node -> Range(l)]
ASSUME SelectionAssumption ==
    \A s \in Selections : s \in Seq(Node) /\ Cardinality(Range(s)) = Len(s)
ASSUME EnvironmentAssumption ==
    /\ Kinds \subseteq Kind
    /\ Modes \subseteq {1, 2, 3}
    /\ Heeded \subseteq {"sent", "cleared"}
    /\ Prompt \subseteq {"cleanup", "start", "sleep"}
    /\ Faults \subseteq {"bad"}

VARIABLES
    regionOf,       \* ip_To_Region
    pc,             \* where the current call stands, "idle" between calls
    call,           \* the arguments isDynamic/runDurationEle, cleanupMode, all_IPs
    calls,          \* calls begun so far
    cur,            \* index of ip, the outer loop variable
    todo,           \* the pairs <<index of ip, index of ip2>> not visited yet
    countPortIncrs, globalCountPortIncrs,
    all_send_ips, ip_filtered_stats,
    statusProcessed, resultList,
    output,         \* output[c]: the readings in the json file of call c
    ret,            \* ret[c]: what call c returned, None or -1 as "error"
    scripts,        \* scripts[n][k]: the files in the run-scripts directory of k
    startFile,      \* start.txt on a node: the measurement it asks for, or None
    service,        \* where test_service.sh stands
    servers,        \* ports with an iperf3 server that has not served a client
    clients,        \* scripts that run-all-client.py started and that still run
    status,         \* status.txt on a node
    net,            \* spawned commands that have not landed
    local           \* the copies of status.txt in datasetPath

controller == <<pc, call, calls, cur, todo, countPortIncrs, globalCountPortIncrs,
                all_send_ips, ip_filtered_stats, statusProcessed, resultList,
                output, ret>>
node == <<scripts, startFile, service, servers, clients, status>>
vars == <<regionOf, controller, node, net, local>>

-----------------------------------------------------------------------------
(* The plan of a call.                                                      *)

\* The pairs the two loops act on: the maps of used pairs and of used regions
\* are never filled, so only the node itself and its region's nodes drop out.
Eligible(sel) ==
    {p \in (DOMAIN sel) \X (DOMAIN sel) : regionOf[sel[p[1]]] # regionOf[sel[p[2]]]}

Factorial[n \in Nat] == IF n = 0 THEN 1 ELSE n * Factorial[n - 1]

RegionSize(r) == Cardinality({n \in DOMAIN regionOf : regionOf[n] = r})

\* The pairs the caller's nodes do not form, as the code counts them.
sumOfDuplicates(sel) ==
    MapThenFoldSet(LAMBDA x, y : x + y, Len(sel),
                   LAMBDA r : Factorial[RegionSize(r)],
                   LAMBDA S : CHOOSE r \in S : TRUE,
                   {r \in Range(regionOf) : RegionSize(r) > 1})

\* A mutant of GateOpens: an off-by-one in the count.
GateOpensEarly(c, placed) ==
    c.kind = "static" \/ placed = Len(c.sel) * Len(c.sel) - sumOfDuplicates(c.sel) - 1

\* Whether start.txt goes out after this pair (modes 1 and 2).
GateOpens(c, placed) ==
    c.kind = "static" \/ placed = Len(c.sel) * Len(c.sel) - sumOfDuplicates(c.sel)

Script(name, server, port) == [name |-> name, server |-> server, port |-> port]

\* The readings a call has to produce: the client at the second node of every
\* pair measures against the server at the first.
Expected(c, number) ==
    {[src |-> c.sel[p[2]], dest |-> c.sel[p[1]], call |-> number] : p \in Eligible(c.sel)}

\* The monitoring files of the measurement are on the nodes, for exactly this
\* selection.
Transferred(c) ==
    /\ \A p \in Eligible(c.sel) :
          \E s \in scripts[c.sel[p[2]]][c.kind] : s.server = c.sel[p[1]]
    /\ \A n \in Node : \A s \in scripts[n][c.kind] :
          \E p \in Eligible(c.sel) : n = c.sel[p[2]] /\ s.server = c.sel[p[1]]

\* How many pairs the loops reach up to p, and how many of the pairs with the same
\* first node before p.
Number(sel, p) ==
    Cardinality({q \in Eligible(sel) : q[1] < p[1] \/ (q[1] = p[1] /\ q[2] <= p[2])})
Offset(sel, p) == Cardinality({q \in Eligible(sel) : q[1] = p[1] /\ q[2] < p[2]})

\* The scripts that a call with the nodes sel places on node n.
Plan(sel, n) == {Script(Number(sel, p), sel[p[1]], Offset(sel, p)) :
                   p \in {q \in Eligible(sel) : sel[q[2]] = n}}

\* The calls that are made.  main.py launches one instance per region; only
\* livePredictor.py knows several nodes in a region, and it passes all nodes.  Both
\* measure static bandwidths in mode 1.  The rest runMonitor takes on trust:
\* "sent", that mode 3 is for nodes that have the files of this selection
\* (main.py's mode 3 draws other data centers, see DatasetLoop), and "cleared", that
\* modes 1 and 2 find no files but their own (a late or partial cleanup leaves
\* those of another selection).
CallAllowed(c) ==
    /\ c.sel = AllIPs \/ Cardinality(Range(regionOf)) = Cardinality(Node)
    /\ c.kind = "static" => c.mode = 1
    /\ c.mode = 3 /\ "sent" \in Heeded => Transferred(c)
    /\ c.mode # 3 /\ "cleared" \in Heeded =>
          \A n \in Node : scripts[n][c.kind] \subseteq Plan(c.sel, n)

-----------------------------------------------------------------------------
Command(op, to, arg) == [op |-> op, to |-> to, arg |-> arg, call |-> calls]
Pending(op) == {m \in net : m.op = op}

Init ==
    /\ regionOf \in Layouts
    /\ pc = "idle" /\ calls = 0 /\ ret = [c \in 1 .. MaxCalls |-> None]
    /\ call = [kind |-> "static", mode |-> 1, sel |-> AllIPs]
    /\ cur = 0 /\ todo = {}
    /\ countPortIncrs = 0 /\ globalCountPortIncrs = 0
    /\ all_send_ips = {} /\ ip_filtered_stats = << >>
    /\ statusProcessed = 0 /\ resultList = << >>
    /\ output = [c \in 1 .. MaxCalls |-> << >>]
    /\ scripts = [n \in Node |-> [k \in Kind |-> {}]]
    /\ startFile = [n \in Node |-> None]
    /\ service = [n \in Node |-> "waiting"]
    /\ servers = [n \in Node |-> {}]
    /\ clients = [n \in Node |-> {}]
    /\ status = [n \in Node |-> << >>]
    /\ net = {}
    /\ local = [n \in Node |-> << >>]

(* The controller. *)

\* A caller calls runMonitor.  With "cleanup" in Prompt the commands of the
\* call before have landed by then.
Call ==
    /\ pc = "idle" /\ calls < MaxCalls
    /\ "cleanup" \in Prompt => net = {}
    /\ \E c \in [kind : Kinds, mode : Modes, sel : Selections] :
          /\ CallAllowed(c)
          /\ call' = c
          /\ todo' = Eligible(c.sel)
    /\ calls' = calls + 1
    /\ pc' = "pairs"
    /\ cur' = 0
    /\ globalCountPortIncrs' = 0
    /\ all_send_ips' = {}
    /\ ip_filtered_stats' = << >>
    /\ UNCHANGED <<regionOf, countPortIncrs, statusProcessed, resultList, output,
                   ret, node, net, local>>

Here == {p \in todo : p[1] = cur}

\* The outer loop moves to the next ip.
NextServer ==
    /\ pc = "pairs" /\ Here = {} /\ cur < Len(call.sel)
    /\ cur' = cur + 1
    /\ countPortIncrs' = 0
    /\ all_send_ips' = all_send_ips \union {call.sel[cur + 1]}
    /\ UNCHANGED <<regionOf, pc, call, calls, todo, globalCountPortIncrs,
                   ip_filtered_stats, statusProcessed, resultList, output, ret,
                   node, net, local>>

\* A mutant of PortAfter: the counter stays.
PortAfterSame(port) == port

\* countPortIncrs after a script was placed.
PortAfter(port) == port + 1

\* The inner loop reaches a pair in mode 1 or 2: its client script is copied to
\* ip2, over a file of the same name.  With "cleanup" in Prompt the cleanup of
\* the pair before has landed.
PlaceScript ==
    /\ pc = "pairs" /\ call.mode # 3
    /\ "cleanup" \in Prompt => net = {}
    /\ \E p \in Here :
          LET ip == call.sel[p[1]]
              ip2 == call.sel[p[2]]
              name == globalCountPortIncrs + 1
          IN
          /\ \A q \in Here : p[2] <= q[2]
          /\ todo' = todo \ {p}
          /\ scripts' = [scripts EXCEPT ![ip2][call.kind] =
                            {s \in @ : s.name # name}
                            \union {Script(name, ip, countPortIncrs)}]
          /\ globalCountPortIncrs' = name
          /\ countPortIncrs' = PortAfter(countPortIncrs)
          /\ IF call.kind = "static"
             THEN all_send_ips' = {ip, ip2} /\ ip_filtered_stats' = <<ip2>>
             ELSE /\ all_send_ips' = all_send_ips \union {ip2}
                  /\ ip_filtered_stats' = IF ip2 \in Range(ip_filtered_stats)
                                          THEN ip_filtered_stats
                                          ELSE Append(ip_filtered_stats, ip2)
          /\ pc' = IF GateOpens(call, name) THEN "send" ELSE "pairs"
    /\ UNCHANGED <<regionOf, call, calls, cur, statusProcessed, resultList, output,
                   ret, startFile, service, servers, clients, status, net, local>>

\* A mutant of ForceStart: only the nodes visited so far are started.
ForceStartSome ==
    /\ pc = "pairs" /\ call.mode = 3 /\ Here # {}
    /\ ip_filtered_stats' = call.sel
    /\ pc' = "send"
    /\ UNCHANGED <<regionOf, call, calls, cur, todo, countPortIncrs,
                   globalCountPortIncrs, all_send_ips, statusProcessed, resultList,
                   output, ret, node, net, local>>

\* The inner loop reaches its first pair in mode 3: nothing is copied, all
\* nodes are started.
ForceStart ==
    /\ pc = "pairs" /\ call.mode = 3 /\ Here # {}
    /\ all_send_ips' = Range(call.sel)
    /\ ip_filtered_stats' = call.sel
    /\ pc' = "send"
    /\ UNCHANGED <<regionOf, call, calls, cur, todo, countPortIncrs,
                   globalCountPortIncrs, statusProcessed, resultList, output, ret,
                   node, net, local>>

\* start.txt is sent to the nodes; nobody waits for it.
SendStart ==
    /\ pc = "send"
    /\ net' = net \union {Command("start", n, call.kind) : n \in all_send_ips}
    /\ pc' = "sleep"
    /\ UNCHANGED <<regionOf, call, calls, cur, todo, countPortIncrs,
                   globalCountPortIncrs, all_send_ips, ip_filtered_stats,
                   statusProcessed, resultList, output, ret, node, local>>

\* Every started node is through with its clients.
Measured == /\ Pending("start") = {}
            /\ \A n \in all_send_ips : service[n] = "done" /\ clients[n] = {}

\* time.sleep(sleepTime) is over, with "sleep" in Prompt not before the
\* measurement; the copies of status.txt are requested, one per node.
EndSleep ==
    /\ pc = "sleep"
    /\ "sleep" \in Prompt => Measured
    /\ net' = net \union {Command("fetch", n, None) : n \in Range(ip_filtered_stats)}
    /\ statusProcessed' = 0
    /\ resultList' = << >>
    /\ pc' = "collect"
    /\ UNCHANGED <<regionOf, call, calls, cur, todo, countPortIncrs,
                   globalCountPortIncrs, all_send_ips, ip_filtered_stats, output,
                   ret, node, local>>

Awaited == ip_filtered_stats[statusProcessed + 1]

\* The while loop finds the next node's file, not empty, and reads it; the rm
\* of the file is spawned.  (The loop polls without end until it finds one.)
ReadStatus ==
    /\ pc = "collect" /\ statusProcessed < Len(ip_filtered_stats)
    /\ local[Awaited] # << >>
    /\ resultList' = resultList \o local[Awaited]
    /\ net' = net \union {Command("rm", Awaited, None)}
    /\ statusProcessed' = statusProcessed + 1
    /\ UNCHANGED <<regionOf, pc, call, calls, cur, todo, countPortIncrs,
                   globalCountPortIncrs, all_send_ips, ip_filtered_stats, output,
                   ret, node, local>>

\* A mutant of ErrorCleanups: only the directory of this measurement.
OwnCleanups == {Command("cleanup", n, call.kind) : n \in all_send_ips}

\* The cleanups of the except branch: all three directories.
ErrorCleanups == {Command("cleanup", n, k) : n \in all_send_ips, k \in Kind}

\* A line of the file does not parse: the except branch spawns the three
\* cleanups on the nodes and the call returns -1.  No local file is removed.
ParseError ==
    /\ "bad" \in Faults
    /\ pc = "collect" /\ statusProcessed < Len(ip_filtered_stats)
    /\ local[Awaited] # << >>
    /\ net' = net \union ErrorCleanups
    /\ ret' = [ret EXCEPT ![calls] = "error"]
    /\ pc' = "idle"
    /\ UNCHANGED <<regionOf, call, calls, cur, todo, countPortIncrs,
                   globalCountPortIncrs, all_send_ips, ip_filtered_stats,
                   statusProcessed, resultList, output, node, local>>

\* The directory that the cleanup of the nodes empties: that of the
\* measurement in mode 1, the one for static measurements otherwise.
cleanupArg == IF call.mode = 1 THEN call.kind ELSE "static"

\* All files are read: the readings are written or appended to the call's json
\* file and the cleanups are spawned.  Then the loops go on, or end in mode 3.
WriteOutput ==
    /\ pc = "collect" /\ statusProcessed = Len(ip_filtered_stats)
    /\ output' = [output EXCEPT ![calls] = @ \o resultList]
    /\ net' = net \union {Command("cleanup", n, cleanupArg) : n \in all_send_ips}
    /\ pc' = IF call.mode = 3 THEN "idle" ELSE "pairs"
    /\ UNCHANGED <<regionOf, call, calls, cur, todo, countPortIncrs,
                   globalCountPortIncrs, all_send_ips, ip_filtered_stats,
                   statusProcessed, resultList, ret, node, local>>

\* The loops are over and the call returns None.
Return ==
    /\ pc = "pairs" /\ Here = {} /\ cur = Len(call.sel)
    /\ pc' = "idle"
    /\ UNCHANGED <<regionOf, call, calls, cur, todo, countPortIncrs,
                   globalCountPortIncrs, all_send_ips, ip_filtered_stats,
                   statusProcessed, resultList, output, ret, node, net, local>>

-----------------------------------------------------------------------------
(* The spawned commands land. *)

StartLands ==
    /\ \E m \in Pending("start") :
          /\ startFile' = [startFile EXCEPT ![m.to] = m.arg]
          /\ net' = net \ {m}
    /\ UNCHANGED <<regionOf, controller, scripts, service, servers, clients, status, local>>

\* scp copies status.txt, or fails where there is none.
FetchLands ==
    /\ \E m \in Pending("fetch") :
          /\ local' = [local EXCEPT ![m.to] = IF status[m.to] = << >> THEN @ ELSE status[m.to]]
          /\ net' = net \ {m}
    /\ UNCHANGED <<regionOf, controller, node>>

RmLands ==
    /\ \E m \in Pending("rm") :
          /\ local' = [local EXCEPT ![m.to] = << >>]
          /\ net' = net \ {m}
    /\ UNCHANGED <<regionOf, controller, node>>

\* A mutant of CleanedStatus: cleanup.sh leaves status.txt.
CleanedStatusKept(old) == old

\* status.txt after cleanup.sh.
CleanedStatus(old) == << >>

\* A mutant of Restarted: the service is not started again.
RestartedNot(s) == s

\* The service after systemctl restart.
Restarted(s) == "waiting"

\* cleanup.sh: empty a directory, remove status.txt, restart the service, which
\* takes its servers and clients down with it.  start.txt is not touched.
CleanupLands ==
    /\ \E m \in Pending("cleanup") :
          /\ scripts' = [scripts EXCEPT ![m.to][m.arg] = {}]
          /\ status' = [status EXCEPT ![m.to] = CleanedStatus(@)]
          /\ service' = [service EXCEPT ![m.to] = Restarted(@)]
          /\ servers' = [servers EXCEPT ![m.to] = {}]
          /\ clients' = [clients EXCEPT ![m.to] = {}]
          /\ net' = net \ {m}
    /\ UNCHANGED <<regionOf, controller, startFile, local>>

(* The nodes. *)

\* test_service.sh finds start.txt and starts the one-shot servers.
Serve(n) ==
    /\ service[n] = "waiting" /\ startFile[n] # None
    /\ service' = [service EXCEPT ![n] = "serving"]
    /\ servers' = [servers EXCEPT ![n] = 0 .. NumPorts - 1]
    /\ UNCHANGED <<regionOf, controller, scripts, startFile, clients, status, net, local>>

\* Three seconds later it reads and removes start.txt and starts every client
\* script of the directory the file names, then ends.  With "start" in Prompt
\* every node has its servers by then.
StartClients(n) ==
    /\ service[n] = "serving"
    /\ "start" \in Prompt =>
          /\ Pending("start") = {}
          /\ \A o \in Node : startFile[o] # None => service[o] = "serving"
    /\ clients' = [clients EXCEPT ![n] = scripts[n][startFile[n]]]
    /\ startFile' = [startFile EXCEPT ![n] = None]
    /\ service' = [service EXCEPT ![n] = "done"]
    /\ UNCHANGED <<regionOf, controller, scripts, servers, status, net, local>>

\* A client measures against its server and appends a line to status.txt, or
\* finds no server on the port and ends with nothing written.
RunClient(n) ==
    /\ \E s \in clients[n] :
          /\ clients' = [clients EXCEPT ![n] = @ \ {s}]
          /\ IF s.port \in servers[s.server]
             THEN /\ servers' = [servers EXCEPT ![s.server] = @ \ {s.port}]
                  /\ status' = [status EXCEPT ![n] =
                        Append(@, [src |-> n, dest |-> s.server, call |-> calls])]
             ELSE UNCHANGED <<servers, status>>
    /\ UNCHANGED <<regionOf, controller, scripts, startFile, service, net, local>>

-----------------------------------------------------------------------------
Controller == \/ NextServer \/ PlaceScript \/ ForceStart \/ SendStart \/ EndSleep
              \/ ReadStatus \/ WriteOutput \/ Return
Landing == StartLands \/ FetchLands \/ RmLands \/ CleanupLands
NodeStep(n) == Serve(n) \/ StartClients(n) \/ RunClient(n)

\* All calls are made and nothing is under way.
Finished ==
    /\ pc = "idle" /\ calls = MaxCalls /\ net = {}
    /\ \A n \in Node : service[n] # "serving" /\ startFile[n] = None /\ clients[n] = {}
    /\ UNCHANGED vars

Next == \/ Call \/ Controller \/ ParseError \/ Landing
        \/ \E n \in Node : NodeStep(n)
        \/ Finished

Spec == Init /\ [][Next]_vars

\* The controller's process goes on while it can, spawned commands land, and
\* the nodes run: no fairness of the caller.
Fairness == /\ WF_vars(Controller)
            /\ WF_vars(StartLands) /\ WF_vars(FetchLands)
            /\ WF_vars(RmLands) /\ WF_vars(CleanupLands)
            /\ \A n \in Node : WF_vars(NodeStep(n))

FairSpec == Spec /\ Fairness

-----------------------------------------------------------------------------
(* Properties. *)

Reading == [src : Node, dest : Node, call : 1 .. MaxCalls]
ScriptType == [name : Nat, server : Node, port : Nat]

\* Every variable has its type: in particular status files hold readings of the
\* nodes only, and the loops never leave the caller's selection.
TypeOK ==
    /\ regionOf \in Layouts
    /\ pc \in {"idle", "pairs", "send", "sleep", "collect"}
    /\ call \in [kind : Kind, mode : {1, 2, 3}, sel : Selections \union {AllIPs}]
    /\ calls \in 0 .. MaxCalls
    /\ cur \in 0 .. Len(call.sel)
    /\ todo \subseteq Eligible(call.sel)
    /\ countPortIncrs \in Nat /\ globalCountPortIncrs \in Nat
    /\ all_send_ips \subseteq Node
    /\ Range(ip_filtered_stats) \subseteq all_send_ips
    /\ statusProcessed \in 0 .. Len(AllIPs)
    /\ Range(resultList) \subseteq Reading
    /\ DOMAIN output = 1 .. MaxCalls
    /\ \A c \in 1 .. MaxCalls : Range(output[c]) \subseteq Reading
    /\ ret \in [1 .. MaxCalls -> {None, "error"}]
    /\ scripts \in [Node -> [Kind -> SUBSET ScriptType]]
    /\ startFile \in [Node -> Kind \union {None}]
    /\ service \in [Node -> {"waiting", "serving", "done"}]
    /\ servers \in [Node -> SUBSET (0 .. NumPorts - 1)]
    /\ clients \in [Node -> SUBSET ScriptType]
    /\ \A n \in Node : Range(status[n]) \union Range(local[n]) \subseteq Reading
    /\ \A m \in net : m.op \in {"start", "fetch", "rm", "cleanup"} /\ m.to \in Node

\* No two client scripts that start together connect to the same server and
\* port: a server started with -1 serves one client, the other would write no
\* reading.  This takes a caller who heeds "cleared": the names and ports of two
\* selections' scripts are counted without regard to each other.
OneClientPerServer ==
    \A k \in Kind, n1, n2 \in Node : \A s1 \in scripts[n1][k], s2 \in scripts[n2][k] :
        s1.server = s2.server /\ s1.port = s2.port => n1 = n2 /\ s1 = s2

\* When start.txt goes out for a snapshot or dynamic measurement in mode 1 or 2,
\* the scripts of all pairs are in place: no pair is measured while others still
\* wait for their script, and none is left out.  (In mode 3 that is the caller's
\* concern.)
StartsComplete ==
    pc = "sleep" /\ call.kind # "static" /\ call.mode # 3 => Transferred(call)

\* As long as no call has failed, what a call recorded in its json file is one
\* reading per pair of nodes in different regions, each measured during that
\* call: none is missing, none recorded twice, none left from an earlier call.
RecordsRound ==
    pc = "idle" /\ calls > 0 /\ (\A c \in 1 .. calls : ret[c] = None) =>
        /\ Range(output[calls]) = Expected(call, calls)
        /\ Len(output[calls]) = Cardinality(Expected(call, calls))

(* The calls as their callers see them: a cleanup on its way counts as done.  *)

\* The directories of a node that a cleanup on its way will empty.
Cleaning(n) == {m.arg : m \in {x \in Pending("cleanup") : x.to = n}}

\* A node that waits for a start.txt, with nothing left behind.
Clean(n) == /\ status[n] = << >> /\ startFile[n] = None /\ service[n] = "waiting"
            /\ clients[n] = {} /\ \A m \in Pending("start") : m.to # n

\* The pairs of the call, the servers a node has scripts for, the nodes that wait
\* or will when they are cleaned, what the call has written, and the failed calls.
Pairs == {<<call.sel[p[1]], call.sel[p[2]]>> : p \in Eligible(call.sel)}
Sent == [k \in Kind |-> [n \in Node |-> IF k \in Cleaning(n) THEN {}
                                        ELSE {s.server : s \in scripts[n][k]}]]
Ready == {n \in Node : Cleaning(n) # {} \/ Clean(n)}
Recorded == IF calls = 0 THEN {}
            ELSE {<<r.dest, r.src, r.call>> : r \in Range(output[calls])}
Failed == {c \in 1 .. MaxCalls : ret[c] = "error"}

Calls == INSTANCE MeasurementCalls WITH
    running <- pc # "idle",
    call <- [kind |-> call.kind, mode |-> call.mode, pairs |-> Pairs],
    number <- calls, scripts <- Sent, ready <- Ready, recorded <- Recorded,
    failed <- Failed

\* The calls are what their callers count on, with every command that is spawned
\* and not awaited: no step of the nodes or of a late command shows, a failed call
\* leaves the nodes without scripts, status.txt or clients and their services
\* waiting, and mode 3 finds the scripts that mode 2 left.
CallsSpec == Calls!Spec

\* Every call returns: the loop that polls for the status files finds them all.
Returns == pc # "idle" ~> pc = "idle"
=============================================================================
