-------------------------- MODULE MeasurementCalls --------------------------
(***************************************************************************)
(* What the callers of runMonitor (src/main.py and livePredictor.py) count *)
(* on: which client scripts a call leaves on the nodes in each mode, that  *)
(* the nodes are ready for the next call, and that a call that returns     *)
(* without an error has recorded every pair.  Commands that are spawned    *)
(* and not awaited do not occur: what they do is done at once.             *)
(***************************************************************************)
EXTENDS Integers

CONSTANTS Node, Kind

VARIABLES
    running,   \* a call is under way
    call,      \* its arguments; pairs are <<server, client>>
    number,    \* how many calls there were
    scripts,   \* scripts[k][n]: the servers for which node n has scripts
    ready,     \* the nodes that wait for a start.txt with nothing left behind
    recorded,  \* what the call has written, <<server, client, call measured>>
    failed     \* the calls that returned -1

vars == <<running, call, number, scripts, ready, recorded, failed>>

Calls == [kind : Kind, mode : {1, 2, 3}, pairs : SUBSET (Node \X Node)]

Nodes(P) == {p[1] : p \in P} \union {p[2] : p \in P}
Emptied(K, N) ==
    [k \in Kind |-> [n \in Node |-> IF k \in K /\ n \in N THEN {} ELSE scripts[k][n]]]
HasScript(p) == p[1] \in scripts[call.kind][p[2]]

\* The pairs that are measured together: one of a static call, all of another.
Rounds == IF call.kind = "static" THEN {{p} : p \in call.pairs} ELSE {call.pairs} \ {{}}

Done == {<<t[1], t[2]>> : t \in recorded}

Init ==
    /\ running = FALSE /\ call \in Calls /\ number = 0
    /\ scripts = [k \in Kind |-> [n \in Node |-> {}]]
    /\ ready = Node
    /\ recorded = {} /\ failed = {}

\* Mode 3 is for scripts that are there.
Begin ==
    /\ ~running /\ ready = Node
    /\ running' = TRUE /\ number' = number + 1 /\ recorded' = {}
    /\ call' \in Calls
    /\ call'.mode = 3 => \A p \in call'.pairs : p[1] \in scripts[call'.kind][p[2]]
    /\ UNCHANGED <<scripts, ready, failed>>

Send ==
    /\ running /\ call.mode # 3
    /\ \E p \in call.pairs :
          scripts' = [scripts EXCEPT ![call.kind][p[2]] = @ \union {p[1]}]
    /\ UNCHANGED <<running, call, number, ready, recorded, failed>>

Start ==
    /\ running
    /\ ready' \subseteq ready /\ ready \ ready' \subseteq Nodes(call.pairs)
    /\ UNCHANGED <<running, call, number, scripts, recorded, failed>>

\* The pairs of a round have their scripts and are measured and recorded, each once.
\* After a failed call nothing is said of what is recorded: files of that call that
\* are left on the controller may be taken for files of this one.  Mode 1 takes away
\* its scripts, the others leave them.
Record ==
    /\ running
    /\ \E Q \in Rounds :
          /\ \A p \in Q : HasScript(p)
          /\ IF failed = {}
             THEN /\ Q \cap Done = {}
                  /\ recorded' = recorded \union {<<p[1], p[2], number>> : p \in Q}
             ELSE recorded \subseteq recorded'
          /\ scripts' = Emptied({IF call.mode = 1 THEN call.kind ELSE "static"}, Nodes(Q))
          /\ ready' = ready \union Nodes(Q)
    /\ running' \in BOOLEAN /\ (failed = {} /\ ~running' => Done' = call.pairs)
    /\ UNCHANGED <<call, number, failed>>

\* The nodes of a round lose the scripts of all kinds.
Fail ==
    /\ running /\ running' = FALSE
    /\ failed' = failed \union {number}
    /\ \E Q \in Rounds :
          /\ scripts' = Emptied(Kind, Nodes(Q))
          /\ ready' = ready \union Nodes(Q)
    /\ UNCHANGED <<call, number, recorded>>

Return ==
    /\ running /\ running' = FALSE
    /\ failed = {} => Done = call.pairs
    /\ UNCHANGED <<call, number, scripts, ready, recorded, failed>>

Next == Begin \/ Send \/ Start \/ Record \/ Fail \/ Return

Spec == Init /\ [][Next]_vars
=============================================================================
