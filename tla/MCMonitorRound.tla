--------------------------- MODULE MCMonitorRound ---------------------------
(* Three nodes, in three regions as main.py launches them, or two of them in *)
(* one region as livePredictor.py may be told.  main.py draws the nodes of a *)
(* sample in any order.                                                      *)
EXTENDS MonitorRound, TLC

CONSTANTS n1, n2, n3

MCAllIPs == <<n1, n2, n3>>
MCLayouts == {(n1 :> "r1" @@ n2 :> "r2" @@ n3 :> "r3"),
              (n1 :> "r1" @@ n2 :> "r1" @@ n3 :> "r2")}
MCSelections == {MCAllIPs, <<n2, n3>>, <<n3, n2>>}

MCTwoIPs == <<n1, n2>>
MCTwoRegions == {(n1 :> "r1" @@ n2 :> "r2")}
MCBothIPs == {MCTwoIPs}
=============================================================================
