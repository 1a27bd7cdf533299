----------------------------- MODULE MCPortControl -----------------------------
(* Small instances of PortControl. *)
EXTENDS PortControl, TLC

CONSTANTS t1, t2, h1, h2

MCSizes == {5000}
MCOneSize == {500}
MCDecisions == {4, 6}
MCStartNumbers == {-2, 0}
MCBlockIndexes == {0, 9}

Symmetric == Permutations(Tasks) \cup Permutations(Hosts)
================================================================================
