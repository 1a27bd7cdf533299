------------------------------- MODULE BlockFetch ------------------------------
(***************************************************************************)
(* What ShuffleBlockFetcherIterator promises to the task that iterates     *)
(* over it: each non-empty block once, in any order; the iterator says it  *)
(* is exhausted only when every block has been handed out; and it may end  *)
(* at any time (a failed fetch, a killed task, a caller that stops early). *)
(***************************************************************************)
CONSTANT Blocks     \* the non-empty blocks to fetch

VARIABLES
  got,              \* blocks handed to the task
  status            \* "open", "exhausted" or "ended"

vars == <<got, status>>

Init == got = {} /\ status = "open"

StatusOf(S) == IF S = Blocks THEN "exhausted" ELSE "open"

Hand(b) ==
  /\ status = "open"
  /\ b \notin got
  /\ got' = got \cup {b}
  /\ status' = StatusOf(got')

(* There was nothing to fetch at all. *)
Nothing == status = "open" /\ got = Blocks /\ status' = "exhausted" /\ UNCHANGED got

End == status # "ended" /\ status' = "ended" /\ UNCHANGED got

Next == Nothing \/ End \/ \E b \in Blocks : Hand(b)

Spec == Init /\ [][Next]_vars
================================================================================
