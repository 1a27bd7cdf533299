---------------------------- MODULE MCShuffleFetch -----------------------------
(* Small instances of ShuffleFetch. *)
EXTENDS ShuffleFetch

CONSTANTS a1, a2, loc, b0, b1, b2, b3, b4, b5

Block(id, size) == [id |-> id, size |-> size]

(* With MaxBytes = 10 a request is cut at 2 bytes: {b1, b2} and {b3} for   *)
(* a1, {b4} for a2.  b3 and b4 together exceed MaxBytes, b1, b2 and b3     *)
(* exceed MaxBlocks = 2; b1, b2 and b4 are small enough to be checked for  *)
(* corruption; b0 is empty.                                                *)
MCBlocks ==
  << <<a1, <<Block(b1, 1), Block(b0, 0), Block(b2, 1), Block(b3, 9)>> >>,
     <<a2, <<Block(b4, 2)>> >>,
     <<loc, <<Block(b5, 4)>> >> >>
(* The last block of a1 makes a request of its own. *)
MCOneAddress ==
  << <<a1, <<Block(b1, 1), Block(b2, 1), Block(b3, 1)>> >>,
     <<loc, <<Block(b5, 4)>> >> >>
(* Two requests of two blocks to a1. *)
MCPairs ==
  << <<a1, <<Block(b1, 1), Block(b2, 1), Block(b3, 1), Block(b4, 1)>> >>,
     <<loc, <<Block(b5, 4)>> >> >>
================================================================================
