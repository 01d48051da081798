------------------------------- MODULE MCEdge -------------------------------
(* Around 2, the scaled 40001: an address below it wraps to the end of the *)
(* space, and 0 is a sensor without one.                                   *)
EXTENDS Edge

S(a, w) == [register_addr |-> a, words |-> w, parses |-> TRUE]
NoNumber == [register_addr |-> 0, words |-> 1, parses |-> FALSE]

MCSensorLists ==
  {<<S(4, 1), S(2, 2)>>,                   \* one frame of the largest size
   <<S(2, 2), S(4, 2)>>,                   \* one register too many for a frame
   <<S(3, 2), S(4, 1)>>,                   \* a register within another sensor
   <<S(1, 1), S(2, 1)>>,                   \* a frame that wraps, and is never read
   <<S(2, 1), S(0, 1), S(3, 1), S(3, 1)>>, \* a merged frame, and its end again
   <<S(2, 1), NoNumber>>}                  \* nothing is loaded
=============================================================================
