--------------------------- MODULE MCPriorityQueue ---------------------------
(* PriorityQueue with four objects: enough for two removed objects above a  *)
(* live one, and for an object that is added again while still in the heap. *)
EXTENDS PriorityQueue

MCObjects == 1..4
=============================================================================
