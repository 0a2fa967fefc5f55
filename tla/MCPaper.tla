------------------------------- MODULE MCPaper -------------------------------
(* Two opportunities, shares that come in twos, two bad writes or crashes. *)
EXTENDS Paper

CONSTANTS o1, o2

MCLegCosts == {1, 3}
MCProceeds == {0, 2}
=============================================================================
