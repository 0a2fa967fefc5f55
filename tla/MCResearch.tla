----------------------------- MODULE MCResearch -----------------------------
(* A frontier of two rows, three pages, and delays of one, so that a page  *)
(* is tried again after a failure, and after a check that succeeded.       *)
EXTENDS Research

CONSTANTS p1, p2, p3

Minutes == <<1, 1>>
AnswerLists == {<<p1>>, <<p2, p3>>}
=============================================================================
