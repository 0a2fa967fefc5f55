------------------------------ MODULE MCSkills ------------------------------
(* Two origins of one name, two promotions, two fixtures.  One origin has  *)
(* passed on one fixture.                                                  *)
EXTENDS Skills, TLC

CONSTANTS o1, o2, f1, f2, m1, m2

Passed(f, id) == [origin |-> o1, fixture |-> f, profile |-> "spa", passed |-> TRUE, id |-> id]
HalfPassed == <<Passed(f1, 1)>>

Symmetry == Permutations({m1, m2})
=============================================================================
