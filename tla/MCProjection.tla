---------------------------- MODULE MCProjection ----------------------------
(* Small instances of Projection for TLC. *)
EXTENDS Projection, TLC

(* Every run links every node. *)
AllNodes == [r \in Run |-> Node]

(* Processes of one kind are interchangeable. *)
Symmetry == Permutations(Ingester) \cup Permutations(Rebuilder) \cup Permutations(Judge)
=============================================================================
