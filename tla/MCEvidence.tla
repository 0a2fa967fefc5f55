----------------------------- MODULE MCEvidence -----------------------------
(* Small instances of Evidence for TLC. *)
EXTENDS Evidence, TLC

CONSTANTS s1, s2

(* A host probe, renewed soon, and a document. *)
HostAndDocument == (s1 :> "host") @@ (s2 :> "document")
OneHost == (s1 :> "host")
Windows == [host |-> 2, document |-> 3]
OneUnit == [a \in 1..(Attempts - 1) |-> 1]

Symmetry == Permutations(Worker)
=============================================================================
