---------------------------- MODULE MCIngestion -----------------------------
(* Small instances of Ingestion for TLC. *)
EXTENDS Ingestion, TLC

(* Every extraction yields all the nodes, from one of the layouts, and the *)
(* layouts disagree about every chunk.                                     *)
FullPayloads == [nodes : {Node}, layout : Layout]
FullCuts == [l \in Layout |-> Chunk]

(* Everything is interchangeable but sources. *)
Symmetry == Permutations(Worker) \cup Permutations(RunId) \cup Permutations(Node)
                \cup Permutations(Extractor) \cup Permutations(Layout)
=============================================================================
