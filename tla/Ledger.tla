------------------------------- MODULE Ledger -------------------------------
(***************************************************************************)
(* What ingestion promises to everything that reads the canonical store:   *)
(* for every identity (source, extractor) one set of nodes is published,   *)
(* in one step, and it is never changed or withdrawn afterwards.           *)
(***************************************************************************)
CONSTANTS Identity,    \* (source_hash, extractor) pairs
          Node         \* knowledge nodes, by stable id

VARIABLE ledger        \* identity -> the extractions published for it

LedgerInit == ledger = [i \in Identity |-> {}]

(* The one step a reader can observe: a whole extraction appears. *)
Publish(i, nodes) ==
    /\ ledger[i] = {}
    /\ ledger' = [ledger EXCEPT ![i] = {nodes}]

(* A step that leaves the ledger alone is no step of it. *)
LedgerNext ==
    /\ ledger' # ledger
    /\ \E i \in Identity, nodes \in SUBSET Node : Publish(i, nodes)

LedgerSpec == LedgerInit /\ [][LedgerNext]_ledger
=============================================================================
