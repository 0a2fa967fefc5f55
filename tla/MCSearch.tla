------------------------------ MODULE MCSearch ------------------------------
(* Small instances of Search for TLC. *)
EXTENDS Search, TLC

VARIABLE cast   \* who takes part, which runs there are, how much may fail

(* Every run links every node. *)
AllNodes == [r \in Run |-> Node]

(* A search beside two ingestions; a search beside rebuilds, after an ingestion *)
(* that may have stopped half-way; two judges beside an ingestion.              *)
Casts ==
    {[who |-> Ingester \cup Searcher, runs |-> {1, 2}, first |-> {}, faults |-> 2],
     [who |-> Ingester \cup Rebuilder \cup Searcher, runs |-> {1}, first |-> {1}, faults |-> 1],
     [who |-> Ingester \cup Judge, runs |-> {1}, first |-> {}, faults |-> 1]}

Ingested(runs) == runs \subseteq committed /\ \A i \in Ingester : proc[i].pc = "idle"

Acts(p) == p \in cast.who /\ (p \in Ingester \/ cast.first = {} \/ Ingested(cast.first))

CastInit == SearchInit /\ cast \in Casts

(* The judgments are made and the run is ingested: a bound of the model. *)
Spent ==
    /\ cast.who \cap (Searcher \cup Rebuilder) = {} /\ ~JudgmentsLeft
    /\ Ingested(cast.runs) /\ \A j \in Judge : judge[j].pc = "idle"

CastStep ==
    \/ \E s \in cast.who \cap Searcher : Acts(s) /\ SearchStep(s) /\ UNCHANGED vars
    \/ /\ \/ \E i \in cast.who \cap Ingester : IngesterStep(i)
          \/ \E b \in cast.who \cap Rebuilder : Acts(b) /\ RebuilderStep(b)
          \/ \E p \in cast.who \cap Projector : Fault(p)
          \/ \E j \in cast.who \cap Judge : JudgeStep(j) \/ JudgeFault(j)
          \/ \E g \in Gen : Age(g)
       /\ meta'.building \in {meta.building, None} \cup (Gen \ Remembered)
       /\ UNCHANGED search

CastNext ==
    /\ CastStep \/ (Spent /\ UNCHANGED <<vars, search>>)
    /\ faults' <= cast.faults /\ committed' \subseteq cast.runs /\ UNCHANGED cast

CastSpec == CastInit /\ [][CastNext]_<<vars, search, cast>>

(* Processes of one kind are interchangeable. *)
Symmetry == Permutations(Judge)
=============================================================================
