------------------------------- MODULE Search -------------------------------
(***************************************************************************)
(* A search of rag-service (rag_engine.cpp: handle_search) beside the      *)
(* processes that write the projection (module Projection).  It reads the  *)
(* health of the projection, then the documents and their provenance, then *)
(* the health again, each query at a time of its own, and answers if both  *)
(* readings are ready and the same (rag_snapshot.cpp).                     *)
(*                                                                         *)
(* The times of the newest rows, which the readings compare as well, the   *)
(* ranking and the filters of the hits are left out: this search answers   *)
(* more often, and with all that it found.                                 *)
(***************************************************************************)
EXTENDS Projection

CONSTANTS Searcher,           \* requests of rag-service
          MaxSearchAttempts   \* kMaxSearchAttempts

ASSUME SearchAssumption == MaxSearchAttempts \in Nat \ {0}

VARIABLE search   \* local state of the searches

Corpus == [nodes : Nat, links : Nat]
Health == [gen : Gen, building : Gen \cup {None}, committed : Corpus]

SearchPc == {"idle", "meta", "nodes", "links", "docs", "rows", "find", "cite", "answered"}
Search == [pc : SearchPc, attempt : 0..MaxSearchAttempts,
           counted : BOOLEAN,                 \* does it count for the second time?
           health : Health, agree : BOOLEAN,  \* the reading under way
           before : Health \cup {None},       \* the reading before the search
           found : SUBSET Node, cited : SUBSET (Run \X Node),
           corpus : SUBSET Run]               \* auxiliary: what was committed as it read

ASSUME HealthAssumption == None \notin Health

SearchTypeOK == TypeOK /\ search \in [Searcher -> Search]

NoHealth == [gen |-> Live, building |-> None, committed |-> [nodes |-> 0, links |-> 0]]
NoSearch == [pc |-> "idle", attempt |-> 0, counted |-> FALSE, health |-> NoHealth,
             agree |-> FALSE, before |-> None, found |-> {}, cited |-> {}, corpus |-> {}]

SearchInit == Init /\ search = [s \in Searcher |-> NoSearch]

Finish(s) == search' = [search EXCEPT ![s] = NoSearch]

Ask(s) ==
    /\ search[s].pc = "idle"
    /\ search' = [search EXCEPT ![s] = [NoSearch EXCEPT !.pc = "meta", !.attempt = 1]]

-----------------------------------------------------------------------------
(* fill_health: the metadata, then the counts of rag_corpus_counts. *)

ReadHealth(s) ==
    /\ search[s].pc = "meta"
    /\ search' = [search EXCEPT ![s].pc = "nodes", ![s].counted = FALSE,
                    ![s].health = [NoHealth EXCEPT !.gen = meta.active,
                                                   !.building = meta.building]]

CorpusNodes(s) ==
    /\ search[s].pc = "nodes"
    /\ search' = [search EXCEPT ![s].pc = "links", ![s].health.committed.nodes =
                    Cardinality(UNION {Links[r] : r \in committed})]

CorpusLinks(s) ==
    /\ search[s].pc = "links"
    /\ search' = [search EXCEPT ![s].pc = "docs", ![s].health.committed.links =
                    Cardinality(UNION {Rows(r) : r \in committed})]

ProjectedNodes(s) ==
    LET health == search[s].health IN
    /\ search[s].pc = "docs"
    /\ search' = [search EXCEPT ![s].pc = "rows", ![s].agree =
                    health.committed.nodes =
                        Cardinality({n \in Node : docs[health.gen][n] # None})]

Ready(s) == /\ search[s].agree
            /\ search[s].health.committed.links = Cardinality(prov[search[s].health.gen])

(* Counts that disagree are taken once more. *)
CountAgain(s) ==
    /\ search[s].pc = "rows" /\ ~Ready(s) /\ ~search[s].counted
    /\ search' = [search EXCEPT ![s].pc = "nodes", ![s].counted = TRUE, ![s].agree = FALSE]

-----------------------------------------------------------------------------
(* handle_search: the gate before, the search, the gate after. *)

Proceed(s) ==
    /\ search[s].pc = "rows" /\ search[s].before = None
    /\ Ready(s)
    /\ search' = [search EXCEPT ![s].pc = "find", ![s].before = search[s].health,
                                ![s].health = NoHealth, ![s].agree = FALSE]

Unready(s) ==
    /\ search[s].pc = "rows" /\ search[s].before = None
    /\ ~Ready(s) /\ search[s].counted
    /\ Finish(s)

(* The documents of the generation that was active before. *)
Find(s) ==
    /\ search[s].pc = "find"
    /\ search' = [search EXCEPT ![s].pc = "cite", ![s].corpus = committed,
                    ![s].found = {n \in Node : docs[search[s].before.gen][n] # None}]

(* resolve_citations, in one step for the hits, and the health again. *)
Cite(s) ==
    /\ search[s].pc = "cite"
    /\ search' = [search EXCEPT ![s].pc = "meta",
                    ![s].cited = {row \in prov[search[s].before.gen] :
                                      row[2] \in search[s].found}]

(* Mutant: the generation has to be the same, the counts need not. *)
SameGeneration(a, b) == a.gen = b.gen /\ a.building = b.building

SameSnapshot(a, b) == a = b

Accept(s) ==
    /\ search[s].pc = "rows" /\ search[s].before # None
    /\ Ready(s) /\ SameSnapshot(search[s].before, search[s].health)
    /\ search' = [search EXCEPT ![s].pc = "answered", ![s].health = NoHealth,
                                ![s].agree = FALSE]

(* The next of kMaxSearchAttempts. *)
Again(s) ==
    IF search[s].attempt < MaxSearchAttempts
    THEN search' = [search EXCEPT ![s] = [NoSearch EXCEPT !.pc = "meta",
                                             !.attempt = search[s].attempt + 1]]
    ELSE Finish(s)

Retry(s) ==
    /\ search[s].pc = "rows" /\ search[s].before # None
    /\ IF Ready(s) THEN ~SameSnapshot(search[s].before, search[s].health)
       ELSE search[s].counted
    /\ Again(s)

Answered(s) ==
    /\ search[s].pc = "answered"
    /\ Finish(s)

(* A query fails: "search_unavailable".  A ping that fails leaves the health *)
(* unready; a count of projected rows that fails is -1, which agrees with    *)
(* nothing.                                                                  *)
SearchFault(s) ==
    /\ search[s].pc \notin {"idle", "answered"}
    /\ \/ Finish(s)
       \/ search[s].pc = "meta" /\ search[s].before # None /\ Again(s)
       \/ /\ search[s].pc \in {"docs", "rows"}
          /\ search' = [search EXCEPT ![s].pc = "rows", ![s].agree = FALSE]

SearchStep(s) ==
    \/ Ask(s) \/ ReadHealth(s) \/ CorpusNodes(s) \/ CorpusLinks(s) \/ ProjectedNodes(s)
    \/ CountAgain(s) \/ Proceed(s) \/ Unready(s) \/ Find(s) \/ Cite(s)
    \/ Accept(s) \/ Retry(s) \/ Answered(s) \/ SearchFault(s)

(* Ids are uuids: one that a search remembers is not used again. *)
Remembered ==
    UNION {{search[s].health.gen} \cup
           (IF search[s].before = None THEN {} ELSE {search[s].before.gen}) : s \in Searcher}

SearchNext ==
    \/ \E s \in Searcher : SearchStep(s) /\ UNCHANGED vars
    \/ /\ Next /\ UNCHANGED search
       /\ meta'.building \in {meta.building, None} \cup (Gen \ Remembered)

SearchSpec == SearchInit /\ [][SearchNext]_<<vars, search>>

-----------------------------------------------------------------------------
(* "Do not return hits if generation or corpus counts moved before after-   *)
(* health" (rag_engine.cpp:1129): an answer shows the whole corpus that was *)
(* committed as it was read and nothing of a run half projected, although   *)
(* every count and query was made at another time and only numbers are      *)
(* compared.                                                                *)
AnswerWhole ==
    \A s \in Searcher :
        search[s].pc = "answered" =>
            /\ search[s].found = UNION {Links[r] : r \in search[s].corpus}
            /\ search[s].cited = UNION {Rows(r) : r \in search[s].corpus}
=============================================================================
