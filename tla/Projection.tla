----------------------------- MODULE Projection -----------------------------
(***************************************************************************)
(* The retrieval projection of the C++ memory store: after a run commits,  *)
(* store_ingest projects it (project_committed_run); rag-rebuild builds    *)
(* the whole corpus again into a new generation and switches to it; a      *)
(* judgment (set_status, stale_pins) changes the status of a node and of   *)
(* its projected document.  All of them are processes of their own, which  *)
(* interleave between the round trips to MongoDB.                          *)
(*                                                                         *)
(* Embeddings are left out: they are written and counted beside documents. *)
(***************************************************************************)
EXTENDS Integers, FiniteSets, Functions

CONSTANTS Run,         \* run ids, which are scanned in order
          Node,        \* knowledge nodes
          Links,       \* run -> nodes: run_node_links, written before the commit
          Ingester,    \* processes in store_ingest
          Rebuilder,   \* processes in rag-rebuild
          Judge,       \* processes in set_status or stale_pins
          Gen,         \* generation ids, in the order of their names
          Live,        \* the generation seeded by ensure_rag_indexes
          None,        \* no generation, run, node, document
          MaxJudgments,  \* bound on the judgments made
          MaxFaults,     \* bound on crashes and failed round trips
          Crashes,       \* may a process die or an answer get lost, or do only round
                         \* trips fail that change nothing?
          Attempts,      \* rounds of a rebuild, 3 in the code
          Retries        \* may a committed run be ingested again?

Status == {"candidate", "verified", "stale", "rejected"}

ASSUME IdAssumption == Run \subseteq Nat /\ Gen \subseteq Nat /\ Live \in Gen
ASSUME LinksAssumption == Links \in [Run -> SUBSET Node]
ASSUME FiniteAssumption == IsFiniteSet(Run) /\ IsFiniteSet(Node) /\ IsFiniteSet(Judge)
ASSUME NoneAssumption == None \notin Run \cup Gen \cup Node /\ None \notin Status
ASSUME ProcessAssumption == Ingester \cap Rebuilder = {}
ASSUME BoundAssumption == /\ MaxJudgments \in Nat /\ MaxFaults \in Nat
                          /\ Attempts \in Nat \ {0} /\ Crashes \in BOOLEAN /\ Retries \in BOOLEAN

VARIABLES committed,   \* committed runs, of ingestion_runs
          status,      \* status of the knowledge_nodes
          judged,      \* node_judgments, as a bag of <<node, from, to>>
          docs,        \* rag_documents: generation -> node -> projected status
          prov,        \* rag_provenance: generation -> <<run, node>> rows
          meta,        \* rag_metadata
          aged,        \* retired generations past their 30 seconds of grace
          proc,        \* local state of ingesters and rebuilders
          judge,       \* local state of judges
          acked,       \* runs whose ingestion was answered with a receipt
          faults       \* crashes and errors so far

canonical == <<committed, status, judged>>
vars == <<canonical, docs, prov, meta, aged, proc, judge, acked, faults>>

Projector == Ingester \cup Rebuilder
Rows(r) == {r} \X Links[r]
IsSmallest(x, S) == x \in S /\ \A y \in S : x <= y

Metadata == [active : Gen, building : Gen \cup {None}, retired : SUBSET Gen]
Building == {"list", "next", "load", "write", "prov", "nodes", "links", "docs", "rows", "activate"}
Cleaning == {"sweep", "clean", "clean_prov", "pull"}
Proc == [pc : {"idle", "meta", "previous", "acquire", "abort"} \cup Building \cup Cleaning,
         run : Run \cup {None},            \* the run it projects
         seen : [Node -> Status],          \* the nodes as it loaded them
         gens : SUBSET Gen,                \* generations still to write
         left : SUBSET Node,               \* pairs still to write
         node : Node \cup {None},          \* pair whose provenance comes next
         gen : Gen \cup {None}, previous : Gen \cup {None}, switched : BOOLEAN,
         todo : SUBSET Run, attempt : 0..Attempts,
         nodes : Nat, links : Nat, agree : BOOLEAN,
         drop : SUBSET Gen, target : Gen \cup {None}]
Judgment == Node \X Status \X Status
JudgePc == {"idle", "read", "cas", "insert", "meta", "sync"}

TypeOK ==
    /\ committed \subseteq Run /\ acked \subseteq Run
    /\ status \in [Node -> Status]
    /\ judged \in [Judgment -> Nat]
    /\ docs \in [Gen -> [Node -> Status \cup {None}]]
    /\ prov \in [Gen -> SUBSET (Run \X Node)]
    /\ meta \in Metadata
    /\ aged \subseteq Gen
    /\ proc \in [Projector -> Proc]
    /\ judge \in [Judge -> [pc : JudgePc, node : Node \cup {None}, from : Status,
                            to : Status, gens : SUBSET Gen]]
    /\ faults \in 0..MaxFaults

IdleProc == [pc |-> "idle", run |-> None, seen |-> [n \in Node |-> "candidate"],
             gens |-> {}, left |-> {}, node |-> None, gen |-> None, previous |-> None,
             switched |-> FALSE, todo |-> {}, attempt |-> 0,
             nodes |-> 0, links |-> 0, agree |-> FALSE, drop |-> {}, target |-> None]
IdleJudge == [pc |-> "idle", node |-> None, from |-> "candidate", to |-> "candidate",
              gens |-> {}]

Init ==
    /\ committed = {} /\ acked = {}
    /\ status = [n \in Node |-> "candidate"]
    /\ judged = [j \in Judgment |-> 0]
    /\ docs = [g \in Gen |-> [n \in Node |-> None]]
    /\ prov = [g \in Gen |-> {}]
    /\ meta = [active |-> Live, building |-> None, retired |-> {}]
    /\ aged = {}
    /\ proc = [p \in Projector |-> IdleProc]
    /\ judge = [j \in Judge |-> IdleJudge]
    /\ faults = 0

Goto(p, pc) == proc' = [proc EXCEPT ![p].pc = pc]
Return(p) == proc' = [proc EXCEPT ![p] = IdleProc]

-----------------------------------------------------------------------------
(* Projecting one run: shared by store_ingest and rag-rebuild. *)

(* A call of store_ingest: it commits the run (module Ingestion), or finds it *)
(* committed already, and goes on to project it.                              *)
Ingest(p, r) ==
    /\ proc[p].pc = "idle"
    /\ Retries \/ r \notin committed
    /\ committed' = committed \cup {r}
    /\ proc' = [proc EXCEPT ![p].pc = "load", ![p].run = r]
    /\ UNCHANGED <<status, judged, docs, prov, meta, aged, judge, acked, faults>>

(* load_committed_run: the run, its links and its nodes are now in memory; *)
(* the nodes, read one after the other, are one step here.                 *)
Load(p) ==
    /\ proc[p].pc = "load"
    /\ proc' = [proc EXCEPT ![p].pc = IF p \in Ingester THEN "meta" ELSE "write",
                            ![p].seen = [n \in Node |-> IF n \in Links[proc[p].run]
                                                         THEN status[n] ELSE "candidate"],
                            ![p].gens = IF p \in Ingester THEN {} ELSE {proc[p].gen},
                            ![p].left = Links[proc[p].run]]
    /\ UNCHANGED <<canonical, docs, prov, meta, aged, judge, acked, faults>>

(* Mutant: an ingestion projects into the active generation only. *)
ActiveOnly == {meta.active}

(* The generations a write goes to: the active one and the one being built. *)
WrittenGenerations == {meta.active, meta.building} \ {None}

LoadMetadata(p) ==
    /\ proc[p].pc = "meta"
    /\ proc' = [proc EXCEPT ![p].pc = "write", ![p].gens = WrittenGenerations]
    /\ UNCHANGED <<canonical, docs, prov, meta, aged, judge, acked, faults>>

(* The generations are written one after the other, in the order of their names. *)
Onto(p, g) == IsSmallest(g, proc[p].gens)

WriteDocument(p, n) ==
    /\ proc[p].pc = "write"
    /\ n \in proc[p].left
    /\ \E g \in Gen : Onto(p, g) /\ docs' = [docs EXCEPT ![g][n] = proc[p].seen[n]]
    /\ proc' = [proc EXCEPT ![p].pc = "prov", ![p].node = n]
    /\ UNCHANGED <<canonical, prov, meta, aged, judge, acked, faults>>

WriteProvenance(p) ==
    /\ proc[p].pc = "prov"
    /\ \E g \in Gen :
           Onto(p, g) /\ prov' = [prov EXCEPT ![g] = @ \cup {<<proc[p].run, proc[p].node>>}]
    /\ proc' = [proc EXCEPT ![p].pc = "write", ![p].node = None,
                            ![p].left = @ \ {proc[p].node}]
    /\ UNCHANGED <<canonical, docs, meta, aged, judge, acked, faults>>

Projected(r, g) == /\ \A n \in Links[r] : docs[g][n] # None
                   /\ Rows(r) \subseteq prov[g]

(* verify_projection succeeds; the next generation, or the caller, goes on. *)
NextGeneration(p) ==
    /\ proc[p].pc = "write" /\ proc[p].left = {}
    /\ \E g \in Gen :
           /\ Onto(p, g) /\ Projected(proc[p].run, g)
           /\ proc[p].gens # {g}
           /\ proc' = [proc EXCEPT ![p].gens = @ \ {g}, ![p].left = Links[proc[p].run]]
    /\ UNCHANGED <<canonical, docs, prov, meta, aged, judge, acked, faults>>

(* store_ingest answers with a receipt. *)
Acknowledge(p) ==
    /\ p \in Ingester
    /\ proc[p].pc = "write" /\ proc[p].left = {}
    /\ \E g \in Gen : proc[p].gens = {g} /\ Projected(proc[p].run, g)
    /\ acked' = acked \cup {proc[p].run}
    /\ Return(p)
    /\ UNCHANGED <<canonical, docs, prov, meta, aged, judge, faults>>

RunRebuilt(p) ==
    /\ p \in Rebuilder
    /\ proc[p].pc = "write" /\ proc[p].left = {}
    /\ Projected(proc[p].run, proc[p].gen)
    /\ proc' = [proc EXCEPT ![p].pc = "next", ![p].todo = @ \ {proc[p].run},
                            ![p].run = None, ![p].gens = {},
                            ![p].seen = IdleProc.seen]
    /\ UNCHANGED <<canonical, docs, prov, meta, aged, judge, acked, faults>>

Failed(p) == IF p \in Rebuilder /\ proc[p].pc \in Building THEN Goto(p, "abort") ELSE Return(p)

VerificationFailed(p) ==
    /\ proc[p].pc = "write" /\ proc[p].left = {}
    /\ \E g \in Gen : Onto(p, g) /\ ~Projected(proc[p].run, g)
    /\ Failed(p)
    /\ UNCHANGED <<canonical, docs, prov, meta, aged, judge, acked, faults>>

-----------------------------------------------------------------------------
(* rag-rebuild. *)

(* Ids are uuids; one no longer met anywhere may stand for a new one. *)
Fresh(g) ==
    /\ g \notin {meta.active, meta.building, Live} \cup meta.retired
    /\ \A n \in Node : docs[g][n] = None
    /\ prov[g] = {}
    /\ \A p \in Projector : g \notin {proc[p].gen, proc[p].previous, proc[p].target}
                                    \cup proc[p].gens \cup proc[p].drop
    /\ \A j \in Judge : g \notin judge[j].gens

(* Mutant: the cleanup spares the active generation only. *)
DropInactive == Gen \ {meta.active}

Droppable == (meta.retired \cap aged) \ {meta.active, meta.building}

(* cleanup_retired_generations, which opens and closes a rebuild, reads the *)
(* metadata once, before it deletes.                                        *)
StartCleanup(p) ==
    /\ proc[p].pc \in {"idle", "sweep"}
    /\ proc' = [proc EXCEPT ![p].pc = "clean", ![p].drop = Droppable]
    /\ UNCHANGED <<canonical, docs, prov, meta, aged, judge, acked, faults>>

DeleteDocuments(p, g) ==
    /\ proc[p].pc = "clean"
    /\ g \in proc[p].drop
    /\ docs' = [docs EXCEPT ![g] = [n \in Node |-> None]]
    /\ proc' = [proc EXCEPT ![p].pc = "clean_prov", ![p].target = g]
    /\ UNCHANGED <<canonical, prov, meta, aged, judge, acked, faults>>

DeleteProvenance(p) ==
    /\ proc[p].pc = "clean_prov"
    /\ prov' = [prov EXCEPT ![proc[p].target] = {}]
    /\ Goto(p, "pull")
    /\ UNCHANGED <<canonical, docs, meta, aged, judge, acked, faults>>

PullRetired(p) ==
    /\ proc[p].pc = "pull"
    /\ meta' = [meta EXCEPT !.retired = @ \ {proc[p].target}]
    /\ aged' = aged \ {proc[p].target}
    /\ proc' = [proc EXCEPT ![p].pc = "clean", ![p].target = None,
                            ![p].drop = @ \ {proc[p].target}]
    /\ UNCHANGED <<canonical, docs, prov, judge, acked, faults>>

Cleaned(p) ==
    /\ proc[p].pc = "clean" /\ proc[p].drop = {}
    /\ IF proc[p].switched THEN Return(p) ELSE Goto(p, "previous")
    /\ UNCHANGED <<canonical, docs, prov, meta, aged, judge, acked, faults>>

ReadPrevious(p) ==
    /\ proc[p].pc = "previous"
    /\ proc' = [proc EXCEPT ![p].pc = "acquire", ![p].previous = meta.active]
    /\ UNCHANGED <<canonical, docs, prov, meta, aged, judge, acked, faults>>

(* Mutant: the lease is taken even while another rebuild holds it. *)
AcquireAnyway(p, g) ==
    /\ proc[p].pc = "acquire"
    /\ Fresh(g)
    /\ meta' = [meta EXCEPT !.building = g]
    /\ proc' = [proc EXCEPT ![p].pc = "list", ![p].gen = g]
    /\ UNCHANGED <<canonical, docs, prov, aged, judge, acked, faults>>

(* findAndModify: the building generation is the rebuild lease. *)
Acquire(p, g) ==
    /\ proc[p].pc = "acquire"
    /\ meta.building = None
    /\ Fresh(g)
    /\ meta' = [meta EXCEPT !.building = g]
    /\ proc' = [proc EXCEPT ![p].pc = "list", ![p].gen = g]
    /\ UNCHANGED <<canonical, docs, prov, aged, judge, acked, faults>>

(* "RAG projection rebuild is already in progress". *)
AlreadyInProgress(p) ==
    /\ proc[p].pc = "acquire"
    /\ meta.building # None
    /\ Return(p)
    /\ UNCHANGED <<canonical, docs, prov, meta, aged, judge, acked, faults>>

(* A bound of the model: no id is left until a cleanup frees one. *)
OutOfIds(p) ==
    /\ proc[p].pc = "acquire"
    /\ \A g \in Gen : ~Fresh(g)
    /\ Return(p)
    /\ UNCHANGED <<canonical, docs, prov, meta, aged, judge, acked, faults>>

ListCommitted(p) ==
    /\ proc[p].pc = "list"
    /\ proc' = [proc EXCEPT ![p].pc = "next", ![p].todo = committed,
                            ![p].attempt = @ + 1]
    /\ UNCHANGED <<canonical, docs, prov, meta, aged, judge, acked, faults>>

NextRun(p) ==
    /\ proc[p].pc = "next"
    /\ \/ proc[p].todo = {} /\ Goto(p, "nodes")
       \/ \E r \in proc[p].todo :
              /\ IsSmallest(r, proc[p].todo)
              /\ proc' = [proc EXCEPT ![p].pc = "load", ![p].run = r]
    /\ UNCHANGED <<canonical, docs, prov, meta, aged, judge, acked, faults>>

(* corpus_counts: four queries, each of the state as it is by then. *)
CountNodes(p) ==
    /\ proc[p].pc = "nodes"
    /\ proc' = [proc EXCEPT ![p].pc = "links",
                            ![p].nodes = Cardinality(UNION {Links[r] : r \in committed})]
    /\ UNCHANGED <<canonical, docs, prov, meta, aged, judge, acked, faults>>

CountLinks(p) ==
    /\ proc[p].pc = "links"
    /\ proc' = [proc EXCEPT ![p].pc = "docs",
                            ![p].links = Cardinality(UNION {Rows(r) : r \in committed})]
    /\ UNCHANGED <<canonical, docs, prov, meta, aged, judge, acked, faults>>

CountDocuments(p) ==
    /\ proc[p].pc = "docs"
    /\ proc' = [proc EXCEPT ![p].pc = "rows",
          ![p].agree = proc[p].nodes = Cardinality({n \in Node : docs[proc[p].gen][n] # None})]
    /\ UNCHANGED <<canonical, docs, prov, meta, aged, judge, acked, faults>>

Compared(p, pc) ==
    /\ proc[p].pc = "rows"
    /\ proc' = [proc EXCEPT ![p].pc = pc, ![p].nodes = 0, ![p].links = 0, ![p].agree = FALSE]
    /\ UNCHANGED <<canonical, docs, prov, meta, aged, judge, acked, faults>>

CountsAgree(p) == proc[p].agree /\ proc[p].links = Cardinality(prov[proc[p].gen])

Complete(p) == CountsAgree(p) /\ Compared(p, "activate")

TryAgain(p) ==
    /\ ~CountsAgree(p)
    /\ proc[p].attempt < Attempts
    /\ Compared(p, "list")

GiveUp(p) ==
    /\ ~CountsAgree(p)
    /\ proc[p].attempt = Attempts
    /\ Compared(p, "abort")

Activate(p) ==
    /\ proc[p].pc = "activate"
    /\ meta.active = proc[p].previous /\ meta.building = proc[p].gen
    /\ meta' = [active |-> proc[p].gen, building |-> None,
                retired |-> meta.retired \cup {proc[p].previous}]
    /\ proc' = [proc EXCEPT ![p] = [IdleProc EXCEPT !.pc = "sweep", !.switched = TRUE]]
    /\ UNCHANGED <<canonical, docs, prov, aged, judge, acked, faults>>

(* "RAG generation changed during rebuild; refusing to switch". *)
ChangedDuringRebuild(p) ==
    /\ proc[p].pc = "activate"
    /\ meta.active # proc[p].previous \/ meta.building # proc[p].gen
    /\ Goto(p, "abort")
    /\ UNCHANGED <<canonical, docs, prov, meta, aged, judge, acked, faults>>

(* Mutant: a failed rebuild returns without giving the lease back. *)
KeepLease(p) ==
    /\ proc[p].pc = "abort"
    /\ Return(p)
    /\ UNCHANGED <<canonical, docs, prov, meta, aged, judge, acked, faults>>

(* abort_rebuild releases the lease and leaves the rows to the cleanup. *)
Abort(p) ==
    /\ proc[p].pc = "abort"
    /\ meta' = IF meta.building = proc[p].gen
               THEN [meta EXCEPT !.building = None, !.retired = @ \cup {proc[p].gen}]
               ELSE meta
    /\ Return(p)
    /\ UNCHANGED <<canonical, docs, prov, aged, judge, acked, faults>>

(* Thirty seconds have passed since g was retired. *)
Age(g) ==
    /\ g \in meta.retired \ aged
    /\ aged' = aged \cup {g}
    /\ UNCHANGED <<canonical, docs, prov, meta, proc, judge, acked, faults>>

(* A round trip fails, which the caller handles, or the process dies.  The *)
(* count of projected rows that fails is -1, which agrees with nothing.    *)
(* An Acquire whose answer is lost has taken the lease for a caller that   *)
(* returns, which is where a death after Acquire leads, too.               *)
Fault(p) ==
    /\ proc[p].pc # "idle"
    /\ faults < MaxFaults
    /\ faults' = faults + 1
    /\ \/ proc[p].pc \notin {"docs", "rows"} /\ Failed(p)
       \/ /\ proc[p].pc \in {"docs", "rows"}
          /\ proc' = [proc EXCEPT ![p].pc = "rows", ![p].agree = FALSE]
       \/ Crashes /\ Return(p)
    /\ UNCHANGED <<canonical, docs, prov, meta, aged, judge, acked>>

-----------------------------------------------------------------------------
(* Judgments. *)

Allowed(from, to) ==
    \/ from = to
    \/ to = "verified" /\ from \in {"candidate", "stale"}
    \/ to = "rejected" /\ from # "rejected"
    \/ to = "stale" /\ from \in {"candidate", "verified"}
    \/ to = "candidate" /\ from = "stale"

(* A bound of the model: the judgments on file and under way. *)
JudgmentsLeft ==
    SumFunction(judged) + Cardinality({j \in Judge : judge[j].pc # "idle"}) < MaxJudgments

(* set_status of n: the request. *)
SetStatus(j, n, to) ==
    /\ judge[j].pc = "idle"
    /\ JudgmentsLeft
    /\ judge' = [judge EXCEPT ![j].pc = "read", ![j].node = n, ![j].to = to]
    /\ UNCHANGED <<canonical, docs, prov, meta, aged, proc, acked, faults>>

(* stale_pins meets n, whose pin differs, at its cursor: a verified node is *)
(* judged stale, the document of a stale one is written again.              *)
StalePin(j, n) ==
    /\ judge[j].pc = "idle"
    /\ JudgmentsLeft
    /\ status[n] \in {"verified", "stale"}
    /\ judge' = [judge EXCEPT ![j].pc = IF status[n] = "verified" THEN "read" ELSE "meta",
                              ![j].node = n, ![j].to = "stale"]
    /\ UNCHANGED <<canonical, docs, prov, meta, aged, proc, acked, faults>>

ReadStatus(j) ==
    LET from == status[judge[j].node] IN
    /\ judge[j].pc = "read"
    /\ judge' = [judge EXCEPT ![j] =
                   IF Allowed(from, judge[j].to)
                   THEN [@ EXCEPT !.pc = IF from = judge[j].to THEN "insert" ELSE "cas",
                                  !.from = from]
                   ELSE IdleJudge]
    /\ UNCHANGED <<canonical, docs, prov, meta, aged, proc, acked, faults>>

(* Mutant: the update is not conditioned on the status that was read. *)
ChangeUnconditionally(j) ==
    /\ judge[j].pc = "cas"
    /\ status' = [status EXCEPT ![judge[j].node] = judge[j].to]
    /\ judge' = [judge EXCEPT ![j].pc = "insert"]
    /\ UNCHANGED <<committed, judged, docs, prov, meta, aged, proc, acked, faults>>

(* Mutant: a lost compare-and-set is recorded like a change that was made. *)
ChangeUnchecked(j) ==
    LET n == judge[j].node IN
    /\ judge[j].pc = "cas"
    /\ status' = IF status[n] = judge[j].from
                 THEN [status EXCEPT ![n] = judge[j].to] ELSE status
    /\ judge' = [judge EXCEPT ![j].pc = "insert"]
    /\ UNCHANGED <<committed, judged, docs, prov, meta, aged, proc, acked, faults>>

ChangeStatus(j) ==
    LET n == judge[j].node IN
    /\ judge[j].pc = "cas"
    /\ status' = IF status[n] = judge[j].from
                 THEN [status EXCEPT ![n] = judge[j].to] ELSE status
    /\ judge' = [judge EXCEPT ![j] = IF status[n] = judge[j].from
                                     THEN [@ EXCEPT !.pc = "insert"] ELSE IdleJudge]
    /\ UNCHANGED <<committed, judged, docs, prov, meta, aged, proc, acked, faults>>

RecordJudgment(j) ==
    LET entry == <<judge[j].node, judge[j].from, judge[j].to>> IN
    /\ judge[j].pc = "insert"
    /\ judged' = [judged EXCEPT ![entry] = @ + 1]
    /\ judge' = [judge EXCEPT ![j].pc = "meta"]
    /\ UNCHANGED <<committed, status, docs, prov, meta, aged, proc, acked, faults>>

(* sync_projected_node_status: the metadata, then every document of the node, *)
(* never created here.                                                        *)
ReadGenerations(j) ==
    /\ judge[j].pc = "meta"
    /\ judge' = [judge EXCEPT ![j].pc = "sync", ![j].gens = WrittenGenerations]
    /\ UNCHANGED <<canonical, docs, prov, meta, aged, proc, acked, faults>>

SyncDocuments(j) ==
    /\ judge[j].pc = "sync"
    /\ docs' = [g \in Gen |-> IF g \in judge[j].gens /\ docs[g][judge[j].node] # None
                              THEN [docs[g] EXCEPT ![judge[j].node] = judge[j].to]
                              ELSE docs[g]]
    /\ judge' = [judge EXCEPT ![j] = IdleJudge]
    /\ UNCHANGED <<canonical, prov, meta, aged, proc, acked, faults>>

JudgeFault(j) ==
    /\ judge[j].pc # "idle"
    /\ faults < MaxFaults
    /\ faults' = faults + 1
    /\ judge' = [judge EXCEPT ![j] = IdleJudge]
    /\ UNCHANGED <<canonical, docs, prov, meta, aged, proc, acked>>

-----------------------------------------------------------------------------
Project(p) ==
    \/ Load(p) \/ (\E n \in Node : WriteDocument(p, n)) \/ WriteProvenance(p)
    \/ NextGeneration(p) \/ VerificationFailed(p)

IngesterStep(p) ==
    \/ \E r \in Run : Ingest(p, r)
    \/ Project(p) \/ LoadMetadata(p) \/ Acknowledge(p)

RebuilderStep(p) ==
    \/ StartCleanup(p) \/ DeleteProvenance(p) \/ PullRetired(p) \/ Cleaned(p)
    \/ \E g \in Gen : DeleteDocuments(p, g) \/ Acquire(p, g)
    \/ ReadPrevious(p) \/ AlreadyInProgress(p) \/ OutOfIds(p) \/ ListCommitted(p) \/ NextRun(p)
    \/ Project(p) \/ RunRebuilt(p)
    \/ CountNodes(p) \/ CountLinks(p) \/ CountDocuments(p)
    \/ Complete(p) \/ TryAgain(p) \/ GiveUp(p)
    \/ Activate(p) \/ ChangedDuringRebuild(p) \/ Abort(p)

JudgeStep(j) ==
    \/ \E n \in Node : StalePin(j, n) \/ \E to \in Status : SetStatus(j, n, to)
    \/ ReadStatus(j) \/ ChangeStatus(j) \/ RecordJudgment(j)
    \/ ReadGenerations(j) \/ SyncDocuments(j)

Next ==
    \/ \E p \in Ingester : IngesterStep(p)
    \/ \E p \in Rebuilder : RebuilderStep(p)
    \/ \E p \in Projector : Fault(p)
    \/ \E j \in Judge : JudgeStep(j) \/ JudgeFault(j)
    \/ \E g \in Gen : Age(g)

Spec == Init /\ [][Next]_vars

(* rag-rebuild is started again and again (Heal-GodBrain.ps1 runs it while the *)
(* projection is not ready) and time passes; nothing is assumed of ingesters.  *)
FairSpec == /\ Spec
            /\ \A p \in Rebuilder : WF_vars(RebuilderStep(p))
            /\ \A g \in Gen : WF_vars(Age(g))
-----------------------------------------------------------------------------
(* Properties. *)

(* A run whose ingestion was answered with a receipt can be retrieved from  *)
(* then on: every node and every provenance row is in the active generation *)
(* through any number of rebuilds, switches and cleanups, although the      *)
(* ingester read the generations only once, before it wrote.                *)
AckedVisible == \A r \in acked : Projected(r, meta.active)

(* The rebuild that acquired the lease keeps it until it switches or aborts: *)
(* two rebuilds never write, count or switch at the same time.               *)
BuilderHoldsLease ==
    \A p \in Rebuilder : proc[p].pc \in Building => meta.building = proc[p].gen

(* A cleanup works from metadata read before its deletes, while switches go *)
(* on; it never takes a row from the generation being read or being built.  *)
LiveRowsKept ==
    [][\A g \in {meta.active, meta.building} \ {None} :
         /\ prov[g] \subseteq prov'[g]
         /\ \A n \in Node : docs[g][n] # None => docs'[g][n] # None]_<<docs, prov>>

(* A committed run, left unprojected by an ingester that failed or stopped,  *)
(* is repaired by the rebuilds.                                              *)
RebuildRepairs == \A r \in Run : r \in committed ~> Projected(r, meta.active)

(* Judges that race never take a node along a transition the rules forbid:   *)
(* a rejected node stays rejected.                                           *)
StatusFollowsRules == [][\A n \in Node : Allowed(status[n], status'[n])]_vars

(* The judgments on n that lead to s, and those that lead away from s; one  *)
(* that confirms the status s counts in both.                               *)
Into(n, s) == judged[<<n, "candidate", s>>] + judged[<<n, "verified", s>>]
              + judged[<<n, "stale", s>>] + judged[<<n, "rejected", s>>]
OutOf(n, s) == judged[<<n, s, "candidate">>] + judged[<<n, s, "verified">>]
               + judged[<<n, s, "stale">>] + judged[<<n, s, "rejected">>]

(* While no judge is between its change and its record, the judgments on    *)
(* file lead from "candidate" to the present status of every node, whatever *)
(* raced: none records a change that was not made, and none is missing but  *)
(* one for each judge that failed.                                          *)
JudgmentsExplainStatus ==
    (\A j \in Judge : judge[j].pc # "insert") =>
        \A n \in Node, s \in Status :
            Into(n, s) - OutOf(n, s) - (IF s = status[n] THEN 1 ELSE 0)
                + (IF s = "candidate" THEN 1 ELSE 0) \in (-faults)..faults

(* Quiet: nothing is under way and nothing has failed. *)
Quiet == /\ faults = 0
         /\ \A p \in Projector : proc[p].pc = "idle"
         /\ \A j \in Judge : judge[j].pc = "idle"

(* What set_status is said to keep: the status a search shows is the status *)
(* of the node.                                                             *)
StatusSynced ==
    Quiet => \A n \in Node : docs[meta.active][n] \in {None, status[n]}
=============================================================================
