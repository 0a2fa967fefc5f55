--------------------------- MODULE ProjectionProofs ---------------------------
(* Theorems about Projection and Search, for every value of their constants. *)
EXTENDS Search, FiniteSetTheorems, TLAPS

(* The rebuild that holds the lease, and the one that still writes or counts. *)
Holds(p) == p \in Rebuilder /\ proc[p].pc \in Building \cup {"abort"}
Builds(p) == p \in Rebuilder /\ proc[p].pc \in Building

AtRun == {"load", "meta", "write", "prov"}

(* The run being projected is committed, and what is left of it is its own. *)
RunOK(p) ==
    /\ proc[p].pc \in AtRun => proc[p].run \in committed
    /\ proc[p].pc \in {"meta", "write", "prov"} => proc[p].left \subseteq Links[proc[p].run]
    /\ proc[p].pc = "prov" => proc[p].node \in Links[proc[p].run]

(* A cleanup never goes for a generation that is written. *)
SweepOK(p) == (proc[p].drop \cup {proc[p].target}) \cap WrittenGenerations = {}

IngesterOK(p) == p \in Ingester => proc[p].pc \in AtRun \cup {"idle"}

RebuilderOK(p) ==
    p \in Rebuilder =>
        /\ proc[p].pc # "meta" /\ proc[p].todo \subseteq committed
        /\ IF Holds(p) THEN proc[p].gen \in Gen /\ meta.building = proc[p].gen
                       ELSE proc[p].attempt = 0
        /\ proc[p].pc = "list" => proc[p].attempt < Attempts
        /\ proc[p].pc \in {"write", "prov"} => proc[p].gens = {proc[p].gen}
        /\ proc[p].pc \in {"load", "write", "prov"} => proc[p].run \in proc[p].todo
        /\ proc[p].pc \in {"nodes", "links", "docs", "rows", "activate"} => proc[p].todo = {}

Local(p) == RunOK(p) /\ SweepOK(p) /\ IngesterOK(p) /\ RebuilderOK(p)

(* A rebuild has run r in its generation, or still on its list. *)
Covered(r, q) ==
    Builds(q) => Projected(r, proc[q].gen) \/ proc[q].pc = "list" \/ r \in proc[q].todo

(* An ingestion that began to write reaches every generation that is, or will be, *)
(* the active one: it has it to write, or has written it, or the rebuild will.    *)
Reaches(p) ==
    p \in Ingester /\ proc[p].pc \in {"write", "prov"} =>
        /\ meta.active \in proc[p].gens \/ Projected(proc[p].run, meta.active)
        /\ \A q \in Rebuilder :
               Builds(q) /\ proc[q].gen \notin proc[p].gens => Covered(proc[p].run, q)

Alone == \A p, q \in Rebuilder : Holds(p) /\ Holds(q) => p = q

Retrievable ==
    \A r \in acked :
        r \in committed /\ Projected(r, meta.active) /\ \A q \in Rebuilder : Covered(r, q)

JudgesOK ==
    \A j \in Judge : /\ judge[j].pc # "idle" => judge[j].node \in Node
                     /\ judge[j].pc = "cas" => Allowed(judge[j].from, judge[j].to)

(* The inductive invariant. *)
IInv == /\ TypeOK /\ JudgesOK /\ Alone /\ Retrievable
        /\ \A p \in Projector : Local(p) /\ Reaches(p)

-----------------------------------------------------------------------------
(* Types. *)

LEMMA Counted ==
    ASSUME NEW S, S \subseteq Node \/ S \subseteq Run \X Node
    PROVE  IsFiniteSet(S) /\ Cardinality(S) \in Nat
<1>1. IsFiniteSet(Node) /\ IsFiniteSet(Run \X Node) BY FiniteAssumption, FS_Product
<1>2. IsFiniteSet(S) BY <1>1, FS_Subset
<1>3. QED BY <1>2, FS_CardinalityType

LEMMA InitTyped == Init => TypeOK
<1> SUFFICES ASSUME Init PROVE TypeOK OBVIOUS
<1>1. IdleProc \in Proc
  BY BoundAssumption DEF IdleProc, Proc, Status, Building, Cleaning
<1>2. QED
  BY <1>1, IdAssumption, BoundAssumption
     DEF Init, TypeOK, Status, Metadata, Judgment, JudgePc, IdleJudge
(* The steps that change nothing but the state of a process. *)
Private(p) ==
    /\ UNCHANGED <<canonical, docs, prov, meta, aged, judge, acked>>
    /\ proc' = [proc EXCEPT ![p] = proc'[p]]
    /\ faults' \in 0..MaxFaults

LEMMA PrivateTyped ==
    ASSUME TypeOK, NEW p \in Projector, Private(p), proc'[p] \in Proc
    PROVE  TypeOK'
BY DEF TypeOK, Private, canonical

LEMMA Idle == IdleProc \in Proc
BY BoundAssumption DEF IdleProc, Proc, Status, Building, Cleaning

(* The step of the projection that only moves a process on. *)
Moves(p) ==
    \/ Load(p) \/ LoadMetadata(p) \/ NextGeneration(p) \/ VerificationFailed(p)
    \/ RunRebuilt(p) \/ StartCleanup(p) \/ Cleaned(p) \/ ReadPrevious(p)
    \/ AlreadyInProgress(p) \/ OutOfIds(p) \/ ListCommitted(p) \/ NextRun(p)
    \/ CountNodes(p) \/ CountLinks(p) \/ CountDocuments(p)
    \/ Complete(p) \/ TryAgain(p) \/ GiveUp(p) \/ ChangedDuringRebuild(p) \/ Fault(p)

LEMMA MovesTyped ==
    ASSUME TypeOK, NEW p \in Projector, Local(p), Moves(p)
    PROVE  Private(p) /\ proc'[p] \in Proc
<1>1. proc[p] \in Proc /\ meta \in Metadata /\ proc = [q \in Projector |-> proc[q]]
  BY DEF TypeOK
<1>2. Goto(p, "abort") => proc' = [proc EXCEPT ![p] = proc'[p]] /\ proc'[p] \in Proc
  BY <1>1 DEF Goto, Proc
<1>3. Return(p) => proc' = [proc EXCEPT ![p] = proc'[p]] /\ proc'[p] \in Proc
  BY <1>1, Idle DEF Return
<1>4. Failed(p) => proc' = [proc EXCEPT ![p] = proc'[p]] /\ proc'[p] \in Proc
  BY <1>2, <1>3 DEF Failed
<1>5. faults \in 0..MaxFaults BY DEF TypeOK
<1>6. CASE Load(p)
  <2>1. proc[p].run \in Run /\ Links[proc[p].run] \subseteq Node
    BY <1>6, LinksAssumption DEF Load, Local, RunOK, AtRun, TypeOK
  <2>2. status \in [Node -> Status] BY DEF TypeOK
  <2>3. p \notin Ingester => proc[p].gen \in Gen
    BY <1>6 DEF Load, Local, RebuilderOK, Projector, Holds, Building
  <2> DEFINE seen == [n \in Node |-> IF n \in Links[proc[p].run] THEN status[n] ELSE "candidate"]
             at   == IF p \in Ingester THEN "meta" ELSE "write"
             gens == IF p \in Ingester THEN {} ELSE {proc[p].gen}
             next == [proc[p] EXCEPT !.pc = at, !.seen = seen, !.gens = gens,
                                     !.left = Links[proc[p].run]]
  <2>4. seen \in [Node -> Status] BY <2>2 DEF Status
  <2>5. proc' = [proc EXCEPT ![p] = next] BY <1>6 DEF Load
  <2>6. next \in Proc
    <3>1. gens \in SUBSET Gen /\ at \in {"meta", "write"} BY <2>3
    <3> HIDE DEF seen, gens, at
    <3>2. QED BY <1>1, <2>1, <2>4, <3>1 DEF Proc, Building
  <2>7. QED BY <1>1, <1>5, <1>6, <2>5, <2>6 DEF Load, Private
<1>7. CASE LoadMetadata(p)
  BY <1>1, <1>5, <1>7 DEF LoadMetadata, Private, Proc, Building, WrittenGenerations, Metadata
<1>8. CASE NextGeneration(p)
  <2>1. Links[proc[p].run] \subseteq Node
    BY <1>8, LinksAssumption DEF NextGeneration, Local, RunOK, AtRun, TypeOK
  <2>2. PICK g \in Gen : proc' = [proc EXCEPT ![p].gens = @ \ {g}, ![p].left = Links[proc[p].run]]
    BY <1>8 DEF NextGeneration
  <2>3. proc'[p] \in Proc BY <1>1, <2>1, <2>2 DEF Proc
  <2>4. QED BY <1>1, <1>5, <1>8, <2>2, <2>3 DEF NextGeneration, Private
<1>9. CASE VerificationFailed(p)
  BY <1>4, <1>5, <1>9 DEF VerificationFailed, Private
<1>10. CASE RunRebuilt(p)
  BY <1>1, <1>5, <1>10, Idle, ZenonT(40) DEF RunRebuilt, Private, Proc, Building
<1>11. CASE StartCleanup(p)
  BY <1>1, <1>5, <1>11, ZenonT(40) DEF StartCleanup, Private, Proc, Cleaning, Droppable, Metadata
<1>12. CASE Cleaned(p)
  BY <1>1, <1>3, <1>5, <1>12 DEF Cleaned, Private, Goto, Proc
<1>13. CASE ReadPrevious(p)
  BY <1>1, <1>5, <1>13, ZenonT(40) DEF ReadPrevious, Private, Proc, Metadata
<1>14. CASE AlreadyInProgress(p) \/ OutOfIds(p)
  BY <1>3, <1>5, <1>14 DEF AlreadyInProgress, OutOfIds, Private
<1>15. CASE ListCommitted(p)
  <2>1. p \in Rebuilder
    BY <1>15 DEF ListCommitted, Local, IngesterOK, AtRun, Projector
  <2>2. proc[p].attempt \in Nat /\ proc[p].attempt < Attempts
    BY <1>1, <1>15, <2>1 DEF ListCommitted, Local, RebuilderOK, Proc
  <2>3. committed \subseteq Run BY DEF TypeOK
  <2>4. proc[p].attempt + 1 \in 0..Attempts BY <2>2, BoundAssumption
  <2> DEFINE next == [proc[p] EXCEPT !.pc = "next", !.todo = committed, !.attempt = @ + 1]
  <2>5. next \in Proc BY <1>1, <2>3, <2>4 DEF Proc, Building
  <2>6. proc' = [proc EXCEPT ![p] = next] BY <1>15 DEF ListCommitted
  <2>7. QED BY <1>1, <1>5, <1>15, <2>5, <2>6 DEF ListCommitted, Private
<1>16. CASE NextRun(p)
  <2>1. CASE Goto(p, "nodes")
    BY <1>1, <1>5, <1>16, <2>1, ZenonT(40) DEF NextRun, Private, Goto, Proc, Building
  <2>2. CASE \E r \in proc[p].todo : proc' = [proc EXCEPT ![p].pc = "load", ![p].run = r]
    <3>1. PICK r \in proc[p].todo : proc' = [proc EXCEPT ![p].pc = "load", ![p].run = r]
      BY <2>2
    <3>2. r \in Run BY <1>1 DEF Proc
    <3>3. proc'[p] \in Proc BY <1>1, <3>1, <3>2 DEF Proc, Building
    <3>4. QED BY <1>1, <1>5, <1>16, <3>1, <3>3 DEF NextRun, Private
  <2>3. QED BY <1>16, <2>1, <2>2 DEF NextRun
<1>17. CASE CountNodes(p)
  <2>1. committed \subseteq Run BY DEF TypeOK
  <2>2. UNION {Links[r] : r \in committed} \subseteq Node BY <2>1, LinksAssumption
  <2>3. Cardinality(UNION {Links[r] : r \in committed}) \in Nat BY <2>2, Counted
  <2>4. QED BY <1>1, <1>5, <1>17, <2>3, ZenonT(40) DEF CountNodes, Private, Proc, Building
<1>18. CASE CountLinks(p)
  <2>1. committed \subseteq Run BY DEF TypeOK
  <2>2. UNION {Rows(r) : r \in committed} \subseteq Run \X Node BY <2>1, LinksAssumption DEF Rows
  <2>3. Cardinality(UNION {Rows(r) : r \in committed}) \in Nat BY <2>2, Counted
  <2>4. QED BY <1>1, <1>5, <1>18, <2>3, ZenonT(40) DEF CountLinks, Private, Proc, Building
<1>19. CASE CountDocuments(p)
  BY <1>1, <1>5, <1>19, ZenonT(40) DEF CountDocuments, Private, Proc, Building
<1>20. CASE Complete(p) \/ TryAgain(p) \/ GiveUp(p)
  BY <1>1, <1>5, <1>20 DEF Complete, TryAgain, GiveUp, Compared, Private, Proc, Building
<1>21. CASE ChangedDuringRebuild(p)
  BY <1>2, <1>5, <1>21 DEF ChangedDuringRebuild, Private
<1>22. CASE Fault(p)
  <2>1. faults' \in 0..MaxFaults BY <1>5, <1>22, BoundAssumption DEF Fault
  <2>2. proc' = [proc EXCEPT ![p] = proc'[p]] /\ proc'[p] \in Proc
    BY <1>1, <1>3, <1>4, <1>22 DEF Fault, Proc, Building
  <2>3. QED BY <2>1, <2>2, <1>22 DEF Fault, Private
<1>23. QED
  BY <1>6, <1>7, <1>8, <1>9, <1>10, <1>11, <1>12, <1>13, <1>14, <1>15, <1>16, <1>17, <1>18,
     <1>19, <1>20, <1>21, <1>22 DEF Moves
LEMMA Stepped ==
    ASSUME proc \in [Projector -> Proc], NEW p \in Projector, proc'[p] \in Proc,
           proc' = [proc EXCEPT ![p] = proc'[p]]
    PROVE  proc' \in [Projector -> Proc]
OBVIOUS

(* The steps of a process that change more than its own state. *)
LEMMA ActsTyped ==
    ASSUME TypeOK, NEW p \in Projector, Local(p),
           \/ \E r \in Run : Ingest(p, r)
           \/ \E n \in Node : WriteDocument(p, n)
           \/ WriteProvenance(p) \/ Acknowledge(p)
           \/ \E g \in Gen : DeleteDocuments(p, g) \/ Acquire(p, g)
           \/ DeleteProvenance(p) \/ PullRetired(p) \/ Activate(p) \/ Abort(p)
    PROVE  TypeOK'
<1> USE DEF canonical
<1>1. proc[p] \in Proc /\ meta \in Metadata /\ proc = [q \in Projector |-> proc[q]]
  BY DEF TypeOK
<1>2. CASE \E r \in Run : Ingest(p, r)
  <2>1. PICK r \in Run : Ingest(p, r) BY <1>2
  <2>2. proc' = [proc EXCEPT ![p] = proc'[p]] /\ proc'[p] \in Proc
    BY <1>1, <2>1, ZenonT(40) DEF Ingest, Proc, Building
  <2>3. QED BY <2>1, <2>2, Stepped DEF Ingest, TypeOK
<1>3. CASE \E n \in Node : WriteDocument(p, n)
  <2>1. PICK n \in Node : WriteDocument(p, n) BY <1>3
  <2>2. PICK g \in Gen : docs' = [docs EXCEPT ![g][n] = proc[p].seen[n]] BY <2>1 DEF WriteDocument
  <2>3. proc[p].seen[n] \in Status BY <1>1 DEF Proc
  <2>4. docs' \in [Gen -> [Node -> Status \cup {None}]] BY <2>2, <2>3 DEF TypeOK
  <2>5. proc' = [proc EXCEPT ![p] = proc'[p]] /\ proc'[p] \in Proc
    BY <1>1, <2>1, ZenonT(40) DEF WriteDocument, Proc, Building
  <2>6. QED BY <2>1, <2>4, <2>5, Stepped DEF WriteDocument, TypeOK
<1>4. CASE WriteProvenance(p)
  <2>1. proc[p].run \in Run /\ proc[p].node \in Node
    BY <1>4, LinksAssumption DEF WriteProvenance, Local, RunOK, AtRun, TypeOK
  <2>2. prov' \in [Gen -> SUBSET (Run \X Node)] BY <2>1, <1>4 DEF WriteProvenance, TypeOK
  <2>3. proc' = [proc EXCEPT ![p] = proc'[p]] /\ proc'[p] \in Proc
    BY <1>1, <1>4 DEF WriteProvenance, Proc, Building
  <2>4. QED BY <1>4, <2>2, <2>3, Stepped DEF WriteProvenance, TypeOK
<1>5. CASE Acknowledge(p)
  <2>1. proc[p].run \in Run BY <1>5 DEF Acknowledge, Local, RunOK, AtRun, TypeOK
  <2>2. QED BY <1>1, <1>5, <2>1, Idle DEF Acknowledge, Return, TypeOK
<1>6. CASE \E g \in Gen : DeleteDocuments(p, g)
  <2>1. PICK g \in Gen : DeleteDocuments(p, g) BY <1>6
  <2>2. docs' \in [Gen -> [Node -> Status \cup {None}]] BY <2>1 DEF DeleteDocuments, TypeOK
  <2>3. proc' = [proc EXCEPT ![p] = proc'[p]] /\ proc'[p] \in Proc
    BY <1>1, <2>1, ZenonT(40) DEF DeleteDocuments, Proc, Cleaning
  <2>4. QED BY <2>1, <2>2, <2>3, Stepped DEF DeleteDocuments, TypeOK
<1>7. CASE \E g \in Gen : Acquire(p, g)
  <2>1. PICK g \in Gen : Acquire(p, g) BY <1>7
  <2>2. meta' \in Metadata BY <1>1, <2>1 DEF Acquire, Metadata
  <2> DEFINE next == [proc[p] EXCEPT !.pc = "list", !.gen = g]
  <2>5. next \in Proc BY <1>1 DEF Proc, Building
  <2>6. proc' = [proc EXCEPT ![p] = next] BY <2>1 DEF Acquire
  <2>3. proc' = [proc EXCEPT ![p] = proc'[p]] /\ proc'[p] \in Proc BY <1>1, <2>5, <2>6
  <2>4. QED BY <2>1, <2>2, <2>3, Stepped DEF Acquire, TypeOK
<1>8. CASE DeleteProvenance(p)
  <2>1. proc' = [proc EXCEPT ![p] = proc'[p]] /\ proc'[p] \in Proc
    BY <1>1, <1>8 DEF DeleteProvenance, Goto, Proc, Cleaning
  <2>2. QED BY <1>8, <2>1, Stepped DEF DeleteProvenance, TypeOK
<1>9. CASE PullRetired(p)
  <2>1. meta' \in Metadata /\ aged' \subseteq Gen
    BY <1>1, <1>9 DEF PullRetired, Metadata, TypeOK
  <2>2. proc' = [proc EXCEPT ![p] = proc'[p]] /\ proc'[p] \in Proc
    BY <1>1, <1>9 DEF PullRetired, Proc, Cleaning
  <2>3. QED BY <1>9, <2>1, <2>2, Stepped DEF PullRetired, TypeOK
<1>10. CASE Activate(p)
  <2>1. meta' \in Metadata
    <3>1. meta.active = proc[p].previous /\ meta.building = proc[p].gen BY <1>10 DEF Activate
    <3>2. p \in Rebuilder
      BY <1>10 DEF Activate, Local, IngesterOK, AtRun, Projector
    <3>3. proc[p].gen \in Gen
      BY <1>10, <3>2 DEF Activate, Local, RebuilderOK, Holds, Building
    <3>4. QED BY <1>1, <1>10, <3>1, <3>3 DEF Activate, Metadata
  <2>2. [IdleProc EXCEPT !.pc = "sweep", !.switched = TRUE] \in Proc
    BY Idle DEF Proc, Cleaning
  <2>3. QED BY <1>1, <1>10, <2>1, <2>2 DEF Activate, TypeOK
<1>11. CASE Abort(p)
  <2>1. p \in Rebuilder BY <1>11 DEF Abort, Local, IngesterOK, AtRun, Projector
  <2>2. proc[p].gen \in Gen BY <1>11, <2>1 DEF Abort, Local, RebuilderOK, Holds
  <2>3. meta' \in Metadata BY <1>1, <1>11, <2>2 DEF Abort, Metadata
  <2>4. QED BY <1>1, <1>11, <2>3, Idle DEF Abort, Return, TypeOK
<1>12. QED
  BY <1>2, <1>3, <1>4, <1>5, <1>6, <1>7, <1>8, <1>9, <1>10, <1>11

LEMMA JudgeTyped ==
    ASSUME TypeOK, JudgesOK, NEW j \in Judge, JudgeStep(j) \/ JudgeFault(j)
    PROVE  TypeOK' /\ judge' = [judge EXCEPT ![j] = judge'[j]]
<1> USE DEF canonical
<1> DEFINE Entry == [pc : JudgePc, node : Node \cup {None}, from : Status,
                     to : Status, gens : SUBSET Gen]
<1>1. judge \in [Judge -> Entry] /\ judge[j] \in Entry BY DEF TypeOK
<1>2. IdleJudge \in Entry BY DEF IdleJudge, JudgePc, Status
<1>3. status \in [Node -> Status] /\ meta \in Metadata BY DEF TypeOK
<1>4. (\E n \in Node : StalePin(j, n) \/ \E to \in Status : SetStatus(j, n, to)) =>
          TypeOK' /\ judge' = [judge EXCEPT ![j] = judge'[j]]
  <2>1. ASSUME NEW n \in Node, StalePin(j, n)
        PROVE  TypeOK' /\ judge' = [judge EXCEPT ![j] = judge'[j]]
    <3>1. judge' = [judge EXCEPT ![j] = judge'[j]] /\ judge'[j] \in Entry
      BY <1>1, <2>1 DEF StalePin, JudgePc, Status
    <3>2. QED BY <1>1, <2>1, <3>1 DEF StalePin, TypeOK
  <2>2. ASSUME NEW n \in Node, NEW to \in Status, SetStatus(j, n, to)
        PROVE  TypeOK' /\ judge' = [judge EXCEPT ![j] = judge'[j]]
    <3>1. judge' = [judge EXCEPT ![j] = judge'[j]] /\ judge'[j] \in Entry
      BY <1>1, <2>2 DEF SetStatus, JudgePc
    <3>2. QED BY <1>1, <2>2, <3>1 DEF SetStatus, TypeOK
  <2>3. QED BY <2>1, <2>2
<1>5. CASE ReadStatus(j)
  BY <1>1, <1>2, <1>3, <1>5 DEF ReadStatus, TypeOK, JudgePc, JudgesOK
<1>6. CASE ChangeStatus(j)
  BY <1>1, <1>2, <1>3, <1>6 DEF ChangeStatus, TypeOK, JudgePc
<1>7. CASE RecordJudgment(j)
  <2>1. judged \in [Judgment -> Nat] BY DEF TypeOK
  <2> DEFINE entry == <<judge[j].node, judge[j].from, judge[j].to>>
  <2>5. entry \in Judgment BY <1>1, <1>7 DEF JudgesOK, RecordJudgment, Judgment
  <2>6. judged' = [judged EXCEPT ![entry] = @ + 1] BY <1>7 DEF RecordJudgment
  <2>2. judged' \in [Judgment -> Nat]
    <3> HIDE DEF entry
    <3>1. QED BY <2>1, <2>5, <2>6
  <2>3. judge' = [judge EXCEPT ![j] = judge'[j]] /\ judge'[j] \in Entry
    BY <1>1, <1>7 DEF RecordJudgment, JudgePc
  <2>4. QED BY <1>7, <2>2, <2>3 DEF RecordJudgment, TypeOK
<1>8. CASE ReadGenerations(j)
  BY <1>1, <1>3, <1>8 DEF ReadGenerations, TypeOK, JudgePc, WrittenGenerations, Metadata
<1>9. CASE SyncDocuments(j)
  <2>1. judge[j].node \in Node BY <1>9 DEF JudgesOK, SyncDocuments
  <2>2. docs' \in [Gen -> [Node -> Status \cup {None}]]
    BY <1>1, <1>9, <2>1 DEF SyncDocuments, TypeOK
  <2>3. QED BY <1>1, <1>2, <1>9, <2>2 DEF SyncDocuments, TypeOK
<1>10. CASE JudgeFault(j)
  BY <1>1, <1>2, <1>10, BoundAssumption DEF JudgeFault, TypeOK
<1>11. QED
  BY <1>4, <1>5, <1>6, <1>7, <1>8, <1>9, <1>10 DEF JudgeStep
-----------------------------------------------------------------------------
(* What is in the generations that are written is never deleted. *)

Keeps == \A g \in WrittenGenerations :
             /\ prov[g] \subseteq prov'[g]
             /\ \A n \in Node : docs[g][n] # None => docs'[g][n] # None

(* A process that writes or deletes. *)
LEMMA WritesKeep ==
    ASSUME TypeOK, NEW p \in Projector, Local(p),
           \/ \E n \in Node : WriteDocument(p, n)
           \/ WriteProvenance(p)
           \/ \E g \in Gen : DeleteDocuments(p, g)
           \/ DeleteProvenance(p)
    PROVE  Keeps
<1>1. WrittenGenerations \subseteq Gen BY DEF WrittenGenerations, TypeOK, Metadata
<1>2. docs \in [Gen -> [Node -> Status \cup {None}]] /\ prov \in [Gen -> SUBSET (Run \X Node)]
  BY DEF TypeOK
<1>3. proc[p] \in Proc BY DEF TypeOK
<1>4. CASE \E n \in Node : WriteDocument(p, n)
  <2>1. PICK n \in Node : WriteDocument(p, n) BY <1>4
  <2>2. PICK g \in Gen : docs' = [docs EXCEPT ![g][n] = proc[p].seen[n]] /\ prov' = prov
    BY <2>1 DEF WriteDocument
  <2>3. proc[p].seen[n] # None BY <1>3, NoneAssumption DEF Proc
  <2>4. QED BY <1>1, <1>2, <2>2, <2>3 DEF Keeps
<1>5. CASE WriteProvenance(p)
  BY <1>1, <1>2, <1>5 DEF WriteProvenance, Keeps
<1>6. CASE \E g \in Gen : DeleteDocuments(p, g)
  BY <1>1, <1>2, <1>6 DEF DeleteDocuments, Keeps, Local, SweepOK
<1>7. CASE DeleteProvenance(p)
  BY <1>1, <1>2, <1>7 DEF DeleteProvenance, Keeps, Local, SweepOK
<1>8. QED BY <1>4, <1>5, <1>6, <1>7

LEMMA JudgeKeeps ==
    ASSUME TypeOK, NEW j \in Judge, JudgeStep(j) \/ JudgeFault(j)
    PROVE  Keeps /\ UNCHANGED <<committed, prov, meta, aged, proc, acked>>
<1>1. WrittenGenerations \subseteq Gen BY DEF WrittenGenerations, TypeOK, Metadata
<1>2. docs \in [Gen -> [Node -> Status \cup {None}]] /\ judge[j].to \in Status BY DEF TypeOK
<1>3. UNCHANGED <<committed, prov, meta, aged, proc, acked>>
  BY DEF JudgeStep, JudgeFault, StalePin, SetStatus, ReadStatus, ChangeStatus, RecordJudgment,
         ReadGenerations, SyncDocuments, canonical
<1>4. CASE SyncDocuments(j)
  BY <1>1, <1>2, <1>3, <1>4, NoneAssumption DEF SyncDocuments, Keeps
<1>5. CASE UNCHANGED docs BY <1>3, <1>5 DEF Keeps
<1>6. SyncDocuments(j) \/ UNCHANGED docs
  BY DEF JudgeStep, JudgeFault, StalePin, SetStatus, ReadStatus, ChangeStatus, RecordJudgment,
         ReadGenerations, canonical
<1>7. QED BY <1>3, <1>4, <1>5, <1>6

LEMMA ProjectedKept ==
    ASSUME TypeOK, Keeps, NEW r \in Run, NEW g \in WrittenGenerations, Projected(r, g)
    PROVE  Projected(r, g)'
BY LinksAssumption DEF Projected, Keeps

-----------------------------------------------------------------------------
(* The invariant after a step of one process that switches nothing. *)

(* What a step of p has to see to. *)
Good(p) ==
    /\ Local(p)' /\ Reaches(p)'
    /\ Holds(p)' => Holds(p)
    /\ Builds(p)' =>
           /\ Builds(p) /\ proc'[p].gen = proc[p].gen
           /\ \A r \in committed : Covered(r, p) => Covered(r, p)'

Kept(p) ==
    /\ proc' = [proc EXCEPT ![p] = proc'[p]]
    /\ meta'.active = meta.active /\ meta'.building = meta.building
    /\ Keeps
    /\ committed \subseteq committed'
    /\ UNCHANGED judge

LEMMA CoveredKept ==
    ASSUME IInv, NEW p \in Projector, Kept(p), NEW q \in Rebuilder \ {p},
           NEW r \in Run, Covered(r, q)
    PROVE  Covered(r, q)'
<1>1. proc'[q] = proc[q] BY DEF Kept, IInv, TypeOK, Projector
<1>2. CASE Builds(q) /\ Projected(r, proc[q].gen)
  <2>1. proc[q].gen \in WrittenGenerations
    BY <1>2, NoneAssumption
       DEF IInv, Local, RebuilderOK, Builds, Holds, WrittenGenerations, Projector
  <2>2. QED BY <1>1, <1>2, <2>1, ProjectedKept DEF Kept, Covered, IInv
<1>3. QED BY <1>1, <1>2 DEF Covered, Builds

LEMMA Assemble ==
    ASSUME IInv, TypeOK', NEW p \in Projector, Kept(p), Good(p),
           \A r \in acked' \ acked : /\ r \in committed /\ Projected(r, meta.active)
                                   /\ \A q \in Rebuilder : Covered(r, q)
    PROVE  IInv'
<1>1. \A q \in Projector \ {p} : proc'[q] = proc[q] BY DEF Kept, IInv, TypeOK
<1>2. WrittenGenerations' = WrittenGenerations /\ meta.active \in WrittenGenerations
  BY NoneAssumption DEF Kept, WrittenGenerations, IInv, TypeOK, Metadata
<1>3. committed \subseteq Run BY DEF IInv, TypeOK
<1>4. \A r \in committed : \A q \in Rebuilder : Covered(r, q) => Covered(r, q)'
  <2>1. ASSUME NEW r \in committed, NEW q \in Rebuilder, Covered(r, q) PROVE Covered(r, q)'
    <3>1. CASE q = p BY <2>1, <3>1 DEF Good, Covered, Builds
    <3>2. CASE q # p BY <1>3, <2>1, <3>2, CoveredKept
    <3>3. QED BY <3>1, <3>2
  <2>2. QED BY <2>1
<1>5. \A r \in committed : Projected(r, meta.active) => Projected(r, meta.active)'
  BY <1>2, <1>3, ProjectedKept DEF Kept, IInv
<1>6. JudgesOK' BY DEF IInv, JudgesOK, Kept
<1>7. Alone'
  BY <1>1 DEF IInv, Alone, Holds, Good, Projector
<1>8. Retrievable' BY <1>4, <1>5 DEF IInv, Retrievable, Kept
<1>9. ASSUME NEW q \in Projector PROVE Local(q)' /\ Reaches(q)'
  <2>1. CASE q = p BY <2>1 DEF Good
  <2>2. CASE q # p
    <3>1. proc'[q] = proc[q] /\ Local(q) /\ Reaches(q) BY <1>1, <2>2 DEF IInv
    <3>2. Local(q)'
      BY <1>2, <3>1 DEF Kept, Local, RunOK, SweepOK, IngesterOK, RebuilderOK, Holds
    <3>3. ASSUME q \in Ingester, proc[q].pc \in {"write", "prov"}
          PROVE  Reaches(q)'
      <4>1. proc[q].run \in committed BY <3>1, <3>3 DEF Local, RunOK, AtRun
      <4>2. (meta.active \in proc[q].gens \/ Projected(proc[q].run, meta.active))'
        BY <1>5, <3>1, <3>3, <4>1 DEF Reaches, Kept
      <4>3. ASSUME NEW x \in Rebuilder, Builds(x)', proc'[x].gen \notin proc'[q].gens
            PROVE  Covered(proc[q].run, x)'
        <5>1. Builds(x) /\ proc'[x].gen = proc[x].gen
          BY <1>1, <4>3 DEF Good, Builds, Projector
        <5>2. Covered(proc[q].run, x) BY <3>1, <3>3, <4>3, <5>1 DEF Reaches
        <5>3. QED BY <1>4, <3>1, <4>1, <5>2
      <4>4. QED BY <4>2, <4>3 DEF Reaches
    <3>4. QED BY <3>1, <3>2, <3>3 DEF Reaches
  <2>3. QED BY <2>1, <2>2
<1>10. QED BY <1>6, <1>7, <1>8, <1>9 DEF IInv
LEMMA Kinds ==
    ASSUME IInv, NEW p \in Projector
    PROVE  /\ Local(p) /\ Reaches(p) /\ proc[p] \in Proc
           /\ p \notin Rebuilder => p \in Ingester /\ proc[p].pc \in AtRun \cup {"idle"}
           /\ p \in Rebuilder => p \notin Ingester
BY ProcessAssumption DEF IInv, TypeOK, Local, IngesterOK, Projector

(* A process that returns has nothing left to see to. *)
LEMMA AtRest ==
    ASSUME NEW p \in Projector, proc'[p] = IdleProc
    PROVE  Good(p)
<1>1. /\ proc'[p].pc = "idle" /\ proc'[p].drop = {} /\ proc'[p].target = None
      /\ proc'[p].attempt = 0 /\ proc'[p].todo = {}
  BY DEF IdleProc
<1>2. ~Holds(p)' /\ ~Builds(p)' BY <1>1 DEF Holds, Builds, Building
<1>3. Reaches(p)' BY <1>1 DEF Reaches
<1>4. RunOK(p)' /\ IngesterOK(p)' BY <1>1 DEF RunOK, IngesterOK, AtRun
<1>5. SweepOK(p)' BY <1>1 DEF SweepOK, WrittenGenerations
<1>6. RebuilderOK(p)' BY <1>1, <1>2 DEF RebuilderOK
<1>7. QED BY <1>2, <1>3, <1>4, <1>5, <1>6 DEF Good, Local

(* A rebuild that fails keeps its lease until it has given it back. *)
LEMMA Aborting ==
    ASSUME IInv, NEW p \in Rebuilder, Builds(p), UNCHANGED meta,
           proc' = [proc EXCEPT ![p].pc = "abort"], committed \subseteq committed'
    PROVE  Good(p)
<1>1. p \in Projector BY DEF Projector
<1>2. proc'[p] = [proc[p] EXCEPT !.pc = "abort"] BY <1>1 DEF IInv, TypeOK
<1>3. /\ proc'[p].pc = "abort" /\ proc'[p].gen = proc[p].gen /\ proc'[p].drop = proc[p].drop
      /\ proc'[p].target = proc[p].target /\ proc'[p].todo = proc[p].todo
  BY <1>1, <1>2, Kinds DEF Proc
<1>4. ~Builds(p)' /\ Holds(p)' /\ Holds(p) BY <1>3 DEF Holds, Builds, Building
<1>5. SweepOK(p)' BY <1>1, <1>3, Kinds DEF SweepOK, WrittenGenerations, Local
<1>6. RebuilderOK(p)' BY <1>1, <1>3, <1>4, Kinds DEF RebuilderOK, Local
<1>7. QED BY <1>1, <1>3, <1>4, <1>5, <1>6, Kinds DEF Good, Local, Reaches, RunOK, IngesterOK, AtRun

LEMMA FailedGood ==
    ASSUME IInv, NEW p \in Projector, UNCHANGED meta, committed \subseteq committed', Failed(p)
    PROVE  Good(p)
<1>1. CASE p \in Rebuilder /\ proc[p].pc \in Building
  BY <1>1, Aborting DEF Failed, Goto, Builds
<1>2. CASE ~(p \in Rebuilder /\ proc[p].pc \in Building)
  <2>1. proc'[p] = IdleProc BY <1>2 DEF Failed, Return, IInv, TypeOK
  <2>2. QED BY <2>1, AtRest
<1>3. QED BY <1>1, <1>2

(* The steps of both kinds of process at a run. *)
LEMMA ProjectMoves ==
    ASSUME IInv, NEW p \in Projector, Load(p) \/ LoadMetadata(p) \/ NextGeneration(p)
    PROVE  Good(p)
<1>1. Local(p) /\ Reaches(p) /\ proc[p] \in Proc BY Kinds
<1>2. proc[p].pc \in {"load", "meta", "write"} /\ proc[p].pc \in AtRun
  BY DEF Load, LoadMetadata, NextGeneration, AtRun
<1>3. UNCHANGED <<committed, docs, prov, meta>>
  BY DEF Load, LoadMetadata, NextGeneration, canonical
<1>4. CASE Load(p)
  <2>1. /\ proc'[p].pc = IF p \in Ingester THEN "meta" ELSE "write"
        /\ proc'[p].gens = IF p \in Ingester THEN {} ELSE {proc[p].gen}
        /\ proc'[p].left = Links[proc[p].run]
    BY <1>1, <1>4 DEF Load, Proc, IInv, TypeOK
  <2>2. /\ proc'[p].run = proc[p].run /\ proc'[p].gen = proc[p].gen
        /\ proc'[p].drop = proc[p].drop /\ proc'[p].target = proc[p].target
        /\ proc'[p].todo = proc[p].todo /\ proc'[p].attempt = proc[p].attempt
    BY <1>1, <1>4 DEF Load, Proc, IInv, TypeOK
  <2>3. CASE p \in Ingester
    <3>1. proc'[p].pc = "meta" /\ p \notin Rebuilder BY <2>1, <2>3, Kinds
    <3>2. QED
      BY <1>1, <1>2, <1>3, <2>1, <2>2, <2>3, <3>1
         DEF Good, Local, RunOK, SweepOK, IngesterOK, RebuilderOK, Reaches, Holds, Builds,
             AtRun, WrittenGenerations
  <2>4. CASE p \notin Ingester
    <3>1. proc'[p].pc = "write" /\ proc'[p].gens = {proc[p].gen} /\ p \in Rebuilder
      BY <2>1, <2>4, Kinds
    <3>2. Holds(p) /\ Builds(p) /\ Holds(p)' /\ Builds(p)'
      BY <1>4, <3>1 DEF Load, Holds, Builds, Building
    <3>3. RunOK(p)' /\ SweepOK(p)' /\ IngesterOK(p)' /\ Reaches(p)'
      BY <1>1, <1>2, <1>3, <2>1, <2>2, <2>4, <3>1
         DEF Local, RunOK, SweepOK, IngesterOK, Reaches, AtRun, WrittenGenerations
    <3>4. RebuilderOK(p)'
      BY <1>1, <1>3, <1>4, <2>2, <3>1, <3>2 DEF Load, Local, RebuilderOK
    <3>5. \A r \in committed : Covered(r, p) => Covered(r, p)'
      BY <1>3, <1>4, <2>2, <3>2 DEF Covered, Projected, Load
    <3>6. QED BY <2>2, <3>2, <3>3, <3>4, <3>5 DEF Good, Local
  <2>5. QED BY <2>3, <2>4
<1>5. CASE LoadMetadata(p)
  <2>1. p \in Ingester /\ p \notin Rebuilder
    BY <1>1, <1>5, Kinds DEF LoadMetadata, Local, RebuilderOK
  <2>2. proc'[p] = [proc[p] EXCEPT !.pc = "write", !.gens = WrittenGenerations]
    BY <1>5 DEF LoadMetadata, IInv, TypeOK
  <2>3. /\ proc'[p].pc = "write" /\ proc'[p].gens = WrittenGenerations
        /\ proc'[p].run = proc[p].run /\ proc'[p].left = proc[p].left
        /\ proc'[p].drop = proc[p].drop /\ proc'[p].target = proc[p].target
    BY <1>1, <2>2 DEF Proc
  <2>4. Reaches(p)'
    <3>1. meta.active \in WrittenGenerations
      BY NoneAssumption DEF WrittenGenerations, IInv, TypeOK, Metadata
    <3>2. ASSUME NEW q \in Rebuilder, Builds(q)' PROVE proc'[q].gen \in WrittenGenerations
      <4>1. proc'[q] = proc[q] /\ q \in Projector
        BY <1>5, <2>1, <3>2, Kinds DEF LoadMetadata, IInv, TypeOK, Projector
      <4>2. QED
        BY <3>2, <4>1, NoneAssumption, Kinds
           DEF Local, RebuilderOK, Builds, Holds, WrittenGenerations
    <3>3. QED BY <1>3, <2>3, <3>1, <3>2 DEF Reaches
  <2>5. RunOK(p)'
    <3>1. proc[p].run \in committed /\ proc[p].left \subseteq Links[proc[p].run]
      BY <1>1, <1>5 DEF LoadMetadata, Local, RunOK, AtRun
    <3>2. QED BY <1>3, <2>3, <3>1 DEF RunOK
  <2>6. SweepOK(p)' BY <1>1, <1>3, <2>3 DEF Local, SweepOK, WrittenGenerations
  <2>7. QED
    BY <2>1, <2>3, <2>4, <2>5, <2>6 DEF Good, Local, IngesterOK, RebuilderOK, Holds, Builds, AtRun
<1>6. CASE NextGeneration(p)
  <2>1. PICK g \in Gen :
               /\ Onto(p, g) /\ Projected(proc[p].run, g) /\ proc[p].gens # {g}
               /\ proc' = [proc EXCEPT ![p].gens = @ \ {g}, ![p].left = Links[proc[p].run]]
    BY <1>6 DEF NextGeneration
  <2>2. p \in Ingester /\ p \notin Rebuilder
    BY <1>1, <1>6, <2>1, Kinds DEF NextGeneration, Local, RebuilderOK, Onto, IsSmallest
  <2>3. /\ proc'[p].pc = proc[p].pc /\ proc'[p].gens = proc[p].gens \ {g}
        /\ proc'[p].run = proc[p].run /\ proc'[p].left = Links[proc[p].run]
        /\ proc'[p].drop = proc[p].drop /\ proc'[p].target = proc[p].target
    BY <1>1, <2>1 DEF Proc, IInv, TypeOK
  <2>4. Reaches(p)'
    <3>1. (meta.active \in proc[p].gens \/ Projected(proc[p].run, meta.active))'
      BY <1>1, <1>3, <1>6, <2>1, <2>2, <2>3 DEF Reaches, NextGeneration, Projected
    <3>2. ASSUME NEW q \in Rebuilder, Builds(q)', proc'[q].gen \notin proc'[p].gens
          PROVE  Covered(proc[p].run, q)'
      <4>1. proc'[q] = proc[q] /\ Builds(q)
        BY <2>1, <2>2, <3>2 DEF IInv, TypeOK, Projector, Builds
      <4>2. proc[q].gen # g => Covered(proc[p].run, q)
        BY <1>1, <1>6, <2>2, <2>3, <3>2, <4>1 DEF Reaches, NextGeneration
      <4>3. Covered(proc[p].run, q) BY <2>1, <4>2 DEF Covered
      <4>4. QED BY <1>3, <2>3, <4>1, <4>3 DEF Covered, Projected, Builds
    <3>3. QED BY <3>1, <3>2 DEF Reaches
  <2>5. QED
    BY <1>1, <1>2, <1>3, <1>6, <2>2, <2>3, <2>4
       DEF NextGeneration, Good, Local, RunOK, SweepOK, IngesterOK, RebuilderOK, Holds, Builds,
           AtRun, WrittenGenerations
<1>7. QED BY <1>4, <1>5, <1>6
(* The steps of a rebuild that change nothing but its own state. *)
LEMMA RebuildMoves ==
    ASSUME IInv, NEW p \in Rebuilder,
           \/ StartCleanup(p) \/ Cleaned(p) \/ ReadPrevious(p) \/ AlreadyInProgress(p)
           \/ OutOfIds(p) \/ ListCommitted(p) \/ NextRun(p) \/ RunRebuilt(p)
           \/ CountNodes(p) \/ CountLinks(p) \/ CountDocuments(p)
           \/ Complete(p) \/ TryAgain(p) \/ GiveUp(p) \/ ChangedDuringRebuild(p)
    PROVE  Good(p)
<1>1. /\ p \in Projector /\ Local(p) /\ proc[p] \in Proc /\ p \notin Ingester
      /\ proc = [q \in Projector |-> proc[q]]
  BY Kinds DEF Projector, IInv, TypeOK
<1>2. UNCHANGED <<committed, docs, prov, meta>>
  BY DEF StartCleanup, Cleaned, ReadPrevious, AlreadyInProgress, OutOfIds, ListCommitted, NextRun,
         RunRebuilt, CountNodes, CountLinks, CountDocuments, Complete, TryAgain, GiveUp, Compared,
         ChangedDuringRebuild, canonical
<1> DEFINE Same == proc'[p].gen = proc[p].gen /\ proc'[p].todo = proc[p].todo
           Settled == SweepOK(p)' /\ RunOK(p)' /\ RebuilderOK(p)'
<1>3. Reaches(p)' /\ IngesterOK(p)' BY <1>1 DEF Reaches, IngesterOK
<1>4. Return(p) => Good(p) BY <1>1, AtRest DEF Return
<1>5. Builds(p) /\ Goto(p, "abort") => Good(p) BY <1>2, Aborting DEF Goto
<1>6. CASE StartCleanup(p)
  <2>1. /\ proc'[p].pc = "clean" /\ proc'[p].drop = Droppable /\ proc'[p].target = proc[p].target
        /\ proc'[p].attempt = proc[p].attempt /\ Same
    BY <1>1, <1>6 DEF StartCleanup, Proc
  <2>2. ~Holds(p) /\ ~Holds(p)' /\ ~Builds(p)' BY <1>6, <2>1 DEF StartCleanup, Holds, Builds, Building
  <2>3. Settled
    BY <1>1, <1>2, <2>1, <2>2
       DEF Local, RunOK, SweepOK, RebuilderOK, Droppable, WrittenGenerations, AtRun
  <2>4. QED BY <1>3, <2>2, <2>3 DEF Good, Local
<1>7. CASE Cleaned(p)
  <2>1. CASE Return(p) BY <1>4, <2>1
  <2>2. CASE Goto(p, "previous")
    <3>1. /\ proc'[p].pc = "previous" /\ proc'[p].drop = proc[p].drop
          /\ proc'[p].target = proc[p].target /\ proc'[p].attempt = proc[p].attempt /\ Same
      BY <1>1, <2>2 DEF Goto, Proc
    <3>2. ~Holds(p) /\ ~Holds(p)' /\ ~Builds(p)' BY <1>7, <3>1 DEF Cleaned, Holds, Builds, Building
    <3>3. Settled
      BY <1>1, <1>2, <3>1, <3>2 DEF Local, RunOK, SweepOK, RebuilderOK, WrittenGenerations, AtRun
    <3>4. QED BY <1>3, <3>2, <3>3 DEF Good, Local
  <2>3. QED BY <1>7, <2>1, <2>2 DEF Cleaned
<1>8. CASE ReadPrevious(p)
  <2>1. /\ proc'[p].pc = "acquire" /\ proc'[p].drop = proc[p].drop
        /\ proc'[p].target = proc[p].target /\ proc'[p].attempt = proc[p].attempt /\ Same
    BY <1>1, <1>8 DEF ReadPrevious, Proc
  <2>2. ~Holds(p) /\ ~Holds(p)' /\ ~Builds(p)' BY <1>8, <2>1 DEF ReadPrevious, Holds, Builds, Building
  <2>3. Settled
    BY <1>1, <1>2, <2>1, <2>2 DEF Local, RunOK, SweepOK, RebuilderOK, WrittenGenerations, AtRun
  <2>4. QED BY <1>3, <2>2, <2>3 DEF Good, Local
<1>9. CASE AlreadyInProgress(p) \/ OutOfIds(p)
  BY <1>4, <1>9 DEF AlreadyInProgress, OutOfIds
<1>10. CASE ListCommitted(p)
  <2>1. /\ proc'[p].pc = "next" /\ proc'[p].drop = proc[p].drop
        /\ proc'[p].target = proc[p].target /\ proc'[p].gen = proc[p].gen
        /\ proc'[p].todo = committed
    BY <1>1, <1>10 DEF ListCommitted, Proc
  <2>2. Holds(p) /\ Builds(p) /\ Holds(p)' BY <1>10, <2>1 DEF ListCommitted, Holds, Builds, Building
  <2>3. Settled
    BY <1>1, <1>2, <2>1, <2>2 DEF Local, RunOK, SweepOK, RebuilderOK, WrittenGenerations, AtRun
  <2>4. \A r \in committed : Covered(r, p)' BY <2>1 DEF Covered
  <2>5. QED BY <1>3, <2>1, <2>2, <2>3, <2>4 DEF Good, Local
<1>11. CASE NextRun(p)
  <2>1. Holds(p) /\ Builds(p) BY <1>11 DEF NextRun, Holds, Builds, Building
  <2>2. CASE proc[p].todo = {} /\ Goto(p, "nodes")
    <3>1. /\ proc'[p].pc = "nodes" /\ proc'[p].drop = proc[p].drop
          /\ proc'[p].target = proc[p].target /\ Same
      BY <1>1, <2>2 DEF Goto, Proc
    <3>2. Holds(p)' BY <3>1 DEF Holds, Building
    <3>3. Settled
      BY <1>1, <1>2, <2>1, <2>2, <3>1, <3>2
         DEF Local, RunOK, SweepOK, RebuilderOK, WrittenGenerations, AtRun
    <3>4. \A r \in committed : Covered(r, p) => Covered(r, p)'
      BY <1>2, <1>11, <2>1, <2>2, <3>1 DEF Covered, Projected, NextRun
    <3>5. QED BY <1>3, <2>1, <3>1, <3>2, <3>3, <3>4 DEF Good, Local
  <2>3. CASE \E r \in proc[p].todo : proc' = [proc EXCEPT ![p].pc = "load", ![p].run = r]
    <3>1. PICK r \in proc[p].todo : proc' = [proc EXCEPT ![p].pc = "load", ![p].run = r]
      BY <2>3
    <3>2. /\ proc'[p].pc = "load" /\ proc'[p].run = r /\ proc'[p].drop = proc[p].drop
          /\ proc'[p].target = proc[p].target /\ Same
      BY <1>1, <3>1 DEF Proc
    <3>3. Holds(p)' BY <3>2 DEF Holds, Building
    <3>4. Settled
      BY <1>1, <1>2, <2>1, <3>2, <3>3
         DEF Local, RunOK, SweepOK, RebuilderOK, WrittenGenerations, AtRun
    <3>5. \A x \in committed : Covered(x, p) => Covered(x, p)'
      BY <1>2, <1>11, <2>1, <3>2 DEF Covered, Projected, NextRun
    <3>6. QED BY <1>3, <2>1, <3>2, <3>3, <3>4, <3>5 DEF Good, Local
  <2>4. QED BY <1>11, <2>2, <2>3 DEF NextRun
<1>12. CASE RunRebuilt(p)
  <2>1. /\ proc'[p].pc = "next" /\ proc'[p].drop = proc[p].drop
        /\ proc'[p].target = proc[p].target /\ proc'[p].gen = proc[p].gen
        /\ proc'[p].todo = proc[p].todo \ {proc[p].run}
    BY <1>1, <1>12 DEF RunRebuilt, Proc
  <2>2. Holds(p) /\ Builds(p) /\ Holds(p)' BY <1>12, <2>1 DEF RunRebuilt, Holds, Builds, Building
  <2>3. Settled
    BY <1>1, <1>2, <2>1, <2>2 DEF Local, RunOK, SweepOK, RebuilderOK, WrittenGenerations, AtRun
  <2>4. \A r \in committed : Covered(r, p) => Covered(r, p)'
    BY <1>2, <1>12, <2>1, <2>2 DEF Covered, Projected, RunRebuilt
  <2>5. QED BY <1>3, <2>1, <2>2, <2>3, <2>4 DEF Good, Local
<1>13. CASE CountNodes(p) \/ CountLinks(p) \/ CountDocuments(p) \/ Complete(p) \/ TryAgain(p)
  <2>1. /\ proc[p].pc \in {"nodes", "links", "docs", "rows"}
        /\ proc'[p].pc \in {"links", "docs", "rows", "activate", "list"}
        /\ proc'[p].drop = proc[p].drop /\ proc'[p].target = proc[p].target
        /\ proc'[p].attempt = proc[p].attempt /\ Same
        /\ proc'[p].pc = "list" => proc[p].attempt < Attempts
    BY <1>1, <1>13 DEF CountNodes, CountLinks, CountDocuments, Complete, TryAgain, Compared, Proc
  <2>2. Holds(p) /\ Builds(p) /\ Holds(p)' BY <2>1 DEF Holds, Builds, Building
  <2>3. Settled
    BY <1>1, <1>2, <2>1, <2>2 DEF Local, RunOK, SweepOK, RebuilderOK, WrittenGenerations, AtRun
  <2>4. \A r \in committed : Covered(r, p) => Covered(r, p)'
    BY <1>2, <2>1, <2>2 DEF Covered, Projected
  <2>5. QED BY <1>3, <2>1, <2>2, <2>3, <2>4 DEF Good, Local
<1>14. CASE GiveUp(p)
  <2>1. /\ proc[p].pc = "rows" /\ proc'[p].pc = "abort"
        /\ proc'[p].drop = proc[p].drop /\ proc'[p].target = proc[p].target /\ Same
    BY <1>1, <1>14 DEF GiveUp, Compared, Proc
  <2>2. Holds(p) /\ Holds(p)' /\ ~Builds(p)' BY <2>1 DEF Holds, Builds, Building
  <2>3. Settled
    BY <1>1, <1>2, <2>1, <2>2 DEF Local, RunOK, SweepOK, RebuilderOK, WrittenGenerations, AtRun
  <2>4. QED BY <1>3, <2>2, <2>3 DEF Good, Local
<1>15. CASE ChangedDuringRebuild(p)
  BY <1>5, <1>15 DEF ChangedDuringRebuild, Builds, Building
<1>16. QED
  BY <1>6, <1>7, <1>8, <1>9, <1>10, <1>11, <1>12, <1>13, <1>14, <1>15

(* A fault ends what was going on, or spoils a count. *)
LEMMA FaultGood ==
    ASSUME IInv, NEW p \in Projector, Fault(p)
    PROVE  Good(p)
<1>1. UNCHANGED <<committed, docs, prov, meta>> BY DEF Fault, canonical
<1>2. CASE Failed(p) BY <1>1, <1>2, FailedGood
<1>3. CASE Return(p) BY <1>3, AtRest DEF Return, IInv, TypeOK
<1>4. CASE /\ proc[p].pc \in {"docs", "rows"}
           /\ proc' = [proc EXCEPT ![p].pc = "rows", ![p].agree = FALSE]
  <2>1. p \in Rebuilder /\ p \notin Ingester BY <1>4, Kinds DEF AtRun
  <2>2. /\ proc'[p].pc = "rows" /\ proc'[p].drop = proc[p].drop /\ proc'[p].target = proc[p].target
        /\ proc'[p].attempt = proc[p].attempt
        /\ proc'[p].gen = proc[p].gen /\ proc'[p].todo = proc[p].todo
    BY <1>4, Kinds DEF Proc, IInv, TypeOK
  <2>3. Holds(p) /\ Builds(p) /\ Holds(p)' BY <1>4, <2>1, <2>2 DEF Holds, Builds, Building
  <2>4. SweepOK(p)' /\ RunOK(p)' /\ RebuilderOK(p)'
    BY <1>1, <1>4, <2>1, <2>2, <2>3, Kinds
       DEF Local, RunOK, SweepOK, RebuilderOK, WrittenGenerations, AtRun
  <2>5. \A r \in committed : Covered(r, p) => Covered(r, p)'
    BY <1>1, <1>4, <2>2, <2>3 DEF Covered, Projected
  <2>6. QED
    BY <2>1, <2>2, <2>3, <2>4, <2>5 DEF Good, Local, Reaches, IngesterOK
<1>5. QED BY <1>2, <1>3, <1>4 DEF Fault
-----------------------------------------------------------------------------
(* The steps that write, delete and commit. *)

LEMMA IngestGood ==
    ASSUME IInv, NEW p \in Ingester, NEW r \in Run, Ingest(p, r)
    PROVE  Good(p)
<1>1. p \in Projector /\ p \notin Rebuilder /\ Local(p) /\ proc[p] \in Proc
  BY Kinds, ProcessAssumption DEF Projector
<1>2. /\ proc'[p].pc = "load" /\ proc'[p].run = r /\ proc'[p].drop = proc[p].drop
      /\ proc'[p].target = proc[p].target
  BY <1>1 DEF Ingest, Proc, IInv, TypeOK
<1>3. UNCHANGED meta /\ r \in committed' BY DEF Ingest
<1>4. RunOK(p)' /\ SweepOK(p)' /\ IngesterOK(p)' /\ RebuilderOK(p)'
  BY <1>1, <1>2, <1>3 DEF Local, RunOK, SweepOK, IngesterOK, RebuilderOK, WrittenGenerations, AtRun
<1>5. QED BY <1>1, <1>2, <1>4 DEF Good, Local, Reaches, Holds, Builds

(* A write of one document, or of its provenance, leaves the process at its run. *)
LEMMA WriteGood ==
    ASSUME IInv, NEW p \in Projector, Kept(p),
           UNCHANGED <<committed, meta>>,
           proc[p].pc \in {"write", "prov"}, proc'[p].pc \in {"write", "prov"},
           proc'[p].run = proc[p].run, proc'[p].gens = proc[p].gens,
           proc'[p].gen = proc[p].gen, proc'[p].todo = proc[p].todo,
           proc'[p].drop = proc[p].drop, proc'[p].target = proc[p].target,
           proc'[p].left \subseteq proc[p].left,
           proc'[p].pc = "prov" => proc'[p].node \in Links[proc[p].run]
    PROVE  Good(p)
<1>1. proc[p].run \in committed /\ committed \subseteq Run BY Kinds DEF Local, RunOK, AtRun, IInv, TypeOK
<1>2. Local(p)'
  <2>1. Holds(p)' <=> Holds(p) BY DEF Holds, Building
  <2>2. RunOK(p)' BY Kinds DEF Local, RunOK, AtRun
  <2>3. SweepOK(p)' /\ IngesterOK(p)'
    BY Kinds DEF Local, SweepOK, IngesterOK, WrittenGenerations, AtRun
  <2>4. RebuilderOK(p)'
    BY <2>1, Kinds DEF Local, RebuilderOK, Holds, Building
  <2>5. QED BY <2>2, <2>3, <2>4 DEF Local
<1>3. \A r \in committed : Projected(r, meta.active) => Projected(r, meta.active)'
  <2>1. meta.active \in WrittenGenerations
    BY NoneAssumption DEF WrittenGenerations, IInv, TypeOK, Metadata
  <2>2. QED BY <1>1, <2>1, ProjectedKept DEF Kept, IInv
<1>4. Reaches(p)'
  <2> SUFFICES ASSUME p \in Ingester PROVE Reaches(p)' BY DEF Reaches
  <2>1. p \notin Rebuilder /\ Reaches(p) BY Kinds
  <2>2. (meta.active \in proc[p].gens \/ Projected(proc[p].run, meta.active))'
    BY <1>1, <1>3, <2>1 DEF Reaches
  <2>3. ASSUME NEW q \in Rebuilder, Builds(q)', proc'[q].gen \notin proc'[p].gens
        PROVE  Covered(proc[p].run, q)'
    <3>1. proc'[q] = proc[q] /\ Builds(q) /\ q # p
      BY <2>1, <2>3 DEF Kept, IInv, TypeOK, Projector, Builds
    <3>2. Covered(proc[p].run, q) BY <2>1, <2>3, <3>1 DEF Reaches
    <3>3. \A r \in Run : Covered(r, q) => Covered(r, q)' BY <3>1, CoveredKept
    <3>4. QED BY <1>1, <3>2, <3>3
  <2>4. QED BY <2>2, <2>3 DEF Reaches
<1>5. Holds(p)' => Holds(p) BY DEF Holds, Building
<1>6. Builds(p)' => Builds(p) BY DEF Builds, Building
<1>7. ASSUME NEW r \in committed, Builds(p), Covered(r, p) PROVE Covered(r, p)'
  <2>1. proc[p].gen \in WrittenGenerations
    BY <1>7, Kinds, NoneAssumption DEF Local, RebuilderOK, Builds, Holds, WrittenGenerations
  <2>2. Projected(r, proc[p].gen) => Projected(r, proc[p].gen)'
    BY <1>1, <2>1, ProjectedKept DEF Kept, IInv
  <2>3. QED BY <1>7, <2>2 DEF Covered
<1>8. QED BY <1>2, <1>4, <1>5, <1>6, <1>7 DEF Good

LEMMA ProjectWrites ==
    ASSUME IInv, NEW p \in Projector, (\E n \in Node : WriteDocument(p, n)) \/ WriteProvenance(p)
    PROVE  Kept(p) /\ Good(p)
<1>1. Local(p) /\ proc[p] \in Proc /\ proc = [q \in Projector |-> proc[q]]
  BY Kinds DEF IInv, TypeOK
<1>2. UNCHANGED <<committed, meta, judge>> BY DEF WriteDocument, WriteProvenance, canonical
<1>3. Keeps BY <1>1, WritesKeep DEF IInv
<1>4. CASE \E n \in Node : WriteDocument(p, n)
  <2>1. PICK n \in Node : WriteDocument(p, n) BY <1>4
  <2>2. /\ proc[p].pc = "write" /\ n \in proc[p].left
        /\ proc' = [proc EXCEPT ![p] = [proc[p] EXCEPT !.pc = "prov", !.node = n]]
    BY <2>1 DEF WriteDocument
  <2>3. /\ proc'[p].pc = "prov" /\ proc'[p].node = n /\ proc'[p].run = proc[p].run
        /\ proc'[p].gens = proc[p].gens /\ proc'[p].gen = proc[p].gen
        /\ proc'[p].todo = proc[p].todo /\ proc'[p].drop = proc[p].drop
        /\ proc'[p].target = proc[p].target /\ proc'[p].left = proc[p].left
    BY <1>1, <2>2 DEF Proc
  <2>4. Kept(p) BY <1>1, <1>2, <1>3, <2>2 DEF Kept
  <2>5. n \in Links[proc[p].run] BY <1>1, <2>2 DEF Local, RunOK
  <2>6. QED BY <1>2, <2>2, <2>3, <2>4, <2>5, WriteGood
<1>5. CASE WriteProvenance(p)
  <2>1. /\ proc[p].pc = "prov"
        /\ proc' = [proc EXCEPT ![p] = [proc[p] EXCEPT !.pc = "write", !.node = None,
                                                       !.left = @ \ {proc[p].node}]]
    BY <1>5 DEF WriteProvenance
  <2>2. /\ proc'[p].pc = "write" /\ proc'[p].run = proc[p].run
        /\ proc'[p].gens = proc[p].gens /\ proc'[p].gen = proc[p].gen
        /\ proc'[p].todo = proc[p].todo /\ proc'[p].drop = proc[p].drop
        /\ proc'[p].target = proc[p].target /\ proc'[p].left \subseteq proc[p].left
    BY <1>1, <2>1 DEF Proc
  <2>3. Kept(p) BY <1>1, <1>2, <1>3, <2>1 DEF Kept
  <2>4. QED BY <1>2, <2>1, <2>2, <2>3, WriteGood
<1>6. QED BY <1>4, <1>5

(* The steps of a cleanup are outside the lease. *)
LEMMA SweepGood ==
    ASSUME IInv, NEW p \in Rebuilder,
           (\E g \in Gen : DeleteDocuments(p, g)) \/ DeleteProvenance(p) \/ PullRetired(p)
    PROVE  Kept(p) /\ Good(p)
<1>1. /\ p \in Projector /\ p \notin Ingester /\ Local(p) /\ proc[p] \in Proc
      /\ proc = [q \in Projector |-> proc[q]]
  BY Kinds DEF Projector, IInv, TypeOK
<1>2. /\ UNCHANGED <<committed, judge>>
      /\ meta'.active = meta.active /\ meta'.building = meta.building
  BY DEF DeleteDocuments, DeleteProvenance, PullRetired, canonical, IInv, TypeOK, Metadata
<1>3. Keeps
  <2>1. PullRetired(p) => Keeps BY DEF PullRetired, Keeps
  <2>2. QED BY <1>1, <2>1, WritesKeep DEF IInv
<1>4. /\ proc[p].pc \in Cleaning /\ proc'[p].pc \in Cleaning
      /\ proc' = [proc EXCEPT ![p] = proc'[p]]
      /\ proc'[p].todo = proc[p].todo /\ proc'[p].attempt = proc[p].attempt
      /\ proc'[p].drop \cup {proc'[p].target} \subseteq proc[p].drop \cup {proc[p].target, None}
  <2>1. CASE \E g \in Gen : DeleteDocuments(p, g)
    <3>1. PICK g \in Gen : DeleteDocuments(p, g) BY <2>1
    <3>2. proc' = [proc EXCEPT ![p] = [proc[p] EXCEPT !.pc = "clean_prov", !.target = g]]
      BY <3>1 DEF DeleteDocuments
    <3>3. g \in proc[p].drop /\ proc[p].pc = "clean" BY <3>1 DEF DeleteDocuments
    <3>4. QED BY <1>1, <3>2, <3>3 DEF Proc, Cleaning
  <2>2. CASE DeleteProvenance(p) BY <1>1, <2>2 DEF DeleteProvenance, Goto, Proc, Cleaning
  <2>3. CASE PullRetired(p) BY <1>1, <2>3 DEF PullRetired, Proc, Cleaning
  <2>4. QED BY <2>1, <2>2, <2>3
<1>5. ~Holds(p) /\ ~Holds(p)' /\ ~Builds(p)' BY <1>4 DEF Holds, Builds, Building, Cleaning
<1>6. RunOK(p)' BY <1>4 DEF RunOK, AtRun, Cleaning
<1>7. SweepOK(p)' BY <1>1, <1>2, <1>4 DEF Local, SweepOK, WrittenGenerations
<1>8. RebuilderOK(p)' BY <1>1, <1>2, <1>4, <1>5 DEF Local, RebuilderOK, Cleaning
<1>9. QED
  BY <1>1, <1>2, <1>3, <1>4, <1>5, <1>6, <1>7, <1>8 DEF Good, Kept, Local, Reaches, IngesterOK

-----------------------------------------------------------------------------
(* The receipt, and the steps that take and give back the lease. *)

LEMMA Receipt ==
    ASSUME IInv, TypeOK', NEW p \in Ingester, Acknowledge(p)
    PROVE  IInv'
<1>1. p \in Projector /\ Local(p) /\ Reaches(p) BY Kinds DEF Projector
<1>2. PICK g \in Gen : proc[p].gens = {g} /\ Projected(proc[p].run, g) BY DEF Acknowledge
<1>3. /\ proc[p].run \in committed /\ Projected(proc[p].run, meta.active)
      /\ \A q \in Rebuilder : Covered(proc[p].run, q)
  BY <1>1, <1>2 DEF Acknowledge, Local, RunOK, AtRun, Reaches, Covered
<1>4. proc' = [proc EXCEPT ![p] = IdleProc] /\ UNCHANGED <<committed, docs, prov, meta, judge>>
  BY DEF Acknowledge, Return, canonical
<1>5. proc'[p] = IdleProc BY <1>1, <1>4 DEF IInv, TypeOK
<1>6. Good(p) BY <1>1, <1>5, AtRest
<1>7. Kept(p) BY <1>4, <1>5 DEF Kept, Keeps
<1>8. acked' = acked \cup {proc[p].run} BY DEF Acknowledge
<1>9. \A r \in acked' \ acked : /\ r \in committed /\ Projected(r, meta.active)
                                /\ \A q \in Rebuilder : Covered(r, q)
  <2>1. \A r \in acked' \ acked : r = proc[p].run BY <1>8
  <2>2. QED BY <1>3, <2>1
<1>10. QED BY <1>1, <1>6, <1>7, <1>9, Assemble

(* No one holds the lease while there is none; only p does while p does. *)
LEMMA Holders ==
    ASSUME IInv, NEW q \in Rebuilder, Holds(q)
    PROVE  /\ meta.building = proc[q].gen /\ proc[q].gen \in Gen /\ meta.building # None
           /\ proc[q].gen \in WrittenGenerations
           /\ \A p \in Rebuilder : Holds(p) => p = q
BY NoneAssumption DEF IInv, Local, RebuilderOK, Projector, Alone, WrittenGenerations

LEMMA AcquireKeeps ==
    ASSUME IInv, TypeOK', NEW p \in Rebuilder, NEW g \in Gen, Acquire(p, g)
    PROVE  IInv'
<1>1. /\ p \in Projector /\ p \notin Ingester /\ Local(p) /\ proc[p] \in Proc
  BY Kinds DEF Projector
<1>2. /\ UNCHANGED <<committed, docs, prov, judge, acked>> /\ proc[p].pc = "acquire"
      /\ meta.building = None /\ meta' = [meta EXCEPT !.building = g] /\ Fresh(g)
      /\ proc' = [proc EXCEPT ![p] = [proc[p] EXCEPT !.pc = "list", !.gen = g]]
  BY DEF Acquire, canonical
<1>3. /\ \A q \in Projector \ {p} : proc'[q] = proc[q]
      /\ proc'[p].pc = "list" /\ proc'[p].gen = g /\ proc'[p].drop = proc[p].drop
      /\ proc'[p].target = proc[p].target /\ proc'[p].todo = proc[p].todo
      /\ proc'[p].attempt = proc[p].attempt
  BY <1>1, <1>2 DEF Proc, IInv, TypeOK
<1>4. meta'.active = meta.active /\ meta'.building = g BY <1>2 DEF IInv, TypeOK, Metadata
<1>5. \A q \in Rebuilder : ~Holds(q) BY <1>2, Holders
<1>6. \A q \in Rebuilder : Holds(q)' => q = p BY <1>3, <1>5 DEF Holds, Projector
<1>7. \A q \in Rebuilder : Builds(q)' => q = p BY <1>6 DEF Holds, Builds
<1>8. Alone' BY <1>6 DEF Alone
<1>9. JudgesOK' BY <1>2 DEF IInv, JudgesOK
<1>10. \A r : \A q \in Rebuilder : Covered(r, q)' BY <1>3, <1>7 DEF Covered
<1>11. Retrievable' BY <1>2, <1>4, <1>10 DEF IInv, Retrievable, Projected
<1>12. ASSUME NEW q \in Projector PROVE Local(q)' /\ Reaches(q)'
  <2>1. /\ proc'[q].drop = proc[q].drop /\ proc'[q].target = proc[q].target
        /\ Local(q) /\ Reaches(q)
    BY <1>3, Kinds
  <2>2. SweepOK(q)'
    BY <1>2, <1>4, <2>1 DEF Fresh, SweepOK, Local, WrittenGenerations
  <2>3. CASE q = p
    <3>1. RunOK(q)' /\ IngesterOK(q)' /\ Reaches(q)'
      BY <1>1, <1>3, <2>3 DEF RunOK, IngesterOK, Reaches, AtRun
    <3>2. ~Holds(p) /\ Holds(p)' BY <1>3, <1>5 DEF Holds, Building
    <3>3. RebuilderOK(p)'
      BY <1>1, <1>2, <1>3, <1>4, <3>2, BoundAssumption DEF Local, RebuilderOK
    <3>4. QED BY <2>2, <2>3, <3>1, <3>3 DEF Local
  <2>4. CASE q # p
    <3>1. proc'[q] = proc[q] /\ committed' = committed BY <1>2, <1>3, <2>4
    <3>2. RunOK(q)' /\ IngesterOK(q)' BY <2>1, <3>1 DEF Local, RunOK, IngesterOK
    <3>3. RebuilderOK(q)'
      BY <1>2, <1>5, <1>6, <2>1, <2>4, <3>1 DEF Local, RebuilderOK, Holds
    <3>4. Reaches(q)' BY <1>2, <1>4, <1>10, <2>1, <3>1 DEF Reaches, Projected
    <3>5. QED BY <2>2, <3>2, <3>3, <3>4 DEF Local
  <2>5. QED BY <2>3, <2>4
<1>13. QED BY <1>8, <1>9, <1>11, <1>12 DEF IInv

(* The lease is given back: no rebuild holds it. *)
LEMMA Released ==
    ASSUME IInv, TypeOK', NEW p \in Rebuilder, Holds(p),
           UNCHANGED <<committed, docs, prov, judge, acked>>,
           NEW next \in Proc, proc' = [proc EXCEPT ![p] = next],
           next.pc \in {"idle", "sweep"}, next.drop = {}, next.target = None,
           next.todo = {}, next.attempt = 0,
           meta'.building = None, meta'.active \in {meta.active, meta.building},
           \A r \in committed : (/\ Projected(r, meta.active)
                                 /\ \A q \in Rebuilder : Covered(r, q)) => Projected(r, meta.active)',
           meta'.active = meta.active \/ (proc[p].todo = {} /\ proc[p].pc = "activate")
    PROVE  IInv'
<1>1. p \in Projector /\ p \notin Ingester BY Kinds DEF Projector
<1>2. (\A q \in Projector \ {p} : proc'[q] = proc[q]) /\ proc'[p] = next
  BY <1>1 DEF IInv, TypeOK
<1>3. \A q \in Rebuilder : ~Holds(q)'
  BY <1>2, Holders DEF Holds, Building, Projector
<1>4. \A q \in Rebuilder : ~Builds(q)' BY <1>3 DEF Holds, Builds
<1>5. \A r : \A q \in Rebuilder : Covered(r, q)' BY <1>4 DEF Covered
<1>6. Alone' /\ JudgesOK' BY <1>3 DEF Alone, IInv, JudgesOK
<1>7. Retrievable' BY <1>5 DEF IInv, Retrievable
<1>8. WrittenGenerations' \subseteq WrittenGenerations
  BY DEF WrittenGenerations
<1>9. ASSUME NEW q \in Projector PROVE Local(q)' /\ Reaches(q)'
  <2>1. CASE q = p
    <3>1. ~Holds(p)' BY <1>3
    <3>2. RunOK(p)' /\ IngesterOK(p)' /\ Reaches(p)'
      BY <1>1, <1>2 DEF RunOK, IngesterOK, Reaches, AtRun
    <3>3. SweepOK(p)' BY <1>2 DEF SweepOK, WrittenGenerations
    <3>4. RebuilderOK(p)' BY <1>2, <3>1 DEF RebuilderOK
    <3>5. QED BY <2>1, <3>2, <3>3, <3>4 DEF Local
  <2>2. CASE q # p
    <3>1. proc'[q] = proc[q] /\ Local(q) /\ Reaches(q) BY <1>2, <2>2, Kinds
    <3>2. RunOK(q)' /\ IngesterOK(q)' BY <3>1 DEF Local, RunOK, IngesterOK
    <3>3. SweepOK(q)' BY <1>8, <3>1 DEF Local, SweepOK
    <3>4. RebuilderOK(q)'
      BY <1>3, <2>2, <3>1, Holders DEF Local, RebuilderOK
    <3>5. ASSUME q \in Ingester, proc[q].pc \in {"write", "prov"} PROVE Reaches(q)'
      <4>1. proc[q].run \in committed BY <3>1, <3>5 DEF Local, RunOK, AtRun
      <4>2. CASE meta'.active = meta.active
        BY <1>4, <3>1, <3>5, <4>2 DEF Reaches, Projected
      <4>3. CASE proc[p].todo = {} /\ proc[p].pc = "activate" /\ meta'.active = meta.building
        <5>1. Builds(p) /\ meta.building = proc[p].gen
          BY <4>3, Holders DEF Builds, Building
        <5>2. proc[p].gen \in proc[q].gens \/ Projected(proc[q].run, proc[p].gen)
          BY <3>1, <3>5, <4>3, <5>1 DEF Reaches, Covered
        <5>3. QED BY <1>4, <3>1, <4>3, <5>1, <5>2 DEF Reaches, Projected
      <4>4. QED BY <4>2, <4>3
    <3>6. QED BY <3>1, <3>2, <3>3, <3>4, <3>5 DEF Local, Reaches
  <2>3. QED BY <2>1, <2>2
<1>10. QED BY <1>6, <1>7, <1>9 DEF IInv

LEMMA ActivateKeeps ==
    ASSUME IInv, TypeOK', NEW p \in Rebuilder, Activate(p)
    PROVE  IInv'
<1>1. p \in Projector /\ Local(p) /\ proc[p].pc = "activate" BY Kinds DEF Projector, Activate
<1>2. Holds(p) /\ Builds(p) BY <1>1 DEF Holds, Builds, Building
<1>3. proc[p].todo = {} BY <1>1 DEF Local, RebuilderOK
<1> DEFINE next == [IdleProc EXCEPT !.pc = "sweep", !.switched = TRUE]
<1>4. next \in Proc BY Idle DEF Proc, Cleaning
<1>5. /\ next.pc = "sweep" /\ next.drop = {} /\ next.target = None /\ next.todo = {}
      /\ next.attempt = 0
  BY DEF IdleProc
<1>6. /\ UNCHANGED <<committed, docs, prov, judge, acked>>
      /\ proc' = [proc EXCEPT ![p] = next]
      /\ meta'.building = None /\ meta'.active = meta.building /\ meta.building = proc[p].gen
  BY DEF Activate, canonical
<1>7. \A r : Covered(r, p) => Projected(r, meta.active)'
  BY <1>1, <1>2, <1>3, <1>6 DEF Covered, Projected
<1> HIDE DEF next
<1>8. QED BY <1>1, <1>2, <1>3, <1>4, <1>5, <1>6, <1>7, Released

LEMMA AbortKeeps ==
    ASSUME IInv, TypeOK', NEW p \in Rebuilder, Abort(p)
    PROVE  IInv'
<1>1. p \in Projector /\ proc[p].pc = "abort" BY DEF Projector, Abort
<1>2. Holds(p) BY <1>1 DEF Holds
<1>3. /\ IdleProc.pc = "idle" /\ IdleProc.drop = {} /\ IdleProc.target = None
      /\ IdleProc.todo = {} /\ IdleProc.attempt = 0
  BY DEF IdleProc
<1>4. /\ UNCHANGED <<committed, docs, prov, judge, acked>>
      /\ proc' = [proc EXCEPT ![p] = IdleProc]
      /\ meta' = [meta EXCEPT !.building = None, !.retired = @ \cup {proc[p].gen}]
  BY <1>2, Holders DEF Abort, Return, canonical
<1>5. meta'.building = None /\ meta'.active = meta.active
  BY <1>4 DEF IInv, TypeOK, Metadata
<1>6. \A r : Projected(r, meta.active) => Projected(r, meta.active)'
  BY <1>4, <1>5 DEF Projected
<1>7. QED BY <1>2, <1>3, <1>4, <1>5, <1>6, Idle, Released

-----------------------------------------------------------------------------
(* The steps of judges and of time. *)

LEMMA JudgeSound ==
    ASSUME IInv, NEW j \in Judge, JudgeStep(j) \/ JudgeFault(j)
    PROVE  JudgesOK'
<1>1. judge' = [judge EXCEPT ![j] = judge'[j]] BY JudgeTyped DEF IInv
<1>2. \A i \in Judge \ {j} : judge'[i] = judge[i] BY <1>1 DEF IInv, TypeOK
<1>3. /\ judge'[j].pc # "idle" => judge'[j].node \in Node
      /\ judge'[j].pc = "cas" => Allowed(judge'[j].from, judge'[j].to)
  <2>1. /\ judge[j] \in [pc : JudgePc, node : Node \cup {None}, from : Status,
                         to : Status, gens : SUBSET Gen]
        /\ judge = [i \in Judge |-> judge[i]]
        /\ judge[j].pc # "idle" => judge[j].node \in Node
    BY DEF IInv, TypeOK, JudgesOK
  <2>2. IdleJudge.pc = "idle" BY DEF IdleJudge
  <2>3. CASE ReadStatus(j) BY <2>1, <2>2, <2>3 DEF ReadStatus
  <2>4. CASE ChangeStatus(j) BY <2>1, <2>2, <2>4 DEF ChangeStatus
  <2>5. CASE RecordJudgment(j) \/ ReadGenerations(j)
    BY <2>1, <2>5 DEF RecordJudgment, ReadGenerations
  <2>6. CASE SyncDocuments(j) \/ JudgeFault(j) BY <2>1, <2>2, <2>6 DEF SyncDocuments, JudgeFault
  <2>7. ASSUME NEW n \in Node, StalePin(j, n) \/ \E to \in Status : SetStatus(j, n, to)
        PROVE  judge'[j].node = n /\ judge'[j].pc \in {"read", "meta"}
    <3>1. CASE StalePin(j, n) BY <2>1, <3>1 DEF StalePin
    <3>2. ASSUME NEW to \in Status, SetStatus(j, n, to)
          PROVE  judge'[j].node = n /\ judge'[j].pc \in {"read", "meta"}
      BY <2>1, <3>2 DEF SetStatus
    <3>3. QED BY <2>7, <3>1, <3>2
  <2>8. QED BY <2>3, <2>4, <2>5, <2>6, <2>7 DEF JudgeStep
<1>4. QED BY <1>2, <1>3 DEF IInv, JudgesOK

(* Nothing that processes rely on is touched. *)
LEMMA BesideProcesses ==
    ASSUME IInv, TypeOK', JudgesOK', Keeps, UNCHANGED <<committed, proc, meta, acked>>
    PROVE  IInv'
<1>1. committed \subseteq Run /\ meta.active \in WrittenGenerations
  BY NoneAssumption DEF IInv, TypeOK, WrittenGenerations, Metadata
<1>2. \A r \in committed : Projected(r, meta.active) => Projected(r, meta.active)'
  BY <1>1, ProjectedKept DEF IInv
<1>3. ASSUME NEW r \in committed, NEW q \in Rebuilder, Covered(r, q) PROVE Covered(r, q)'
  <2>1. CASE Builds(q)
    <3>1. proc[q].gen \in WrittenGenerations BY <2>1, Holders DEF Builds, Holds
    <3>2. Projected(r, proc[q].gen) => Projected(r, proc[q].gen)'
      BY <1>1, <3>1, ProjectedKept DEF IInv
    <3>3. QED BY <1>3, <2>1, <3>2 DEF Covered
  <2>2. QED BY <2>1 DEF Covered, Builds
<1>4. Alone' BY DEF IInv, Alone, Holds
<1>5. Retrievable' BY <1>2, <1>3 DEF IInv, Retrievable
<1>6. ASSUME NEW q \in Projector PROVE Local(q)' /\ Reaches(q)'
  <2>1. Local(q)'
    BY Kinds DEF Local, RunOK, SweepOK, IngesterOK, RebuilderOK, Holds, WrittenGenerations
  <2>2. ASSUME q \in Ingester, proc[q].pc \in {"write", "prov"} PROVE Reaches(q)'
    <3>1. proc[q].run \in committed BY <2>2, Kinds DEF Local, RunOK, AtRun
    <3>2. (meta.active \in proc[q].gens \/ Projected(proc[q].run, meta.active))'
      BY <1>2, <2>2, <3>1, Kinds DEF Reaches
    <3>3. ASSUME NEW x \in Rebuilder, Builds(x)', proc'[x].gen \notin proc'[q].gens
          PROVE  Covered(proc[q].run, x)'
      <4>1. Covered(proc[q].run, x) BY <2>2, <3>3, Kinds DEF Reaches, Builds
      <4>2. QED BY <1>3, <3>1, <4>1
    <3>4. QED BY <3>2, <3>3 DEF Reaches
  <2>3. QED BY <2>1, <2>2 DEF Reaches
<1>7. QED BY <1>4, <1>5, <1>6 DEF IInv

-----------------------------------------------------------------------------
(* Every step. *)

LEMMA ProcessKeeps ==
    ASSUME IInv, NEW p \in Projector,
           p \in Ingester => IngesterStep(p) \/ Fault(p),
           p \in Rebuilder => RebuilderStep(p) \/ Fault(p)
    PROVE  IInv' /\ Keeps
<1>1. Local(p) /\ TypeOK BY Kinds DEF IInv
<1>2. (p \in Ingester /\ p \notin Rebuilder) \/ (p \in Rebuilder /\ p \notin Ingester)
  BY ProcessAssumption DEF Projector
<1>3. CASE Moves(p) /\ (p \in Ingester => \/ Load(p) \/ LoadMetadata(p) \/ NextGeneration(p)
                                          \/ VerificationFailed(p) \/ Fault(p))
  <2>1. Private(p) /\ proc'[p] \in Proc BY <1>1, <1>3, MovesTyped
  <2>2. TypeOK' BY <1>1, <2>1, PrivateTyped
  <2>3. Kept(p) /\ Keeps /\ UNCHANGED <<meta, committed, acked>>
    BY <2>1 DEF Private, Kept, Keeps, canonical
  <2>4. Good(p)
    <3>1. CASE Load(p) \/ LoadMetadata(p) \/ NextGeneration(p) BY <3>1, ProjectMoves
    <3>2. CASE VerificationFailed(p) BY <2>3, <3>2, FailedGood DEF VerificationFailed
    <3>3. CASE Fault(p) BY <3>3, FaultGood
    <3>4. CASE p \in Rebuilder
      BY <1>3, <3>1, <3>2, <3>3, <3>4, RebuildMoves DEF Moves
    <3>5. QED BY <1>2, <1>3, <3>1, <3>2, <3>3, <3>4
  <2>5. QED BY <2>2, <2>3, <2>4, Assemble
<1>4. CASE (\E n \in Node : WriteDocument(p, n)) \/ WriteProvenance(p)
  <2>1. TypeOK' BY <1>1, <1>4, ActsTyped
  <2>2. UNCHANGED acked BY <1>4 DEF WriteDocument, WriteProvenance
  <2>3. Kept(p) /\ Good(p) BY <1>4, ProjectWrites
  <2>4. QED BY <2>1, <2>2, <2>3, Assemble DEF Kept
<1>5. CASE /\ p \in Rebuilder
           /\ (\E g \in Gen : DeleteDocuments(p, g)) \/ DeleteProvenance(p) \/ PullRetired(p)
  <2>1. TypeOK' BY <1>1, <1>5, ActsTyped
  <2>2. UNCHANGED acked BY <1>5 DEF DeleteDocuments, DeleteProvenance, PullRetired
  <2>3. Kept(p) /\ Good(p) BY <1>5, SweepGood
  <2>4. QED BY <2>1, <2>2, <2>3, Assemble DEF Kept
<1>6. CASE p \in Ingester /\ \E r \in Run : Ingest(p, r)
  <2>1. TypeOK' BY <1>1, <1>6, ActsTyped
  <2>2. PICK r \in Run : Ingest(p, r) BY <1>6
  <2>3. /\ committed \subseteq committed' /\ UNCHANGED <<docs, prov, meta, judge, acked>>
        /\ proc' = [proc EXCEPT ![p] = proc'[p]]
    BY <1>1, <2>2 DEF Ingest, TypeOK
  <2>4. Kept(p) BY <2>3 DEF Kept, Keeps
  <2>5. QED BY <1>6, <2>1, <2>2, <2>3, <2>4, IngestGood, Assemble DEF Kept
<1>7. CASE p \in Ingester /\ Acknowledge(p)
  <2>1. TypeOK' BY <1>1, <1>7, ActsTyped
  <2>2. Keeps BY <1>7 DEF Acknowledge, Keeps
  <2>3. QED BY <1>7, <2>1, <2>2, Receipt
<1>8. CASE p \in Rebuilder /\ ((\E g \in Gen : Acquire(p, g)) \/ Activate(p) \/ Abort(p))
  <2>1. TypeOK' BY <1>1, <1>8, ActsTyped
  <2>2. Keeps BY <1>8 DEF Acquire, Activate, Abort, Keeps
  <2>3. QED BY <1>8, <2>1, <2>2, AcquireKeeps, ActivateKeeps, AbortKeeps
<1>9. CASE p \in Ingester
  BY <1>2, <1>3, <1>4, <1>6, <1>7, <1>9 DEF IngesterStep, Project, Moves
<1>10. CASE p \in Rebuilder
  BY <1>2, <1>3, <1>4, <1>5, <1>8, <1>10 DEF RebuilderStep, Project, Moves
<1>11. QED BY <1>2, <1>9, <1>10

LEMMA NextKeeps ==
    ASSUME IInv, Next
    PROVE  IInv' /\ Keeps
<1>1. ASSUME NEW p \in Ingester, IngesterStep(p) PROVE IInv' /\ Keeps
  BY <1>1, ProcessKeeps, ProcessAssumption DEF Projector
<1>2. ASSUME NEW p \in Rebuilder, RebuilderStep(p) PROVE IInv' /\ Keeps
  BY <1>2, ProcessKeeps, ProcessAssumption DEF Projector
<1>3. ASSUME NEW p \in Projector, Fault(p) PROVE IInv' /\ Keeps
  BY <1>3, ProcessKeeps
<1>4. ASSUME NEW j \in Judge, JudgeStep(j) \/ JudgeFault(j) PROVE IInv' /\ Keeps
  <2>1. TypeOK' BY <1>4, JudgeTyped DEF IInv
  <2>2. Keeps /\ UNCHANGED <<committed, proc, meta, acked>> BY <1>4, JudgeKeeps DEF IInv
  <2>3. JudgesOK' BY <1>4, JudgeSound
  <2>4. QED BY <2>1, <2>2, <2>3, BesideProcesses
<1>5. ASSUME NEW g \in Gen, Age(g) PROVE IInv' /\ Keeps
  <2>1. UNCHANGED <<committed, status, judged, docs, prov, meta, proc, judge, acked, faults>>
    BY <1>5 DEF Age, canonical
  <2>2. aged' \subseteq Gen BY <1>5 DEF Age, IInv, TypeOK
  <2>3. TypeOK' BY <2>1, <2>2 DEF IInv, TypeOK
  <2>4. Keeps /\ JudgesOK' BY <2>1 DEF Keeps, IInv, JudgesOK
  <2>5. QED BY <2>1, <2>3, <2>4, BesideProcesses
<1>6. QED BY <1>1, <1>2, <1>3, <1>4, <1>5 DEF Next

LEMMA InitSound == Init => IInv
<1> SUFFICES ASSUME Init PROVE IInv OBVIOUS
<1>1. TypeOK BY InitTyped
<1>2. /\ acked = {} /\ \A p \in Projector : proc[p] = IdleProc
      /\ \A j \in Judge : judge[j].pc = "idle"
  BY DEF Init, IdleJudge
<1>3. /\ IdleProc.pc = "idle" /\ IdleProc.drop = {} /\ IdleProc.target = None
      /\ IdleProc.todo = {} /\ IdleProc.attempt = 0
  BY DEF IdleProc
<1>4. JudgesOK /\ Retrievable BY <1>2 DEF JudgesOK, Retrievable
<1>5. \A p \in Projector : ~Holds(p) BY <1>2, <1>3 DEF Holds, Building
<1>6. Alone BY <1>5 DEF Alone, Projector
<1>7. ASSUME NEW p \in Projector PROVE Local(p) /\ Reaches(p)
  BY <1>2, <1>3, <1>5
     DEF Local, RunOK, SweepOK, IngesterOK, RebuilderOK, Reaches, WrittenGenerations, AtRun
<1>8. QED BY <1>1, <1>4, <1>6, <1>7 DEF IInv

LEMMA Stutters == IInv /\ UNCHANGED vars => IInv'
<1> SUFFICES ASSUME IInv, UNCHANGED vars PROVE IInv' OBVIOUS
<1> USE DEF vars, canonical
<1>1. TypeOK' /\ JudgesOK' /\ Keeps BY DEF IInv, TypeOK, JudgesOK, Keeps
<1>2. QED BY <1>1, BesideProcesses

LEMMA Inductive == Spec => []IInv
<1>1. IInv /\ [Next]_vars => IInv' BY NextKeeps, Stutters
<1>2. QED BY <1>1, InitSound, PTL DEF Spec

-----------------------------------------------------------------------------
(* The theorems. *)

(* Every variable of the projection keeps its type: rebuilds, counts and   *)
(* attempts included.                                                      *)
THEOREM TypeCorrect == Spec => []TypeOK
<1>1. IInv => TypeOK BY DEF IInv
<1>2. QED BY <1>1, Inductive, PTL

(* However many rebuilds start, fail and die, the one that acquired the    *)
(* lease has it until it switches or aborts (rag-rebuild's findAndModify). *)
THEOREM LeaseHeld == Spec => []BuilderHoldsLease
<1>1. IInv => BuilderHoldsLease BY Holders DEF BuilderHoldsLease, Holds
<1>2. QED BY <1>1, Inductive, PTL

(* A run whose ingestion was answered with a receipt is in the active      *)
(* generation from then on, through any number of rebuilds, switches,      *)
(* cleanups, crashes and errors (store_ingest beside rag-rebuild).         *)
THEOREM ReceiptKept == Spec => []AckedVisible
<1>1. IInv => AckedVisible BY DEF IInv, Retrievable, AckedVisible
<1>2. QED BY <1>1, Inductive, PTL

(* No cleanup deletes from the generation that is read or built, although  *)
(* it works from metadata read before (cleanup_retired_generations).       *)
THEOREM LiveKept == Spec => LiveRowsKept
<1> DEFINE Step == \A g \in {meta.active, meta.building} \ {None} :
                     /\ prov[g] \subseteq prov'[g]
                     /\ \A n \in Node : docs[g][n] # None => docs'[g][n] # None
<1>1. Keeps => Step BY DEF Keeps, WrittenGenerations
<1>2. IInv /\ [Next]_vars => [Step]_<<docs, prov>>
  <2>1. IInv /\ Next => Step BY <1>1, NextKeeps
  <2>2. UNCHANGED vars => UNCHANGED <<docs, prov>> BY DEF vars
  <2>3. QED BY <2>1, <2>2
<1>3. QED BY <1>2, Inductive, PTL DEF Spec, LiveRowsKept

(* Ingesters, rebuilds and time leave the judgments alone. *)
LEMMA OnlyJudges ==
    ASSUME TypeOK, Next
    PROVE  \/ \E j \in Judge : JudgeStep(j) \/ JudgeFault(j)
           \/ UNCHANGED <<status, judged, judge>> /\ faults' \in {faults, faults + 1}
<1> DEFINE Stays == UNCHANGED <<status, judged, judge>> /\ faults' \in {faults, faults + 1}
<1>1. ASSUME NEW p \in Ingester, IngesterStep(p) PROVE Stays
  BY <1>1 DEF IngesterStep, Project, Ingest, Load, LoadMetadata, WriteDocument, WriteProvenance,
              NextGeneration, VerificationFailed, Acknowledge, canonical
<1>2. ASSUME NEW p \in Rebuilder, RebuilderStep(p) PROVE Stays
  BY <1>2 DEF RebuilderStep, Project, Load, WriteDocument, WriteProvenance, NextGeneration,
              VerificationFailed, StartCleanup, DeleteDocuments, DeleteProvenance, PullRetired,
              Cleaned, ReadPrevious, AlreadyInProgress, OutOfIds, Acquire, ListCommitted, NextRun,
              RunRebuilt, CountNodes, CountLinks, CountDocuments, Complete, TryAgain, GiveUp,
              Compared, Activate, ChangedDuringRebuild, Abort, canonical
<1>3. ASSUME NEW p \in Projector, Fault(p) PROVE Stays
  BY <1>3 DEF Fault, canonical
<1>4. ASSUME NEW g \in Gen, Age(g) PROVE Stays BY <1>4 DEF Age, canonical
<1>5. QED BY <1>1, <1>2, <1>3, <1>4 DEF Next

(* Judges that race move every node along transitions the rules allow      *)
(* (set_status, stale_pins: the compare-and-set of the status read).       *)
THEOREM RulesKept == Spec => StatusFollowsRules
<1> DEFINE Step == \A n \in Node : Allowed(status[n], status'[n])
<1>1. UNCHANGED status => Step BY DEF Allowed
<1>2. ASSUME IInv, Next PROVE Step
  <2>1. ASSUME NEW j \in Judge, ChangeStatus(j) PROVE Step
    <3>1. /\ status \in [Node -> Status] /\ judge[j].node \in Node
          /\ Allowed(judge[j].from, judge[j].to)
      <4>1. status \in [Node -> Status] BY <1>2 DEF IInv, TypeOK
      <4>2. judge[j].pc = "cas" BY <2>1 DEF ChangeStatus
      <4>3. QED BY <1>2, <4>1, <4>2 DEF IInv, JudgesOK
    <3>2. CASE status[judge[j].node] = judge[j].from
      <4>1. status' = [status EXCEPT ![judge[j].node] = judge[j].to]
        BY <2>1, <3>2 DEF ChangeStatus
      <4>2. QED BY <3>1, <3>2, <4>1 DEF Allowed
    <3>3. CASE status[judge[j].node] # judge[j].from
      BY <1>1, <2>1, <3>3 DEF ChangeStatus
    <3>4. QED BY <3>2, <3>3
  <2>2. UNCHANGED status \/ \E j \in Judge : ChangeStatus(j)
    <3>1. ASSUME NEW j \in Judge, JudgeStep(j) \/ JudgeFault(j)
          PROVE  UNCHANGED status \/ ChangeStatus(j)
      BY <3>1 DEF JudgeStep, JudgeFault, StalePin, SetStatus, ReadStatus, RecordJudgment,
                  ReadGenerations, SyncDocuments, canonical
    <3>2. QED BY <1>2, <3>1, OnlyJudges DEF IInv
  <2>3. QED BY <1>1, <2>1, <2>2
<1>3. IInv /\ [Next]_vars => [Step]_vars BY <1>2
<1>4. QED BY <1>3, Inductive, PTL DEF Spec, StatusFollowsRules

-----------------------------------------------------------------------------
(* Judgments: what is on file and what is under way explain every status. *)

One(b) == IF b THEN 1 ELSE 0

(* Judges between their change of n, to or from s, and its record. *)
Arriving(n, s) ==
    {j \in Judge : judge[j].pc = "insert" /\ judge[j].node = n /\ judge[j].to = s}
Leaving(n, s) ==
    {j \in Judge : judge[j].pc = "insert" /\ judge[j].node = n /\ judge[j].from = s}

Balance(n, s) ==
    Into(n, s) - OutOf(n, s) - One(s = status[n]) + One(s = "candidate")
        + Cardinality(Arriving(n, s)) - Cardinality(Leaving(n, s))

Balanced == \A n \in Node, s \in Status : Balance(n, s) \in (-faults)..faults

LEMMA OneElement ==
    ASSUME NEW S \in SUBSET Judge, NEW T \in SUBSET Judge, NEW j \in Judge,
           S \ {j} = T \ {j}
    PROVE  /\ Cardinality(S) \in Nat /\ Cardinality(T) \in Nat
           /\ Cardinality(T) = Cardinality(S) - One(j \in S) + One(j \in T)
<1> DEFINE R == S \ {j}
<1>1. IsFiniteSet(S) /\ IsFiniteSet(T) /\ IsFiniteSet(R)
  BY FiniteAssumption, FS_Subset
<1>2. Cardinality(S) \in Nat /\ Cardinality(T) \in Nat /\ Cardinality(R) \in Nat
  BY <1>1, FS_CardinalityType
<1>3. Cardinality(R) = IF j \in S THEN Cardinality(S) - 1 ELSE Cardinality(S)
  BY <1>1, FS_RemoveElement
<1>4. Cardinality(R) = IF j \in T THEN Cardinality(T) - 1 ELSE Cardinality(T)
  BY <1>1, FS_RemoveElement
<1>5. QED BY <1>2, <1>3, <1>4 DEF One

(* A judge that goes on changes its own part of the sums alone. *)
LEMMA OneJudge ==
    ASSUME NEW n \in Node, NEW s \in Status, NEW j \in Judge,
           judge' = [judge EXCEPT ![j] = judge'[j]], TypeOK
    PROVE  /\ Cardinality(Arriving(n, s)) \in Nat /\ Cardinality(Leaving(n, s)) \in Nat
           /\ Cardinality(Arriving(n, s)') =
                  Cardinality(Arriving(n, s)) - One(j \in Arriving(n, s)) + One(j \in Arriving(n, s)')
           /\ Cardinality(Leaving(n, s)') =
                  Cardinality(Leaving(n, s)) - One(j \in Leaving(n, s)) + One(j \in Leaving(n, s)')
<1>1. \A i \in Judge \ {j} : judge'[i] = judge[i] BY DEF TypeOK
<1>2. /\ Arriving(n, s) \in SUBSET Judge /\ Arriving(n, s)' \in SUBSET Judge
      /\ Arriving(n, s) \ {j} = Arriving(n, s)' \ {j}
  BY <1>1 DEF Arriving
<1>3. /\ Leaving(n, s) \in SUBSET Judge /\ Leaving(n, s)' \in SUBSET Judge
      /\ Leaving(n, s) \ {j} = Leaving(n, s)' \ {j}
  BY <1>1 DEF Leaving
<1>4. QED BY <1>2, <1>3, OneElement

LEMMA Sums ==
    ASSUME TypeOK, NEW n \in Node, NEW s \in Status
    PROVE  Into(n, s) \in Nat /\ OutOf(n, s) \in Nat /\ faults \in Nat
<1>1. \A u, t \in Status : <<n, u, t>> \in Judgment BY DEF Judgment
<1>2. \A u, t \in Status : judged[<<n, u, t>>] \in Nat BY <1>1 DEF TypeOK
<1>3. {"candidate", "verified", "stale", "rejected"} \subseteq Status BY DEF Status
<1>4. QED BY <1>2, <1>3, BoundAssumption DEF Into, OutOf, TypeOK

LEMMA JudgeBalances ==
    ASSUME IInv, Balanced, NEW j \in Judge, JudgeStep(j) \/ JudgeFault(j)
    PROVE  Balanced'
<1>1. TypeOK /\ JudgesOK BY DEF IInv
<1>2. TypeOK' /\ judge' = [judge EXCEPT ![j] = judge'[j]] BY <1>1, JudgeTyped
<1> SUFFICES ASSUME NEW n \in Node, NEW s \in Status
             PROVE  Balance(n, s)' \in (-faults')..faults'
  BY DEF Balanced
<1> DEFINE A == Cardinality(Arriving(n, s))
           L == Cardinality(Leaving(n, s))
           a == One(j \in Arriving(n, s))
           l == One(j \in Leaving(n, s))
           kept == One(s = status[n])
           start == One(s = "candidate")
           into == Into(n, s)
           out == OutOf(n, s)
<1>3. A \in Nat /\ L \in Nat /\ A' = A - a + a' /\ L' = L - l + l' BY <1>1, <1>2, OneJudge
<1>4. into \in Nat /\ out \in Nat /\ faults \in Nat BY <1>1, Sums
<1>5. {a, l, a', l', kept, kept', start} \subseteq {0, 1} BY DEF One
<1>6. Balance(n, s) = into - out - kept + start + A - L BY DEF Balance
<1>7. Balance(n, s)' = into' - out' - kept' + start + A' - L' BY DEF Balance
<1>8. Balance(n, s) \in (-faults)..faults BY DEF Balanced
<1>9. into' \in Nat /\ out' \in Nat /\ faults' \in Nat
  <2>1. \A u, t \in Status : <<n, u, t>> \in Judgment BY DEF Judgment
  <2>2. \A u, t \in Status : judged'[<<n, u, t>>] \in Nat BY <1>2, <2>1 DEF TypeOK
  <2>3. {"candidate", "verified", "stale", "rejected"} \subseteq Status BY DEF Status
  <2>4. QED BY <1>2, <2>2, <2>3, BoundAssumption DEF Into, OutOf, TypeOK
<1>10. /\ a = One(judge[j].pc = "insert" /\ judge[j].node = n /\ judge[j].to = s)
       /\ l = One(judge[j].pc = "insert" /\ judge[j].node = n /\ judge[j].from = s)
       /\ a' = One(judge'[j].pc = "insert" /\ judge'[j].node = n /\ judge'[j].to = s)
       /\ l' = One(judge'[j].pc = "insert" /\ judge'[j].node = n /\ judge'[j].from = s)
  BY DEF Arriving, Leaving
<1>11. (into - out - kept + a - l = into' - out' - kept' + a' - l') /\ faults' = faults
         => Balance(n, s)' \in (-faults')..faults'
  <2> HIDE DEF into, out, kept, start, A, L, a, l
  <2>1. Balance(n, s)' = Balance(n, s) \/ ~(into - out - kept + a - l = into' - out' - kept' + a' - l')
    BY <1>3, <1>4, <1>5, <1>6, <1>7, <1>9
  <2>2. QED BY <1>8, <2>1
<1> HIDE DEF A, L, a, l, kept, start, into, out
<1>12. status \in [Node -> Status] /\ judged \in [Judgment -> Nat]
       /\ judge \in [Judge -> [pc : JudgePc, node : Node \cup {None}, from : Status,
                              to : Status, gens : SUBSET Gen]]
  BY <1>1 DEF TypeOK
<1>13. UNCHANGED <<status, judged>> => into' = into /\ out' = out /\ kept' = kept
  BY DEF into, out, kept, Into, OutOf
<1>14. CASE \E i \in Node : StalePin(j, i) \/ \E to \in Status : SetStatus(j, i, to)
  <2>1. UNCHANGED <<status, judged, faults>> /\ judge[j].pc = "idle" /\ judge'[j].pc # "insert"
    BY <1>12, <1>14 DEF StalePin, SetStatus, canonical
  <2>2. a = 0 /\ a' = 0 /\ l = 0 /\ l' = 0 BY <1>10, <2>1 DEF One
  <2>3. QED BY <1>11, <1>13, <2>1, <2>2
<1>15. CASE ReadGenerations(j) \/ SyncDocuments(j)
  <2>1. UNCHANGED <<status, judged, faults>> /\ judge[j].pc # "insert" /\ judge'[j].pc # "insert"
    BY <1>12, <1>15 DEF ReadGenerations, SyncDocuments, canonical, IdleJudge
  <2>2. a = 0 /\ a' = 0 /\ l = 0 /\ l' = 0 BY <1>10, <2>1 DEF One
  <2>3. QED BY <1>11, <1>13, <2>1, <2>2
<1>16. CASE ReadStatus(j)
  <2>1. UNCHANGED <<status, judged, faults>> /\ judge[j].pc = "read"
    BY <1>16 DEF ReadStatus, canonical
  <2>2. judge'[j].pc = "insert" => judge'[j].from = judge'[j].to
    BY <1>12, <1>16 DEF ReadStatus, IdleJudge
  <2>3. a = 0 /\ l = 0 /\ a' = l' BY <1>10, <2>1, <2>2 DEF One
  <2>4. a' \in {0, 1} /\ into \in Nat /\ out \in Nat /\ kept \in {0, 1} BY <1>4, <1>5
  <2>5. QED BY <1>11, <1>13, <2>1, <2>3, <2>4
<1>17. CASE ChangeStatus(j)
  <2>1. UNCHANGED <<judged, faults>> /\ judge[j].pc = "cas" /\ judge[j].node \in Node
    BY <1>1, <1>17 DEF ChangeStatus, JudgesOK
  <2>2. into' = into /\ out' = out BY <2>1 DEF into, out, Into, OutOf
  <2>3. a = 0 /\ l = 0 BY <1>10, <2>1 DEF One
  <2>4. CASE status[judge[j].node] = judge[j].from
    <3>1. /\ status' = [status EXCEPT ![judge[j].node] = judge[j].to]
          /\ judge' = [judge EXCEPT ![j].pc = "insert"]
      BY <1>17, <2>4 DEF ChangeStatus
    <3>2. CASE judge[j].node = n
      <4>1. status[n] = judge[j].from /\ status'[n] = judge[j].to BY <1>12, <2>4, <3>1, <3>2
      <4>2. a' = One(judge[j].to = s) /\ l' = One(judge[j].from = s)
        BY <1>10, <1>12, <3>1, <3>2 DEF One
      <4>3. kept = l' /\ kept' = a' BY <4>1, <4>2 DEF kept, One
      <4>4. QED BY <1>4, <1>5, <1>11, <2>1, <2>2, <2>3, <4>3
    <3>3. CASE judge[j].node # n
      <4>1. a' = 0 /\ l' = 0 BY <1>10, <1>12, <3>1, <3>3 DEF One
      <4>2. kept' = kept BY <1>12, <3>1, <3>3 DEF kept
      <4>3. QED BY <1>11, <2>1, <2>2, <2>3, <4>1, <4>2
    <3>4. QED BY <3>2, <3>3
  <2>5. CASE status[judge[j].node] # judge[j].from
    <3>1. status' = status /\ judge' = [judge EXCEPT ![j] = IdleJudge]
      BY <1>17, <2>5 DEF ChangeStatus
    <3>2. a' = 0 /\ l' = 0 BY <1>10, <1>12, <3>1 DEF One, IdleJudge
    <3>3. QED BY <1>11, <1>13, <2>1, <2>3, <3>1, <3>2
  <2>6. QED BY <2>4, <2>5
<1>18. CASE RecordJudgment(j)
  <2> DEFINE entry == <<judge[j].node, judge[j].from, judge[j].to>>
  <2>1. /\ UNCHANGED <<status, faults>> /\ judge[j].pc = "insert" /\ judge[j].node \in Node
        /\ judged' = [judged EXCEPT ![entry] = @ + 1] /\ judge' = [judge EXCEPT ![j].pc = "meta"]
    BY <1>1, <1>18 DEF RecordJudgment, JudgesOK
  <2>2. entry \in Judgment BY <1>12, <2>1 DEF Judgment
  <2>3. kept' = kept BY <2>1 DEF kept
  <2>4. a' = 0 /\ l' = 0 BY <1>10, <1>12, <2>1 DEF One
  <2>5. \A u, t \in Status :
          judged'[<<n, u, t>>] = judged[<<n, u, t>>] + One(entry = <<n, u, t>>)
    <3>1. ASSUME NEW u \in Status, NEW t \in Status
          PROVE  judged'[<<n, u, t>>] = judged[<<n, u, t>>] + One(entry = <<n, u, t>>)
      <4>1. <<n, u, t>> \in Judgment BY DEF Judgment
      <4>2. judged[<<n, u, t>>] \in Nat BY <1>12, <4>1
      <4> HIDE DEF entry
      <4>3. QED BY <1>12, <2>1, <2>2, <4>1, <4>2 DEF One
    <3>2. QED BY <3>1
  <2>6. into' = into + a /\ out' = out + l
    <3>1. judge[j].from \in Status /\ judge[j].to \in Status BY <1>12
    <3>2. \A u, t \in Status : judged[<<n, u, t>>] \in Nat BY <1>12 DEF Judgment
    <3>3. \A u, t \in Status : One(entry = <<n, u, t>>)
            = One(judge[j].node = n /\ judge[j].from = u /\ judge[j].to = t)
      BY DEF One
    <3> DEFINE mine(u, t) == One(judge[j].node = n /\ judge[j].from = u /\ judge[j].to = t)
    <3>4. {"candidate", "verified", "stale", "rejected"} \subseteq Status BY DEF Status
    <3>5. \A u, t \in Status : mine(u, t) \in {0, 1}
            /\ judged'[<<n, u, t>>] = judged[<<n, u, t>>] + mine(u, t)
      BY <2>5, <3>3 DEF One
    <3>6. mine("candidate", s) + mine("verified", s) + mine("stale", s) + mine("rejected", s) = a
      BY <1>10, <2>1, <3>1 DEF One, Status
    <3>7. mine(s, "candidate") + mine(s, "verified") + mine(s, "stale") + mine(s, "rejected") = l
      BY <1>10, <2>1, <3>1 DEF One, Status
    <3> HIDE DEF mine
    <3>8. into' = into + a BY <3>2, <3>4, <3>5, <3>6 DEF into, Into
    <3>9. out' = out + l BY <3>2, <3>4, <3>5, <3>7 DEF out, OutOf
    <3>10. QED BY <3>8, <3>9
  <2>7. QED BY <1>4, <1>5, <1>11, <2>1, <2>3, <2>4, <2>6
<1>19. CASE JudgeFault(j)
  <2>1. UNCHANGED <<status, judged>> /\ faults' = faults + 1
        /\ judge' = [judge EXCEPT ![j] = IdleJudge]
    BY <1>19 DEF JudgeFault, canonical
  <2>2. a' = 0 /\ l' = 0 BY <1>10, <1>12, <2>1 DEF One, IdleJudge
  <2>3. Balance(n, s)' = Balance(n, s) - a + l BY <1>3, <1>4, <1>5, <1>6, <1>7, <1>13, <2>1, <2>2
  <2>4. a - l \in (-1)..1 BY <1>5
  <2>5. QED BY <1>4, <1>5, <1>8, <2>1, <2>3, <2>4
<1>20. QED
  BY <1>14, <1>15, <1>16, <1>17, <1>18, <1>19 DEF JudgeStep

LEMMA InitBalanced == Init => Balanced
<1> SUFFICES ASSUME Init, NEW n \in Node, NEW s \in Status
             PROVE  Balance(n, s) \in (-faults)..faults
  BY DEF Balanced
<1>1. status[n] = "candidate" /\ faults = 0 /\ \A j \in Judge : judge[j].pc = "idle"
  BY DEF Init, IdleJudge
<1>2. Arriving(n, s) = {} /\ Leaving(n, s) = {} BY <1>1 DEF Arriving, Leaving
<1>3. Cardinality(Arriving(n, s)) = 0 /\ Cardinality(Leaving(n, s)) = 0 BY <1>2, FS_EmptySet
<1>4. \A u, t \in Status : judged[<<n, u, t>>] = 0 BY DEF Init, Judgment
<1>5. {"candidate", "verified", "stale", "rejected"} \subseteq Status BY DEF Status
<1>6. Into(n, s) = 0 /\ OutOf(n, s) = 0 BY <1>4, <1>5 DEF Into, OutOf
<1>7. Balance(n, s) = 0 BY <1>1, <1>3, <1>6 DEF Balance, One
<1>8. QED BY <1>1, <1>7

(* Whatever judges and faults interleave, the judgments on file lead from  *)
(* "candidate" to the status of every node, but for one judgment of each   *)
(* judge that failed (set_status: the compare-and-set, then the insert).   *)
THEOREM JudgmentsExplained == Spec => []JudgmentsExplainStatus
<1>1. IInv /\ Balanced /\ [Next]_vars => Balanced'
  <2> SUFFICES ASSUME IInv, Balanced, [Next]_vars PROVE Balanced' OBVIOUS
  <2>1. TypeOK BY DEF IInv
  <2>2. ASSUME UNCHANGED <<status, judged, judge>>, faults' \in {faults, faults + 1}
        PROVE  Balanced'
    <3> SUFFICES ASSUME NEW n \in Node, NEW s \in Status
                 PROVE  Balance(n, s)' \in (-faults')..faults'
      BY DEF Balanced
    <3>1. Balance(n, s)' = Balance(n, s)
      BY <2>2 DEF Balance, Into, OutOf, Arriving, Leaving
    <3>2. faults \in Nat /\ Balance(n, s) \in (-faults)..faults
      BY <2>1, BoundAssumption DEF Balanced, TypeOK
    <3>3. QED BY <2>2, <3>1, <3>2
  <2>3. CASE UNCHANGED vars BY <2>2, <2>3 DEF vars, canonical
  <2>4. QED BY <2>1, <2>2, <2>3, OnlyJudges, JudgeBalances
<1>2. IInv /\ Balanced => JudgmentsExplainStatus
  <2> SUFFICES ASSUME IInv, Balanced, \A j \in Judge : judge[j].pc # "insert",
                      NEW n \in Node, NEW s \in Status
               PROVE  Into(n, s) - OutOf(n, s) - (IF s = status[n] THEN 1 ELSE 0)
                        + (IF s = "candidate" THEN 1 ELSE 0) \in (-faults)..faults
    BY DEF JudgmentsExplainStatus
  <2>1. Arriving(n, s) = {} /\ Leaving(n, s) = {} BY DEF Arriving, Leaving
  <2>2. Cardinality(Arriving(n, s)) = 0 /\ Cardinality(Leaving(n, s)) = 0
    BY <2>1, FS_EmptySet
  <2>3. Into(n, s) \in Nat /\ OutOf(n, s) \in Nat /\ faults \in Nat
    BY Sums DEF IInv
  <2>4. Balance(n, s) = Into(n, s) - OutOf(n, s) - One(s = status[n]) + One(s = "candidate")
    BY <2>2, <2>3 DEF Balance, One
  <2>5. QED BY <2>4 DEF Balanced, One
<1>3. QED BY <1>1, <1>2, InitBalanced, Inductive, PTL DEF Spec

-----------------------------------------------------------------------------
(* Search: what the projection does beside it. *)

NodesOf(runs) == UNION {Links[r] : r \in runs}
RowsOf(runs) == UNION {Rows(r) : r \in runs}
DocsOf(g) == {n \in Node : docs[g][n] # None}

(* A generation holds nothing but what committed runs have. *)
Owned == \A g \in Gen : DocsOf(g) \subseteq NodesOf(committed) /\ prov[g] \subseteq RowsOf(committed)

(* The generation being built never was the active one. *)
Apart == meta.building \notin {meta.active, Live}

Switch ==
    \/ meta'.active = meta.active /\ meta'.building = meta.building
    \/ meta'.active = meta.active /\ meta'.building \notin {meta.active, Live}
    \/ meta'.active = meta.building /\ meta'.building = None

(* What a step adds to a generation is of a run that is committed. *)
Adds ==
    \A g \in Gen : /\ prov'[g] \subseteq prov[g] \cup RowsOf(committed)
                   /\ DocsOf(g)' \subseteq DocsOf(g) \cup NodesOf(committed)

LEMMA Written ==
    ASSUME IInv, NEW p \in Projector, (\E n \in Node : WriteDocument(p, n)) \/ WriteProvenance(p)
    PROVE  Adds /\ UNCHANGED <<committed, meta>>
<1>1. /\ docs \in [Gen -> [Node -> Status \cup {None}]] /\ prov \in [Gen -> SUBSET (Run \X Node)]
      /\ Local(p)
  BY Kinds DEF IInv, TypeOK
<1>2. UNCHANGED <<committed, meta>> BY DEF WriteDocument, WriteProvenance, canonical
<1>3. proc[p].pc \in {"write", "prov"} BY DEF WriteDocument, WriteProvenance
<1>4. Links[proc[p].run] \subseteq NodesOf(committed) /\ Rows(proc[p].run) \subseteq RowsOf(committed)
  BY <1>1, <1>3 DEF Local, RunOK, AtRun, NodesOf, RowsOf
<1>5. CASE \E n \in Node : WriteDocument(p, n)
  <2>1. PICK n \in Node : WriteDocument(p, n) BY <1>5
  <2>2. PICK g \in Gen : docs' = [docs EXCEPT ![g][n] = proc[p].seen[n]] BY <2>1 DEF WriteDocument
  <2>3. n \in NodesOf(committed) BY <1>1, <1>4, <2>1 DEF WriteDocument, Local, RunOK
  <2>4. \A x \in Gen : \A m \in Node : docs'[x][m] # docs[x][m] => m = n BY <1>1, <2>2
  <2>5. \A x \in Gen : DocsOf(x)' \subseteq DocsOf(x) \cup NodesOf(committed)
    BY <2>3, <2>4 DEF DocsOf
  <2>6. prov' = prov BY <2>1 DEF WriteDocument
  <2>7. QED BY <1>2, <2>5, <2>6 DEF Adds
<1>6. CASE WriteProvenance(p)
  <2>1. <<proc[p].run, proc[p].node>> \in Rows(proc[p].run)
    BY <1>1, <1>6 DEF WriteProvenance, Local, RunOK, Rows
  <2>2. PICK g \in Gen : prov' = [prov EXCEPT ![g] = @ \cup {<<proc[p].run, proc[p].node>>}]
    BY <1>6 DEF WriteProvenance
  <2>3. docs' = docs BY <1>6 DEF WriteProvenance
  <2>4. QED BY <1>1, <1>2, <1>4, <2>1, <2>2, <2>3 DEF Adds, DocsOf
<1>7. QED BY <1>5, <1>6

LEMMA Effects ==
    ASSUME IInv, Next
    PROVE  Switch /\ Adds /\ committed \subseteq committed'
<1>1. /\ docs \in [Gen -> [Node -> Status \cup {None}]] /\ prov \in [Gen -> SUBSET (Run \X Node)]
      /\ meta \in Metadata
  BY DEF IInv, TypeOK
<1>2. UNCHANGED meta => Switch BY DEF Switch
<1>3. UNCHANGED <<docs, prov>> => Adds BY DEF Adds, DocsOf
<1>4. ASSUME NEW p \in Projector, (\E n \in Node : WriteDocument(p, n)) \/ WriteProvenance(p)
      PROVE  Switch /\ Adds /\ committed \subseteq committed'
  BY <1>2, <1>4, Written
<1>5. ASSUME NEW p \in Ingester, IngesterStep(p)
      PROVE  Switch /\ Adds /\ committed \subseteq committed'
  <2>1. CASE (\E n \in Node : WriteDocument(p, n)) \/ WriteProvenance(p)
    BY <1>4, <2>1 DEF Projector
  <2>2. CASE ~((\E n \in Node : WriteDocument(p, n)) \/ WriteProvenance(p))
    <3>1. UNCHANGED <<docs, prov, meta>> /\ committed \subseteq committed'
      BY <1>5, <2>2 DEF IngesterStep, Project, Ingest, Load, LoadMetadata, NextGeneration,
                        VerificationFailed, Acknowledge, canonical
    <3>2. QED BY <1>2, <1>3, <3>1
  <2>3. QED BY <2>1, <2>2
<1>6. ASSUME NEW p \in Rebuilder, RebuilderStep(p)
      PROVE  Switch /\ Adds /\ committed \subseteq committed'
  <2>1. CASE (\E n \in Node : WriteDocument(p, n)) \/ WriteProvenance(p)
    BY <1>4, <2>1 DEF Projector
  <2>2. CASE \E g \in Gen : DeleteDocuments(p, g)
    <3>1. PICK g \in Gen : DeleteDocuments(p, g) BY <2>2
    <3>2. \A x \in Gen : DocsOf(x)' \subseteq DocsOf(x) BY <1>1, <3>1 DEF DeleteDocuments, DocsOf
    <3>3. QED BY <1>2, <3>1, <3>2 DEF DeleteDocuments, Adds, canonical
  <2>3. CASE DeleteProvenance(p)
    BY <1>1, <1>2, <2>3 DEF DeleteProvenance, Adds, DocsOf, canonical
  <2>4. CASE PullRetired(p)
    BY <1>1, <1>3, <2>4 DEF PullRetired, Switch, Metadata, canonical
  <2>5. CASE \E g \in Gen : Acquire(p, g)
    BY <1>1, <1>3, <2>5 DEF Acquire, Fresh, Switch, Metadata, canonical
  <2>6. CASE Activate(p)
    BY <1>1, <1>3, <2>6 DEF Activate, Switch, canonical
  <2>7. CASE Abort(p)
    <3>1. None \notin {meta.active, Live} BY <1>1, NoneAssumption, IdAssumption DEF Metadata
    <3>2. QED BY <1>1, <1>2, <1>3, <2>7, <3>1 DEF Abort, Switch, Metadata, canonical
  <2>8. CASE ~(\/ \E n \in Node : WriteDocument(p, n)
               \/ \E g \in Gen : DeleteDocuments(p, g) \/ Acquire(p, g)
               \/ WriteProvenance(p) \/ DeleteProvenance(p) \/ PullRetired(p)
               \/ Activate(p) \/ Abort(p))
    <3>1. UNCHANGED <<docs, prov, meta, committed>>
      BY <1>6, <2>8
         DEF RebuilderStep, Project, Load, NextGeneration, VerificationFailed, StartCleanup,
             Cleaned, ReadPrevious, AlreadyInProgress, OutOfIds, ListCommitted, NextRun, RunRebuilt,
             CountNodes, CountLinks, CountDocuments, Complete, TryAgain, GiveUp, Compared,
             ChangedDuringRebuild, canonical
    <3>2. QED BY <1>2, <1>3, <3>1
  <2>9. QED BY <2>1, <2>2, <2>3, <2>4, <2>5, <2>6, <2>7, <2>8
<1>7. ASSUME NEW p \in Projector, Fault(p)
      PROVE  Switch /\ Adds /\ committed \subseteq committed'
  BY <1>2, <1>3, <1>7 DEF Fault, canonical
<1>8. ASSUME NEW j \in Judge, JudgeStep(j) \/ JudgeFault(j)
      PROVE  Switch /\ Adds /\ committed \subseteq committed'
  <2>1. UNCHANGED <<committed, prov, meta>> BY <1>8, JudgeKeeps DEF IInv
  <2>2. CASE SyncDocuments(j)
    <3>1. \A g \in Gen : DocsOf(g)' \subseteq DocsOf(g)
      BY <1>1, <2>2 DEF SyncDocuments, DocsOf
    <3>2. QED BY <1>2, <2>1, <3>1 DEF Adds
  <2>3. CASE ~SyncDocuments(j)
    <3>1. UNCHANGED docs
      BY <1>8, <2>3 DEF JudgeStep, JudgeFault, StalePin, SetStatus, ReadStatus, ChangeStatus,
                        RecordJudgment, ReadGenerations
    <3>2. QED BY <1>2, <1>3, <2>1, <3>1
  <2>4. QED BY <2>2, <2>3
<1>9. ASSUME NEW g \in Gen, Age(g)
      PROVE  Switch /\ Adds /\ committed \subseteq committed'
  BY <1>2, <1>3, <1>9 DEF Age, canonical
<1>10. QED BY <1>5, <1>6, <1>7, <1>8, <1>9 DEF Next

-----------------------------------------------------------------------------
(* Search: what a search knows. *)

NodeCount == Cardinality(NodesOf(committed))
LinkCount == Cardinality(RowsOf(committed))

Whole(s) == /\ search[s].found = NodesOf(search[s].corpus)
            /\ search[s].cited = RowsOf(search[s].corpus)

(* What the reading under way has counted can only have grown. *)
Counting(s) ==
    LET h == search[s].health IN
    /\ search[s].pc \in {"links", "docs", "rows"} => h.committed.nodes <= NodeCount
    /\ search[s].pc \in {"docs", "rows"} => h.committed.links <= LinkCount
    /\ search[s].pc = "rows" /\ search[s].agree /\ meta.active = h.gen =>
           h.committed.nodes <= Cardinality(DocsOf(h.gen))

(* So has what the reading before the search counted; as long as its generation *)
(* is the active one, it holds that much.                                       *)
First(s) ==
    LET b == search[s].before IN
    b # None =>
        /\ b.committed.nodes <= NodeCount /\ b.committed.links <= LinkCount
        /\ meta.active = b.gen => /\ b.committed.nodes <= Cardinality(DocsOf(b.gen))
                                  /\ b.committed.links <= Cardinality(prov[b.gen])
        /\ search[s].pc # "find" =>
               /\ search[s].corpus \subseteq committed
               /\ b.committed.nodes <= Cardinality(NodesOf(search[s].corpus))
               /\ b.committed.links <= Cardinality(RowsOf(search[s].corpus))

(* If nothing was committed since that reading, and its generation is still the *)
(* active one, the search has found everything.                                 *)
Finds(s) ==
    LET b == search[s].before
        h == search[s].health
        nodes == NodeCount = b.committed.nodes
        links == LinkCount = b.committed.links IN
    /\ search[s].pc \in {"find", "cite"} => b # None
    /\ search[s].pc = "cite" /\ meta.active = b.gen /\ nodes =>
           search[s].found = NodesOf(search[s].corpus)
    /\ search[s].pc = "meta" /\ b # None /\ meta.active = b.gen /\ nodes /\ links => Whole(s)
    /\ search[s].pc \in {"nodes", "links", "docs", "rows"} /\ b # None /\ h.gen = b.gen =>
           /\ nodes /\ links => Whole(s)
           /\ (/\ search[s].pc # "nodes" /\ h.committed.nodes = b.committed.nodes
               /\ links) => Whole(s)
           /\ (/\ search[s].pc \in {"docs", "rows"} /\ h.committed.nodes = b.committed.nodes
               /\ h.committed.links = b.committed.links) => Whole(s)
    /\ search[s].pc = "answered" => Whole(s)

SearchOK(s) == Counting(s) /\ First(s) /\ Finds(s)

(* The inductive invariant of the searches. *)
SInv == /\ IInv /\ Owned /\ Apart
        /\ search \in [Searcher -> Search]
        /\ meta.building \notin Remembered
        /\ \A s \in Searcher : SearchOK(s)

LEMMA Sizes ==
    ASSUME NEW S, NEW T, S \subseteq T, T \subseteq Node \/ T \subseteq Run \X Node
    PROVE  /\ Cardinality(S) \in Nat /\ Cardinality(T) \in Nat
           /\ Cardinality(S) <= Cardinality(T)
           /\ Cardinality(S) = Cardinality(T) => S = T
<1>1. IsFiniteSet(T) BY Counted
<1>2. S \in SUBSET T OBVIOUS
<1>3. QED BY <1>1, <1>2, FS_Subset, FS_CardinalityType

LEMMA Grown ==
    ASSUME NEW A, NEW B, A \subseteq B, B \subseteq Run
    PROVE  /\ NodesOf(A) \subseteq NodesOf(B) /\ NodesOf(B) \subseteq Node
           /\ RowsOf(A) \subseteq RowsOf(B) /\ RowsOf(B) \subseteq Run \X Node
BY LinksAssumption DEF NodesOf, RowsOf, Rows

LEMMA Recalled ==
    ASSUME search \in [Searcher -> Search], NEW s \in Searcher
    PROVE  /\ search[s].health \in Health /\ search[s].health.gen \in Remembered
           /\ search[s].before # None =>
                  search[s].before \in Health /\ search[s].before.gen \in Remembered
           /\ Remembered \subseteq Gen
<1>1. \A t \in Searcher : /\ search[t].health \in Health /\ search[t].before \in Health \cup {None}
                          /\ search[t].health.gen \in Gen
                          /\ search[t].before # None => search[t].before.gen \in Gen
  BY DEF Search, Health
<1>2. QED BY <1>1 DEF Remembered

-----------------------------------------------------------------------------
(* A step of the projection beside the searches. *)

LEMMA Around ==
    ASSUME SInv, Next, UNCHANGED search, NEW s \in Searcher
    PROVE  /\ NodeCount \in Nat /\ NodeCount' \in Nat /\ NodeCount <= NodeCount'
           /\ LinkCount \in Nat /\ LinkCount' \in Nat /\ LinkCount <= LinkCount'
           /\ committed \subseteq committed'
           /\ \A g \in Remembered : meta'.active = g =>
                  /\ meta.active = g
                  /\ Cardinality(DocsOf(g)) \in Nat /\ Cardinality(DocsOf(g)') \in Nat
                  /\ Cardinality(DocsOf(g)) <= Cardinality(DocsOf(g)')
                  /\ Cardinality(prov[g]) \in Nat /\ Cardinality(prov'[g]) \in Nat
                  /\ Cardinality(prov[g]) <= Cardinality(prov'[g])
<1>1. IInv /\ IInv' /\ Keeps /\ Switch /\ committed \subseteq committed'
  BY NextKeeps, Effects DEF SInv
<1>2. committed' \subseteq Run /\ prov' \in [Gen -> SUBSET (Run \X Node)] /\ meta.active \in Gen
  BY <1>1 DEF IInv, TypeOK, Metadata
<1>3. NodesOf(committed) \subseteq NodesOf(committed)' /\ NodesOf(committed)' \subseteq Node
      /\ RowsOf(committed) \subseteq RowsOf(committed)' /\ RowsOf(committed)' \subseteq Run \X Node
  BY <1>1, <1>2, LinksAssumption DEF NodesOf, RowsOf, Rows
<1>4. ASSUME NEW g \in Remembered, meta'.active = g
      PROVE  /\ meta.active = g
             /\ DocsOf(g) \subseteq DocsOf(g)' /\ DocsOf(g)' \subseteq Node
             /\ prov[g] \subseteq prov'[g] /\ prov'[g] \subseteq Run \X Node
  <2>1. meta.active = g BY <1>1, <1>4 DEF Switch, SInv
  <2>2. g \in WrittenGenerations BY <1>2, <2>1, NoneAssumption DEF WrittenGenerations
  <2>3. QED BY <1>1, <1>2, <2>1, <2>2 DEF Keeps, DocsOf
<1>5. QED BY <1>1, <1>3, <1>4, Sizes DEF NodeCount, LinkCount

LEMMA Beside ==
    ASSUME SInv, Next, UNCHANGED search, NEW s \in Searcher
    PROVE  SearchOK(s)'
<1>1. search[s] \in Search /\ SearchOK(s) /\ search'[s] = search[s] BY DEF SInv
<1>2. /\ search[s].health.committed.nodes \in Nat /\ search[s].health.committed.links \in Nat
      /\ search[s].before # None => /\ search[s].before.committed.nodes \in Nat
                                    /\ search[s].before.committed.links \in Nat
  BY <1>1 DEF Search, Health, Corpus
<1>3. /\ search[s].health.gen \in Remembered
      /\ search[s].before # None => search[s].before.gen \in Remembered
  BY Recalled DEF SInv
<1>4. Whole(s) => Whole(s)' BY <1>1 DEF Whole, NodesOf, RowsOf
<1>5. Counting(s)' BY <1>1, <1>2, <1>3, Around DEF SearchOK, Counting
<1>6. First(s)'
  BY <1>1, <1>2, <1>3, Around DEF SearchOK, First, NodesOf, RowsOf
<1>7. Finds(s)'
  BY <1>1, <1>2, <1>3, <1>4, Around DEF SearchOK, First, Finds, NodesOf
<1>8. QED BY <1>5, <1>6, <1>7 DEF SearchOK

-----------------------------------------------------------------------------
(* The steps of a search. *)

LEMMA Blank == NoSearch \in Search /\ NoHealth \in Health
<1>1. NoHealth \in Health BY IdAssumption DEF NoHealth, Health, Corpus
<1>2. 0 \in 0..MaxSearchAttempts BY SearchAssumption
<1>3. QED BY <1>1, <1>2 DEF NoSearch, Search, SearchPc

LEMMA SearchTyped ==
    ASSUME IInv, search \in [Searcher -> Search], NEW s \in Searcher, SearchOK(s), SearchStep(s)
    PROVE  search'[s] \in Search /\ search' = [search EXCEPT ![s] = search'[s]]
<1>1. search[s] \in Search /\ search = [t \in Searcher |-> search[t]] OBVIOUS
<1>2. /\ committed \subseteq Run /\ meta.active \in Gen /\ meta.building \in Gen \cup {None}
      /\ prov \in [Gen -> SUBSET (Run \X Node)]
  BY DEF IInv, TypeOK, Metadata
<1>3. /\ Cardinality(UNION {Links[r] : r \in committed}) \in Nat
      /\ Cardinality(UNION {Rows(r) : r \in committed}) \in Nat
  BY <1>2, Grown, Counted DEF NodesOf, RowsOf
<1> DEFINE Typed == search'[s] \in Search /\ search' = [search EXCEPT ![s] = search'[s]]
<1>4. Finish(s) => Typed BY <1>1, Blank DEF Finish
<1>5. CASE Ask(s)
  <2>1. [NoSearch EXCEPT !.pc = "meta", !.attempt = 1] \in Search
    <3>1. 1 \in 0..MaxSearchAttempts BY SearchAssumption
    <3>2. QED BY Blank, <3>1 DEF Search, SearchPc
  <2>2. QED BY <1>1, <1>5, <2>1 DEF Ask
<1>6. CASE ReadHealth(s)
  <2>1. [NoHealth EXCEPT !.gen = meta.active, !.building = meta.building] \in Health
    BY <1>2, Blank DEF Health
  <2>2. QED BY <1>1, <1>6, <2>1 DEF ReadHealth, Search, SearchPc
<1>7. CASE CorpusNodes(s)
  BY <1>1, <1>3, <1>7 DEF CorpusNodes, Search, SearchPc, Health, Corpus
<1>8. CASE CorpusLinks(s)
  BY <1>1, <1>3, <1>8 DEF CorpusLinks, Search, SearchPc, Health, Corpus
<1>9. CASE ProjectedNodes(s) BY <1>1, <1>9 DEF ProjectedNodes, Search, SearchPc
<1>10. CASE CountAgain(s) BY <1>1, <1>10 DEF CountAgain, Search, SearchPc
<1>11. CASE Proceed(s) BY <1>1, <1>11, Blank DEF Proceed, Search, SearchPc
<1>12. CASE Find(s) BY <1>1, <1>2, <1>12 DEF Find, Search, SearchPc
<1>13. CASE Cite(s)
  <2>1. search[s].before \in Health \cup {None} BY <1>1 DEF Search
  <2> DEFINE rows == {row \in prov[search[s].before.gen] : row[2] \in search[s].found}
             next == [search[s] EXCEPT !.pc = "meta", !.cited = rows]
  <2>2. search' = [search EXCEPT ![s] = next] BY <1>13 DEF Cite
  <2>3. rows \subseteq Run \X Node
    <3>1. search[s].before \in Health BY <1>13, <2>1 DEF Cite, SearchOK, Finds
    <3>2. search[s].before.gen \in Gen BY <3>1 DEF Health
    <3>3. QED BY <1>2, <3>2
  <2> HIDE DEF rows
  <2>4. next \in Search BY <1>1, <2>3 DEF Search, SearchPc
  <2>5. QED BY <1>1, <2>2, <2>4
<1>14. CASE Accept(s) BY <1>1, <1>14, Blank DEF Accept, Search, SearchPc
<1>15. CASE Again(s)
  <2>1. search[s].attempt < MaxSearchAttempts =>
            [NoSearch EXCEPT !.pc = "meta", !.attempt = search[s].attempt + 1] \in Search
    <3>1. search[s].attempt < MaxSearchAttempts =>
              search[s].attempt + 1 \in 0..MaxSearchAttempts
      BY <1>1, SearchAssumption DEF Search
    <3>2. QED BY Blank, <3>1 DEF Search, SearchPc
  <2>2. QED BY <1>1, <1>4, <1>15, <2>1 DEF Again
<1>16. CASE Unready(s) \/ Answered(s) \/ Retry(s) \/ SearchFault(s)
  BY <1>1, <1>4, <1>15, <1>16 DEF Unready, Answered, Retry, SearchFault, Search, SearchPc
<1>17. QED
  BY <1>5, <1>6, <1>7, <1>8, <1>9, <1>10, <1>11, <1>12, <1>13, <1>14, <1>15, <1>16 DEF SearchStep

(* A search that starts again, or is over, has nothing to show. *)
LEMMA Afresh ==
    ASSUME NEW s \in Searcher, search'[s].before = None, search'[s].pc \in {"idle", "meta"}
    PROVE  SearchOK(s)'
BY DEF SearchOK, Counting, First, Finds

LEMMA SearchMoves ==
    ASSUME SInv, NEW s \in Searcher, SearchStep(s), UNCHANGED vars
    PROVE  SearchOK(s)'
<1>1. /\ search[s] \in Search /\ SearchOK(s)
      /\ search'[s] \in Search /\ search = [t \in Searcher |-> search[t]]
  BY SearchTyped DEF SInv
<1>2. UNCHANGED <<committed, docs, prov, meta>> BY DEF vars, canonical
<1>3. NodeCount' = NodeCount /\ LinkCount' = LinkCount
  BY <1>2 DEF NodeCount, LinkCount, NodesOf, RowsOf, Rows
<1>4. \A g \in Gen : DocsOf(g)' = DocsOf(g) BY <1>2 DEF DocsOf
<1>5. /\ search[s].health.gen \in Gen
      /\ search[s].health.committed.nodes \in Nat /\ search[s].health.committed.links \in Nat
      /\ search[s].before # None => /\ search[s].before.gen \in Gen
                                    /\ search[s].before.committed.nodes \in Nat
                                    /\ search[s].before.committed.links \in Nat
  BY <1>1 DEF Search, Health, Corpus
<1>6. Finish(s) => SearchOK(s)'
  BY <1>1, Afresh DEF Finish, NoSearch
<1>7. CASE Ask(s)
  BY <1>1, <1>7, Afresh DEF Ask, NoSearch
<1>8. CASE Unready(s) \/ Answered(s) BY <1>6, <1>8 DEF Unready, Answered
<1>9. CASE Again(s)
  <2>1. CASE Finish(s) BY <1>6, <2>1
  <2>2. CASE search' = [search EXCEPT ![s] = [NoSearch EXCEPT !.pc = "meta",
                                                !.attempt = search[s].attempt + 1]]
    BY <1>1, <2>2, Afresh DEF NoSearch
  <2>3. QED BY <1>9, <2>1, <2>2 DEF Again
<1> DEFINE Same == /\ search'[s].before = search[s].before /\ search'[s].found = search[s].found
                   /\ search'[s].cited = search[s].cited /\ search'[s].corpus = search[s].corpus
<1>10. Same => (Whole(s)' <=> Whole(s)) BY <1>2 DEF Whole, NodesOf, RowsOf, Rows
<1>11. Same /\ search[s].pc # "find" /\ search'[s].pc # "find" => First(s)'
  BY <1>1, <1>2, <1>3, <1>4, <1>5 DEF SearchOK, First, NodesOf, RowsOf, Rows
<1>12. CASE ReadHealth(s)
  <2>1. Same /\ search[s].pc = "meta" /\ search'[s].pc = "nodes" /\ search'[s].health.gen = meta.active
    BY <1>1, <1>12, Blank DEF ReadHealth, Search, Health
  <2>2. Finds(s)' BY <1>1, <1>2, <1>3, <1>10, <2>1 DEF SearchOK, Finds
  <2>3. Counting(s)' BY <2>1 DEF Counting
  <2>4. QED BY <1>11, <2>1, <2>2, <2>3 DEF SearchOK
<1>13. CASE CorpusNodes(s)
  <2>1. /\ Same /\ search[s].pc = "nodes" /\ search'[s].pc = "links"
        /\ search'[s].health.gen = search[s].health.gen
        /\ search'[s].health.committed.nodes = NodeCount
    BY <1>1, <1>13 DEF CorpusNodes, Search, Health, Corpus, NodeCount, NodesOf
  <2>2. NodeCount \in Nat BY <2>1, <1>1 DEF Search, Health, Corpus
  <2>3. Finds(s)' BY <1>1, <1>2, <1>3, <1>10, <2>1 DEF SearchOK, Finds
  <2>4. Counting(s)' BY <1>3, <2>1, <2>2 DEF Counting
  <2>5. QED BY <1>11, <2>1, <2>3, <2>4 DEF SearchOK
<1>14. CASE CorpusLinks(s)
  <2>1. /\ Same /\ search[s].pc = "links" /\ search'[s].pc = "docs"
        /\ search'[s].health.gen = search[s].health.gen
        /\ search'[s].health.committed.nodes = search[s].health.committed.nodes
        /\ search'[s].health.committed.links = LinkCount
    BY <1>1, <1>14 DEF CorpusLinks, Search, Health, Corpus, LinkCount, RowsOf
  <2>2. LinkCount \in Nat BY <2>1, <1>1 DEF Search, Health, Corpus
  <2>3. Finds(s)' BY <1>1, <1>2, <1>3, <1>10, <2>1 DEF SearchOK, Finds
  <2>4. Counting(s)' BY <1>1, <1>3, <2>1, <2>2 DEF SearchOK, Counting
  <2>5. QED BY <1>11, <2>1, <2>3, <2>4 DEF SearchOK
<1>15. CASE ProjectedNodes(s)
  <2>1. /\ Same /\ search[s].pc = "docs" /\ search'[s].pc = "rows"
        /\ search'[s].health = search[s].health
        /\ search'[s].agree => search[s].health.committed.nodes
                                  = Cardinality(DocsOf(search[s].health.gen))
    BY <1>1, <1>15 DEF ProjectedNodes, Search, DocsOf
  <2>2. Finds(s)' BY <1>1, <1>2, <1>3, <1>10, <2>1 DEF SearchOK, Finds
  <2>3. Counting(s)' BY <1>1, <1>3, <1>4, <1>5, <2>1 DEF SearchOK, Counting
  <2>4. QED BY <1>11, <2>1, <2>2, <2>3 DEF SearchOK
<1>16. CASE CountAgain(s)
  <2>1. /\ Same /\ search[s].pc = "rows" /\ search'[s].pc = "nodes"
        /\ search'[s].health = search[s].health
    BY <1>1, <1>16 DEF CountAgain, Search
  <2>2. Finds(s)' BY <1>1, <1>2, <1>3, <1>10, <2>1 DEF SearchOK, Finds
  <2>3. Counting(s)' BY <2>1 DEF Counting
  <2>4. QED BY <1>11, <2>1, <2>2, <2>3 DEF SearchOK
<1>17. CASE Accept(s)
  <2>1. /\ Same /\ search[s].pc = "rows" /\ search'[s].pc = "answered"
        /\ search[s].before # None /\ search[s].before = search[s].health
    BY <1>1, <1>17 DEF Accept, SameSnapshot, Search
  <2>2. Whole(s) BY <1>1, <2>1 DEF SearchOK, Finds
  <2>3. Finds(s)' BY <1>10, <2>1, <2>2 DEF Finds
  <2>4. Counting(s)' BY <2>1 DEF Counting
  <2>5. QED BY <1>11, <2>1, <2>3, <2>4 DEF SearchOK
<1>18. CASE SearchFault(s)
  <2>1. CASE Finish(s) BY <1>6, <2>1
  <2>2. CASE /\ search[s].pc \in {"docs", "rows"}
             /\ search' = [search EXCEPT ![s].pc = "rows", ![s].agree = FALSE]
    <3>1. /\ Same /\ search'[s].pc = "rows" /\ search'[s].health = search[s].health
          /\ search'[s].agree = FALSE
      BY <1>1, <2>2 DEF Search
    <3>2. Finds(s)' BY <1>1, <1>2, <1>3, <1>10, <2>2, <3>1 DEF SearchOK, Finds
    <3>3. Counting(s)' BY <1>1, <1>3, <2>2, <3>1 DEF SearchOK, Counting
    <3>4. QED BY <1>11, <2>2, <3>1, <3>2, <3>3 DEF SearchOK
  <2>3. QED BY <1>9, <1>18, <2>1, <2>2 DEF SearchFault
<1>19. CASE Proceed(s)
  <2>1. /\ search[s].pc = "rows" /\ search'[s].pc = "find"
        /\ search'[s].before = search[s].health
        /\ search[s].agree
        /\ search[s].health.committed.links = Cardinality(prov[search[s].health.gen])
    BY <1>1, <1>19 DEF Proceed, Ready, Search
  <2>2. search'[s].before # None BY <1>1, <2>1, HealthAssumption DEF Search
  <2>3. Finds(s)' BY <2>1, <2>2 DEF Finds
  <2>4. Counting(s)' BY <2>1 DEF Counting
  <2>5. First(s)' BY <1>1, <1>2, <1>3, <1>4, <1>5, <2>1 DEF SearchOK, Counting, First
  <2>6. QED BY <2>3, <2>4, <2>5 DEF SearchOK
<1>20. CASE Find(s)
  <2> DEFINE b == search[s].before
  <2>1. /\ search[s].pc = "find" /\ search'[s].pc = "cite" /\ search'[s].before = b
        /\ search'[s].corpus = committed /\ search'[s].found = DocsOf(b.gen)
    BY <1>1, <1>20 DEF Find, Search, DocsOf
  <2>2. b # None /\ b.gen \in Gen BY <1>1, <1>5, <2>1 DEF SearchOK, Finds
  <2>3. meta.active = b.gen /\ NodeCount = b.committed.nodes => DocsOf(b.gen) = NodesOf(committed)
    <3>1. /\ DocsOf(b.gen) \subseteq NodesOf(committed) /\ committed \subseteq Run
      BY <2>2 DEF SInv, Owned, IInv, TypeOK
    <3>2. NodesOf(committed) \subseteq Node BY <3>1, Grown
    <3>3. /\ Cardinality(DocsOf(b.gen)) \in Nat /\ NodeCount \in Nat
          /\ Cardinality(DocsOf(b.gen)) <= NodeCount
          /\ Cardinality(DocsOf(b.gen)) = NodeCount => DocsOf(b.gen) = NodesOf(committed)
      BY <3>1, <3>2, Sizes DEF NodeCount
    <3>4. meta.active = b.gen => b.committed.nodes <= Cardinality(DocsOf(b.gen))
      BY <1>1, <2>2 DEF SearchOK, First
    <3>5. QED BY <1>5, <2>2, <3>3, <3>4
  <2>4. Finds(s)' BY <1>2, <1>3, <2>1, <2>2, <2>3 DEF Finds, NodesOf
  <2>5. First(s)'
    BY <1>1, <1>2, <1>3, <1>4, <1>5, <2>1, <2>2
       DEF SearchOK, First, NodeCount, LinkCount, NodesOf, RowsOf, Rows
  <2>6. Counting(s)' BY <2>1 DEF Counting
  <2>7. QED BY <2>4, <2>5, <2>6 DEF SearchOK
<1>21. CASE Cite(s)
  <2> DEFINE b == search[s].before
             corpus == search[s].corpus
             cited == {row \in prov[b.gen] : row[2] \in search[s].found}
  <2>1. /\ search[s].pc = "cite" /\ search'[s].pc = "meta" /\ search'[s].before = b
        /\ search'[s].corpus = corpus /\ search'[s].found = search[s].found
        /\ search'[s].cited = cited
    BY <1>1, <1>21 DEF Cite, Search
  <2>2. b # None /\ b.gen \in Gen BY <1>1, <1>5, <2>1 DEF SearchOK, Finds
  <2>3. /\ corpus \subseteq committed /\ committed \subseteq Run
        /\ prov[b.gen] \subseteq RowsOf(committed)
    BY <1>1, <2>1, <2>2 DEF SearchOK, First, SInv, Owned, IInv, TypeOK
  <2>4. ASSUME meta.active = b.gen, NodeCount = b.committed.nodes, LinkCount = b.committed.links
        PROVE  search[s].found = NodesOf(corpus) /\ cited = RowsOf(corpus)
    <3>1. search[s].found = NodesOf(corpus) BY <1>1, <2>1, <2>4 DEF SearchOK, Finds
    <3>2. RowsOf(corpus) \subseteq RowsOf(committed) /\ RowsOf(committed) \subseteq Run \X Node
      BY <2>3, Grown
    <3>3. /\ b.committed.links <= Cardinality(prov[b.gen])
          /\ b.committed.links <= Cardinality(RowsOf(corpus))
      BY <1>1, <2>1, <2>2, <2>4 DEF SearchOK, First
    <3>4. prov[b.gen] = RowsOf(committed)
      <4>1. /\ Cardinality(prov[b.gen]) \in Nat /\ LinkCount \in Nat
            /\ Cardinality(prov[b.gen]) <= LinkCount
            /\ Cardinality(prov[b.gen]) = LinkCount => prov[b.gen] = RowsOf(committed)
        BY <2>3, <3>2, Sizes DEF LinkCount
      <4>2. QED BY <2>4, <3>3, <4>1
    <3>5. RowsOf(corpus) = RowsOf(committed)
      <4>1. /\ Cardinality(RowsOf(corpus)) \in Nat /\ LinkCount \in Nat
            /\ Cardinality(RowsOf(corpus)) <= LinkCount
            /\ Cardinality(RowsOf(corpus)) = LinkCount => RowsOf(corpus) = RowsOf(committed)
        BY <3>2, Sizes DEF LinkCount
      <4>2. QED BY <2>4, <3>3, <4>1
    <3>6. \A row \in RowsOf(corpus) : row[2] \in NodesOf(corpus)
      BY DEF RowsOf, NodesOf, Rows
    <3>7. QED BY <3>1, <3>4, <3>5, <3>6
  <2>5. (Whole(s))' <=> search[s].found = NodesOf(corpus) /\ cited = RowsOf(corpus)
    BY <1>2, <2>1 DEF Whole, NodesOf, RowsOf, Rows
  <2> HIDE DEF cited
  <2>6. Finds(s)' BY <1>2, <1>3, <2>1, <2>4, <2>5 DEF Finds
  <2>7. First(s)'
    BY <1>1, <1>2, <1>3, <1>4, <1>5, <2>1, <2>2 DEF SearchOK, First, NodesOf, RowsOf, Rows
  <2>8. Counting(s)' BY <2>1 DEF Counting
  <2>9. QED BY <2>6, <2>7, <2>8 DEF SearchOK
<1>22. QED
  BY <1>7, <1>8, <1>9, <1>12, <1>13, <1>14, <1>15, <1>16, <1>17, <1>18, <1>19, <1>20, <1>21
     DEF SearchStep, Retry

LEMMA Untouched ==
    ASSUME NEW t \in Searcher, SearchOK(t), search'[t] = search[t],
           UNCHANGED <<committed, docs, prov, meta>>
    PROVE  SearchOK(t)'
BY DEF SearchOK, Counting, First, Finds, Whole, NodeCount, LinkCount, DocsOf, NodesOf, RowsOf, Rows

(* The generations a search remembers are those that it read. *)
LEMMA Remembers ==
    ASSUME search \in [Searcher -> Search], NEW s \in Searcher, SearchStep(s)
    PROVE  /\ search'[s].health.gen \in {search[s].health.gen, meta.active, Live}
           /\ search'[s].before \in {None, search[s].before, search[s].health}
<1>1. search[s] \in Search /\ search = [t \in Searcher |-> search[t]] OBVIOUS
<1>2. NoSearch.health.gen = Live /\ NoSearch.before = None /\ NoHealth.gen = Live
  BY DEF NoSearch, NoHealth
<1>3. CASE Finish(s) BY <1>1, <1>2, <1>3 DEF Finish
<1>4. CASE \E n \in Nat : search' = [search EXCEPT ![s] = [NoSearch EXCEPT !.pc = "meta", !.attempt = n]]
  <2>1. PICK n : search' = [search EXCEPT ![s] = [NoSearch EXCEPT !.pc = "meta", !.attempt = n]]
    BY <1>4
  <2>2. /\ search'[s].health = NoSearch.health /\ search'[s].before = NoSearch.before
    BY <1>1, <2>1 DEF NoSearch
  <2>3. QED BY <1>2, <2>2
<1>5. CASE Ask(s) BY <1>4, <1>5 DEF Ask
<1>6. CASE ReadHealth(s)
  BY <1>1, <1>6 DEF ReadHealth, Search, NoHealth
<1>7. CASE CorpusNodes(s) \/ CorpusLinks(s) \/ ProjectedNodes(s) \/ CountAgain(s)
  BY <1>1, <1>7 DEF CorpusNodes, CorpusLinks, ProjectedNodes, CountAgain, Search, Health, Corpus
<1>8. CASE Proceed(s) \/ Accept(s)
  BY <1>1, <1>2, <1>8 DEF Proceed, Accept, Search
<1>9. CASE Find(s) \/ Cite(s) BY <1>1, <1>9 DEF Find, Cite, Search
<1>10. CASE Again(s)
  <2>1. search[s].attempt + 1 \in Nat BY <1>1, SearchAssumption DEF Search
  <2>2. QED BY <1>3, <1>4, <1>10, <2>1 DEF Again
<1>11. CASE Unready(s) \/ Answered(s) \/ Retry(s) \/ SearchFault(s)
  BY <1>1, <1>3, <1>10, <1>11 DEF Unready, Answered, Retry, SearchFault, Search
<1>12. QED BY <1>5, <1>6, <1>7, <1>8, <1>9, <1>10, <1>11 DEF SearchStep

LEMMA SearchKeeps ==
    ASSUME SInv, SearchNext
    PROVE  SInv'
<1>1. CASE \E s \in Searcher : SearchStep(s) /\ UNCHANGED vars
  <2>1. PICK s \in Searcher : SearchStep(s) /\ UNCHANGED vars BY <1>1
  <2>2. SearchOK(s) /\ IInv BY DEF SInv
  <2>3. search'[s] \in Search /\ search' = [search EXCEPT ![s] = search'[s]]
    BY <2>1, <2>2, SearchTyped DEF SInv
  <2>4. search' \in [Searcher -> Search] /\ \A t \in Searcher \ {s} : search'[t] = search[t]
    BY <2>3 DEF SInv
  <2>5. UNCHANGED <<committed, docs, prov, meta>> BY <2>1 DEF vars, canonical
  <2>6. IInv' BY <2>1, <2>2, Stutters
  <2>7. Owned' /\ Apart' BY <2>5 DEF SInv, Owned, Apart, DocsOf, NodesOf, RowsOf, Rows
  <2>8. ASSUME NEW t \in Searcher PROVE SearchOK(t)'
    <3>1. CASE t = s BY <2>1, <3>1, SearchMoves
    <3>2. CASE t # s
      <4>1. search'[t] = search[t] /\ SearchOK(t) BY <2>4, <3>2 DEF SInv
      <4>2. QED BY <2>5, <4>1, Untouched
    <3>3. QED BY <3>1, <3>2
  <2>9. meta'.building \notin Remembered'
    <3>1. \A t \in Searcher : /\ meta.building # search[t].health.gen
                              /\ search[t].before # None => meta.building # search[t].before.gen
      BY Recalled DEF SInv
    <3>2. /\ meta.building # meta.active /\ meta.building # Live
      BY DEF SInv, Apart
    <3>3. /\ meta.building # search'[s].health.gen
          /\ search'[s].before # None => meta.building # search'[s].before.gen
      BY <2>1, <3>1, <3>2, Remembers DEF SInv
    <3>4. \A t \in Searcher : /\ meta.building # search'[t].health.gen
                              /\ search'[t].before # None => meta.building # search'[t].before.gen
      BY <2>4, <3>1, <3>3
    <3>5. QED BY <2>5, <3>4 DEF Remembered
  <2>10. QED BY <2>4, <2>6, <2>7, <2>8, <2>9 DEF SInv
<1>2. CASE /\ Next /\ UNCHANGED search
           /\ meta'.building \in {meta.building, None} \cup (Gen \ Remembered)
  <2>1. IInv' /\ Switch /\ Adds /\ committed \subseteq committed'
    BY <1>2, NextKeeps, Effects DEF SInv
  <2>2. Owned'
    <3>1. NodesOf(committed) \subseteq NodesOf(committed)' /\ RowsOf(committed) \subseteq RowsOf(committed)'
      BY <2>1 DEF NodesOf, RowsOf, Rows
    <3>2. QED BY <2>1, <3>1 DEF SInv, Owned, Adds
  <2>3. Apart'
    <3>1. None \notin {meta'.active, Live}
      BY <2>1, NoneAssumption, IdAssumption DEF IInv, TypeOK, Metadata
    <3>2. QED BY <2>1, <3>1 DEF SInv, Apart, Switch
  <2>4. meta'.building \notin Remembered'
    <3>1. Remembered' = Remembered BY <1>2 DEF Remembered
    <3>2. None \notin Remembered
      <4>1. \A t \in Searcher : search[t].health.gen \in Gen BY DEF SInv, Search, Health
      <4>2. \A t \in Searcher : search[t].before # None => search[t].before.gen \in Gen
        BY DEF SInv, Search, Health
      <4>3. QED BY <4>1, <4>2, NoneAssumption DEF Remembered
    <3>3. QED BY <1>2, <3>1, <3>2 DEF SInv
  <2>5. \A s \in Searcher : SearchOK(s)' BY <1>2, Beside
  <2>6. search' \in [Searcher -> Search] BY <1>2 DEF SInv
  <2>7. QED BY <2>1, <2>2, <2>3, <2>4, <2>5, <2>6 DEF SInv
<1>3. QED BY <1>1, <1>2 DEF SearchNext

LEMMA SearchInductive == SearchSpec => []SInv
<1>1. SearchInit => SInv
  <2> SUFFICES ASSUME SearchInit PROVE SInv OBVIOUS
  <2>1. IInv BY InitSound DEF SearchInit
  <2>2. /\ \A g \in Gen : DocsOf(g) = {} /\ prov[g] = {}
        /\ meta.active = Live /\ meta.building = None
    BY DEF SearchInit, Init, DocsOf
  <2>3. Owned BY <2>2 DEF Owned
  <2>4. None # Live BY NoneAssumption, IdAssumption
  <2>5. Apart BY <2>2, <2>4 DEF Apart
  <2>6. search \in [Searcher -> Search] BY Blank DEF SearchInit
  <2>7. \A s \in Searcher : /\ search[s].pc = "idle" /\ search[s].before = None
                            /\ search[s].health.gen = Live
    BY DEF SearchInit, NoSearch, NoHealth
  <2>8. meta.building \notin Remembered BY <2>2, <2>4, <2>7 DEF Remembered
  <2>9. \A s \in Searcher : SearchOK(s) BY <2>7 DEF SearchOK, Counting, First, Finds
  <2>10. QED BY <2>1, <2>3, <2>5, <2>6, <2>8, <2>9 DEF SInv
<1>2. SInv /\ [SearchNext]_<<vars, search>> => SInv'
  <2>1. ASSUME SInv, UNCHANGED <<vars, search>> PROVE SInv'
    <3>1. IInv' BY <2>1, Stutters DEF SInv
    <3>2. UNCHANGED <<committed, docs, prov, meta, search>> BY <2>1 DEF vars, canonical
    <3>3. Owned' /\ Apart' BY <2>1, <3>2 DEF SInv, Owned, Apart, DocsOf, NodesOf, RowsOf, Rows
    <3>4. \A s \in Searcher : SearchOK(s)'
      BY <2>1, <3>2, Untouched DEF SInv
    <3>5. QED BY <2>1, <3>1, <3>2, <3>3, <3>4 DEF SInv, Remembered
  <2>2. QED BY <2>1, SearchKeeps
<1>3. QED BY <1>1, <1>2, PTL DEF SearchSpec

(* A search that answers shows the whole corpus that was committed as it   *)
(* read, although rebuilds, cleanups and ingestions went on between its    *)
(* queries and it compared but numbers (handle_search, rag_snapshot.cpp).  *)
THEOREM AnswersWhole == SearchSpec => []AnswerWhole
<1>1. SInv => AnswerWhole
  BY DEF SInv, SearchOK, Finds, Whole, AnswerWhole, NodesOf, RowsOf
<1>2. QED BY <1>1, SearchInductive, PTL
=============================================================================
