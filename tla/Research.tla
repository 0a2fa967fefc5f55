------------------------------- MODULE Research -------------------------------
(***************************************************************************)
(* Source discovery and curation (research_curation.h: tick; memory.cpp:   *)
(* research_tick).  The host loop asks for one tick after another.  A tick *)
(* works on a copy of research-frontier.json: it searches for pages if a   *)
(* search is due, and then checks the page that has been due the longest.  *)
(* What it is about to do outside is on disk before it does it, so a tick  *)
(* that dies anywhere leaves a failure, with its delay, behind.            *)
(***************************************************************************)
EXTENDS Naturals, Sequences, SequencesExt

CONSTANTS Pages, Texts,   \* urls of the primary source, and contents of a page
          FirstText,      \* what the pages say at first
          Refs,           \* sets of canonical references, as read
          Answers,        \* the pages that a search may list, in order
          Search, None,
          MaxQueue,       \* kMaxQueue
          Delay,          \* retry_delay(n), for n failures; the last one is a day
          Hour,           \* from one search to the next
          MaxTime, MaxFaults, MaxChanges   \* bounds

MaxFailures == Len(Delay)
Day == Delay[MaxFailures]

ASSUME ResearchAssumption ==
    /\ Delay \in Seq(Nat \ {0}) /\ Delay # <<>> /\ Hour \in Nat \ {0}
    /\ MaxQueue \in Nat \ {0} /\ {MaxTime, MaxFaults, MaxChanges} \subseteq Nat
    /\ Answers \subseteq Seq(Pages) /\ FirstText \in Texts

ASSUME NoneAssumption == Search \notin Pages /\ None \notin Texts \cup Refs

VARIABLES disk,      \* research-frontier.json
          mem,       \* the copy of the running tick, or None
          pc, now,   \* where that tick is, and the time it began
          infer,     \* whether it was given the model
          hits,      \* the search results it has yet to admit
          doc,       \* the page it fetched: the text, the references, the decision
          published, \* documents in the store
          text,      \* what each page says
          clock, faults, changes,
          tried      \* auxiliary: of each page and the search, the last try and how many failed in a row

vars == <<disk, mem, pc, now, infer, hits, doc, published, text, clock, faults, changes, tried>>
world == <<text, clock, changes>>

Pcs == {"idle", "search", "answer", "admit", "select", "fetch", "relation", "observation", "judge"}

(* A page adds nothing, says something new, or leaves something open: a    *)
(* conflict with a reference, or a question.                               *)
Quiet == "duplicate or irrelevant"
Decisions == {Quiet, "new", "open"}

ASSUME UndecidedAssumption == None \notin Decisions

NewRow(p, t) == [page |-> p, due |-> t, failures |-> 0, last |-> None, refs |-> None,
                 decision |-> None, checked |-> 0]

Entry == [page : Pages, due : Nat, failures : 0..MaxFailures, last : Texts \cup {None},
          refs : Refs \cup {None}, decision : Decisions \cup {None}, checked : Nat]
File == [after : Nat, failures : 0..MaxFailures, queue : Seq(Entry)]

(* validate_state: no more rows than kMaxQueue, and no page twice. *)
Valid(f) ==
    /\ f \in File /\ Len(f.queue) <= MaxQueue
    /\ \A i, j \in DOMAIN f.queue : f.queue[i].page = f.queue[j].page => i = j

Document == [page : Pages, text : Texts,
             kind : {"relation", "candidate", "verified", "verified open"}]

TypeOK ==
    /\ Valid(disk)
    /\ pc \in Pcs /\ IF pc = "idle" THEN mem = None ELSE Valid(mem)
    /\ now \in Nat /\ infer \in BOOLEAN /\ hits \in Seq(Pages)
    /\ published \subseteq Document /\ text \in [Pages -> Texts]
    /\ clock \in Nat /\ faults \in 0..MaxFaults /\ changes \in 0..MaxChanges
    /\ tried \in [Pages \cup {Search} -> [at : Nat, n : Nat]]

Untold == [at |-> 0, n |-> 0]

(* No file yet.  The clock never shows zero: a tick at zero is refused.    *)
Init ==
    /\ disk = [after |-> 0, failures |-> 0, queue |-> <<>>]
    /\ mem = None /\ pc = "idle" /\ now = 0 /\ infer = FALSE /\ hits = <<>> /\ doc = None
    /\ published = {} /\ text = [p \in Pages |-> FirstText]
    /\ clock = 1 /\ faults = 0 /\ changes = 0
    /\ tried = [p \in Pages \cup {Search} |-> Untold]

-----------------------------------------------------------------------------
(* Persisting, and the two records of a try. *)

Lesser(i, j) == IF i < j THEN i ELSE j

(* write_research replaces the file, and is the last the tick does if it   *)
(* throws.                                                                 *)
Persist(f, next) == mem' = f /\ disk' = f /\ pc' = next

End(f) ==
    /\ disk' = f
    /\ mem' = None /\ pc' = "idle" /\ doc' = None /\ now' = 0 /\ infer' = FALSE /\ hits' = <<>>

(* Mutant: the try is written down when it is over. *)
PersistLater(f, next) == mem' = f /\ disk' = disk /\ pc' = next

Reserve(f, next) == Persist(f, next)

Trying(p) == tried' = [tried EXCEPT ![p] = [at |-> now, n |-> @.n + 1]]
Succeeded(p) == tried' = [tried EXCEPT ![p] = Untold]

-----------------------------------------------------------------------------
(* A tick.  The mutex is only tried: a second tick answers "busy". *)

Tick(granted) ==
    /\ pc = "idle"
    /\ mem' = disk /\ now' = clock /\ infer' = granted /\ doc' = None
    /\ pc' = "search"
    /\ UNCHANGED <<disk, hits, published, world, faults, tried>>

SearchDue == mem.after <= now

NotYet ==
    /\ pc = "search" /\ ~SearchDue
    /\ pc' = "select"
    /\ UNCHANGED <<disk, mem, now, infer, hits, doc, published, world, faults, tried>>

BeginSearch ==
    /\ pc = "search" /\ SearchDue
    /\ LET n == Lesser(MaxFailures, mem.failures + 1) IN
           Reserve([mem EXCEPT !.failures = n, !.after = now + Delay[n]], "answer")
    /\ Trying(Search)
    /\ UNCHANGED <<now, infer, hits, doc, published, world, faults>>

(* Mutant: a page that was never checked makes room, too. *)
AnyRow(q) == DOMAIN q

(* Pages that were checked, and whose last check did not fail. *)
Evictable(q) == {i \in DOMAIN q : q[i].checked # 0 /\ q[i].failures = 0}

(* The first of the rows is in whose field is the least. *)
IsForemost(i, is, q, field) ==
    \A j \in is : q[i][field] < q[j][field] \/ (q[i][field] = q[j][field] /\ i <= j)

(* One page of search results.  They are admitted to a copy that is thrown *)
(* away if one of them is malformed, which SearchFails stands for.         *)
Listed(answer) ==
    /\ pc = "answer"
    /\ hits' = answer /\ pc' = "admit"
    /\ UNCHANGED <<disk, mem, now, infer, doc, published, world, faults, tried>>

Enqueue(q) ==
    /\ mem' = [mem EXCEPT !.queue = Append(q, NewRow(Head(hits), now))]
    /\ hits' = Tail(hits)

Known(p) == \E i \in DOMAIN mem.queue : mem.queue[i].page = p

(* A full queue takes the page in place of the one checked the longest ago.*)
Admit ==
    /\ pc = "admit" /\ hits # <<>> /\ ~Known(Head(hits))
    /\ \/ Len(mem.queue) < MaxQueue /\ Enqueue(mem.queue)
       \/ /\ Len(mem.queue) = MaxQueue
          /\ \E i \in Evictable(mem.queue) :
                 /\ IsForemost(i, Evictable(mem.queue), mem.queue, "checked")
                 /\ Enqueue(RemoveAt(mem.queue, i))
    /\ UNCHANGED <<disk, pc, now, infer, doc, published, world, faults, tried>>

Skip ==
    /\ pc = "admit" /\ hits # <<>>
    /\ \/ Known(Head(hits))
       \/ Len(mem.queue) = MaxQueue /\ Evictable(mem.queue) = {}
    /\ hits' = Tail(hits)
    /\ UNCHANGED <<disk, mem, pc, now, infer, doc, published, world, faults, tried>>

EndSearch ==
    /\ pc = "admit" /\ hits = <<>>
    /\ Persist([mem EXCEPT !.after = now + Hour, !.failures = 0], "select")
    /\ Succeeded(Search)
    /\ UNCHANGED <<now, infer, hits, doc, published, world, faults>>

SearchFails ==
    /\ pc = "answer"
    /\ Persist(mem, "select")
    /\ UNCHANGED <<now, infer, hits, doc, published, world, faults, tried>>

Due(q) == {i \in DOMAIN q : q[i].due <= now}

Nothing ==
    /\ pc = "select" /\ (~infer \/ Due(mem.queue) = {})
    /\ End(disk)
    /\ UNCHANGED <<published, world, faults, tried>>

(* The row of the page moves with its delay before the page is fetched.    *)
Select ==
    /\ pc = "select" /\ infer
    /\ \E i \in Due(mem.queue) :
       LET n == Lesser(MaxFailures, mem.queue[i].failures + 1) IN
       /\ IsForemost(i, Due(mem.queue), mem.queue, "due")
       /\ Reserve([mem EXCEPT !.queue[i].failures = n, !.queue[i].due = now + Delay[n]], "fetch")
       /\ Trying(mem.queue[i].page)
       /\ doc' = [row |-> i, page |-> mem.queue[i].page]
    /\ UNCHANGED <<now, infer, hits, published, world, faults>>

Row == mem.queue[doc.row]

Checked(row) == [row EXCEPT !.checked = now, !.due = now + Day, !.failures = 0]

Done(row) ==
    /\ End([mem EXCEPT !.queue[doc.row] = Checked(row)])
    /\ Succeeded(doc.page)
    /\ UNCHANGED <<world, faults>>

(* The same text against the same references was decided before. *)
Unchanged(refs) ==
    /\ pc = "fetch"
    /\ Row.last = text[doc.page] /\ Row.refs = refs
    /\ Done(Row)
    /\ UNCHANGED published

Decided(t, refs, decision) ==
    [Row EXCEPT !.decision = decision, !.last = t, !.refs = refs]

(* Mutant: the decision is in the row before it is published. *)
DecidedEarly(t, refs, decision) ==
    [mem EXCEPT !.queue[doc.row] = Decided(t, refs, decision)]

Undecided(t, refs, decision) == mem

FirstDocument(decision) == IF decision = "open" THEN "relation" ELSE "observation"

(* The page is fetched, its references are read and the model reviews the  *)
(* text: three calls out of the process, of which only the result shows.   *)
(* What fails among them is Fail, and the page may change before and after.*)
Decide(refs, decision) ==
    /\ pc = "fetch"
    /\ ~(Row.last = text[doc.page] /\ Row.refs = refs)
    /\ IF decision = Quiet
       THEN Done(Decided(text[doc.page], refs, decision)) /\ UNCHANGED published
       ELSE /\ doc' = [row |-> doc.row, page |-> doc.page, text |-> text[doc.page],
                       refs |-> refs, decision |-> decision]
            /\ mem' = Undecided(text[doc.page], refs, decision)
            /\ pc' = FirstDocument(decision)
            /\ UNCHANGED <<disk, now, infer, hits, published, world, faults, tried>>

(* Publishing is two or three calls of the store, each of which may be     *)
(* repeated: the relation that is open, the observation, its judgment.     *)
Item(kind) == [page |-> doc.page, text |-> doc.text, kind |-> kind]

Publish(kind) == published' = published \cup {Item(kind)}

(* Mutant: a failed ingest of the relation is passed over. *)
RelationUnconfirmed ==
    /\ pc = "relation" /\ (Publish("relation") \/ UNCHANGED published)
    /\ pc' = "observation"
    /\ UNCHANGED <<disk, mem, now, infer, hits, doc, world, faults, tried>>

IngestRelation ==
    /\ pc = "relation" /\ Publish("relation")
    /\ pc' = "observation"
    /\ UNCHANGED <<disk, mem, now, infer, hits, doc, world, faults, tried>>

IngestObservation ==
    /\ pc = "observation" /\ Publish("candidate")
    /\ pc' = "judge"
    /\ UNCHANGED <<disk, mem, now, infer, hits, doc, world, faults, tried>>

(* The observation of something open is remembered as such. *)
JudgeVerified ==
    /\ pc = "judge"
    /\ published' = published \cup {Item("verified")}
                        \cup (IF doc.decision = "open" THEN {Item("verified open")} ELSE {})
    /\ Done(Decided(doc.text, doc.refs, doc.decision))

(* Any step of the check fails; a call of the store that fails may have    *)
(* been carried out.  The row keeps the delay it was given.                *)
Fail ==
    /\ pc \in {"fetch", "relation", "observation", "judge"}
    /\ published' \in {published} \cup
           (CASE pc = "relation" -> {published \cup {Item("relation")}}
              [] pc = "observation" -> {published \cup {Item("candidate")}}
              [] pc = "judge" -> {published \cup {Item("verified")} \cup
                                  (IF doc.decision = "open" THEN {Item("verified open")} ELSE {})}
              [] OTHER -> {})
    /\ End(mem)
    /\ UNCHANGED <<world, faults, tried>>

(* The tick ends without another write: the process dies, or a write       *)
(* throws.                                                                 *)
Abandon ==
    /\ pc # "idle" /\ faults < MaxFaults /\ faults' = faults + 1
    /\ End(disk)
    /\ UNCHANGED <<published, world, tried>>

-----------------------------------------------------------------------------
(* The world. *)

Edit(p, t) ==
    /\ changes < MaxChanges /\ changes' = changes + 1
    /\ t # text[p] /\ text' = [text EXCEPT ![p] = t]
    /\ UNCHANGED <<disk, mem, pc, now, infer, hits, doc, published, clock, faults, tried>>

Time ==
    /\ clock < MaxTime /\ clock' = clock + 1
    /\ UNCHANGED <<disk, mem, pc, now, infer, hits, doc, published, text, faults, changes, tried>>

Step ==
    \/ NotYet \/ BeginSearch \/ (\E answer \in Answers : Listed(answer)) \/ Admit \/ Skip
    \/ EndSearch \/ SearchFails \/ Nothing \/ Select
    \/ (\E refs \in Refs : Unchanged(refs) \/ \E d \in Decisions : Decide(refs, d))
    \/ IngestRelation \/ IngestObservation \/ JudgeVerified \/ Fail

Next ==
    \/ \E granted \in BOOLEAN : Tick(granted)
    \/ Step \/ Abandon
    \/ \E p \in Pages, t \in Texts : Edit(p, t)
    \/ Time

Spec == Init /\ [][Next]_vars

(* A tick goes on; the host loop asks for ticks, and the model is not      *)
(* withheld from all of them.                                              *)
FairSpec == Spec /\ WF_vars(Step) /\ SF_vars(Tick(TRUE))

-----------------------------------------------------------------------------
(* A row that says its text was decided to be new or open has that text in *)
(* the store, verified, and what is open beside it: no tick that died or   *)
(* failed makes a page count as published that is not.                     *)
Stored(p, t, kind) == [page |-> p, text |-> t, kind |-> kind] \in published
CheckedIsPublished ==
    \A r \in ToSet(disk.queue) :
        /\ r.decision \in {"new", "open"} => Stored(r.page, r.last, "verified")
        /\ r.decision = "open" => Stored(r.page, r.last, "relation")

(* current.md:310-312: "a partial publication cannot hide a lost conflict  *)
(* behind its own newly verified duplicate": whatever is verified of an    *)
(* open text has its relation on file, wherever publishing stopped.        *)
ConflictNotHidden ==
    \A i \in published : i.kind = "verified open" => Stored(i.page, i.text, "relation")

(* current.md:326-327: the n-th failure in a row is retried after its delay*)
(* and not before, whether it was an error, a failed write or a crash.     *)
AttemptsSpaced ==
    [][\A p \in Pages \cup {Search} :
           tried'[p].n > tried[p].n /\ tried[p].n > 0 =>
               now >= tried[p].at + Delay[Lesser(MaxFailures, tried[p].n)]]_vars

(* A page that entered the frontier is tried at last: not crowded out by   *)
(* newer ones, nor forgotten by a tick that fails or dies.                 *)
Queued(p) == \E r \in ToSet(disk.queue) : r.page = p
Untried(p) == \E r \in ToSet(disk.queue) : r.page = p /\ r.failures = 0 /\ r.checked = 0
EveryPageTried == \A p \in Pages : Untried(p) ~> Queued(p) /\ ~Untried(p)
=============================================================================
