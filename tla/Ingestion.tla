----------------------------- MODULE Ingestion ------------------------------
(***************************************************************************)
(* store_ingest of the C++ memory store: many processes ingest extractions *)
(* into one MongoDB.  Every action is one round trip to the database; any  *)
(* two calls interleave between round trips, and a call can die or be      *)
(* delayed past its lease at any of them.                                  *)
(***************************************************************************)
EXTENDS Integers, FiniteSets

CONSTANTS Worker,      \* processes calling store_ingest
          Source,      \* source hashes
          Extractor,   \* extractor id, version and schema version
          Node,        \* knowledge nodes, by stable id
          Layout,      \* ways the same source can be cut into chunks
          Chunk,       \* chunk indexes
          Cut,         \* layout -> the chunks it has; an extraction may bring none
          Payload,     \* extractions offered: nodes, and how the source is cut
          RunId,       \* run ids a call can draw: bounds the number of runs
          None,        \* no run, no lease, no value, nothing to ingest
          Lease,       \* the five minutes an open run may stay silent
          MaxTime,     \* bound on the clock
          ReadFaults   \* may the read-back of a node's _id fail?

ASSUME NoneAssumption == None \notin RunId \cup Layout
ASSUME TimeAssumption == Lease \in Nat /\ MaxTime \in Nat
ASSUME CutAssumption == Cut \in [Layout -> SUBSET Chunk]
ASSUME FaultAssumption == ReadFaults \in BOOLEAN
ASSUME PayloadAssumption == Payload \subseteq [nodes : SUBSET Node, layout : Layout]

VARIABLES runs,         \* ingestion_runs
          observations, \* source_observations: identities seen
          sources,      \* sources
          chunks,       \* chunks: immutable, shared by all runs of an identity
          nodes,        \* knowledge_nodes
          links,        \* run_node_links: run -> nodes
          call,         \* local state of each process
          clock

storeVars == <<observations, sources, chunks, nodes, links>>
vars == <<runs, storeVars, call, clock>>

Identity == Source \X Extractor
Open == {"staging", "validated"}
Staging == {"source", "chunks", "stage"}
Pc == Staging \cup {"idle", "expire", "retry", "start", "observe", "commit"}
Time == 0..MaxTime

(* "payload" is what the run's creator set out to ingest: no field of the *)
(* collection, kept here to say what a committed run should hold.         *)
Run == [status : Open \cup {"none", "committed", "failed"}, active : BOOLEAN,
        lease : RunId \cup {None}, id : Identity \cup {None}, payload : Payload \cup {None},
        retry_of : RunId \cup {None}, created_at : Time, updated_at : Time]
Call == [pc : Pc, id : Identity \cup {None}, payload : Payload \cup {None}, now : Time,
         retry_of : RunId \cup {None}, run : RunId \cup {None}, created : BOOLEAN,
         chunks : SUBSET Chunk, nodes : SUBSET Node, links : SUBSET Node]

Typed ==
    /\ runs \in [RunId -> Run]
    /\ observations \subseteq Identity
    /\ sources \subseteq Source
    /\ chunks \in [Identity \X Chunk -> Layout \cup {None}]
    /\ nodes \subseteq Node
    /\ links \in [RunId -> SUBSET Node]
    /\ call \in [Worker -> Call]
    /\ clock \in Time

(* Whoever is at work, and every run there is, has something to ingest. *)
Filled ==
    /\ \A w \in Worker : call[w].pc # "idle" =>
         call[w].id \in Identity /\ call[w].payload \in Payload
    /\ \A r \in RunId : runs[r].status # "none" =>
         runs[r].id \in Identity /\ runs[r].payload \in Payload

TypeOK == Typed /\ Filled

(* A call that returned: it has forgotten everything it read. *)
IdleCall == [pc |-> "idle", id |-> None, payload |-> None, now |-> 0,
             retry_of |-> None, run |-> None, created |-> FALSE,
             chunks |-> {}, nodes |-> {}, links |-> {}]
NoRun == [status |-> "none", active |-> FALSE, lease |-> None, id |-> None,
          payload |-> None, retry_of |-> None, created_at |-> 0,
          updated_at |-> 0]

Init ==
    /\ runs = [r \in RunId |-> NoRun]
    /\ observations = {}
    /\ sources = {}
    /\ chunks = [slot \in Identity \X Chunk |-> None]
    /\ nodes = {}
    /\ links = [r \in RunId |-> {}]
    /\ call = [w \in Worker |-> IdleCall]
    /\ clock = 0

Goto(w, pc) == call' = [call EXCEPT ![w].pc = pc]
Return(w) == call' = [call EXCEPT ![w] = IdleCall]

-----------------------------------------------------------------------------
(* Opening a run. *)

(* A process enters store_ingest and reads the clock, once for the call. *)
Begin(w, id, payload) ==
    /\ call[w].pc = "idle"
    /\ call' = [call EXCEPT ![w] = [IdleCall EXCEPT !.pc = "expire", !.id = id,
                                    !.payload = payload, !.now = clock]]
    /\ UNCHANGED <<runs, storeVars, clock>>

(* Mutant: the expiry filter forgets to ask for an open status. *)
ExpiredWhateverStatus(r, w) ==
    /\ runs[r].active
    /\ runs[r].id[1] = call[w].id[1]
    /\ runs[r].updated_at < call[w].now - Lease

(* Open runs of the source, by any extractor, that were silent for Lease. *)
Expired(r, w) ==
    /\ runs[r].active
    /\ runs[r].status \in Open
    /\ runs[r].id[1] = call[w].id[1]
    /\ runs[r].updated_at < call[w].now - Lease

(* Mutants: the expiry deactivates the run but leaves its status; the expiry *)
(* stores its error message as the status.                                   *)
ExpiredRunStillOpen(r, w) == [runs[r] EXCEPT !.active = FALSE, !.lease = None,
                                             !.updated_at = call[w].now]
ExpiredRunTimeout(r, w) == [runs[r] EXCEPT !.status = "lease_timeout", !.active = FALSE,
                                           !.lease = None, !.updated_at = call[w].now]

ExpiredRun(r, w) == [runs[r] EXCEPT !.status = "failed", !.active = FALSE,
                                    !.lease = None, !.updated_at = call[w].now]

ExpireLeases(w) ==
    /\ call[w].pc = "expire"
    /\ runs' = [r \in RunId |-> IF Expired(r, w) THEN ExpiredRun(r, w) ELSE runs[r]]
    /\ Goto(w, "retry")
    /\ UNCHANGED <<storeVars, clock>>

(* Mutant: the query for the failed run forgets the extractor. *)
FailedRunsOfSource(i) == {r \in RunId : runs[r].status = "failed" /\ runs[r].id[1] = i[1]}

FailedRuns(i) == {r \in RunId : runs[r].id = i /\ runs[r].status = "failed"}
Newest(r, rs) == \A f \in rs : runs[f].created_at <= runs[r].created_at

(* The newest failed run of the identity; an unreadable cursor counts as none. *)
FindRetryOf(w) ==
    /\ call[w].pc = "retry"
    /\ \E r \in FailedRuns(call[w].id) \cup {None} :
         /\ r # None => Newest(r, FailedRuns(call[w].id))
         /\ call' = [call EXCEPT ![w].pc = "start", ![w].retry_of = r]
    /\ UNCHANGED <<runs, storeVars, clock>>

ActiveRuns(i) == {r \in RunId : runs[r].active /\ runs[r].id = i}
LiveRuns(i) == {r \in ActiveRuns(i) : runs[r].status # "failed"}

NewRun(w, r) == [status |-> "staging", active |-> TRUE, lease |-> r,
                 id |-> call[w].id, payload |-> call[w].payload,
                 retry_of |-> call[w].retry_of, created_at |-> call[w].now,
                 updated_at |-> call[w].now]

(* findAndModify with upsert, under the unique index on active runs. *)
InsertRun(w, r) ==
    /\ call[w].pc = "start"
    /\ LiveRuns(call[w].id) = {}
    /\ ActiveRuns(call[w].id) = {}
    /\ runs[r].status = "none"
    /\ runs' = [runs EXCEPT ![r] = NewRun(w, r)]
    /\ call' = [call EXCEPT ![w].pc = "observe", ![w].run = r, ![w].created = TRUE]
    /\ UNCHANGED <<storeVars, clock>>

(* The upsert, or the find after a duplicate key, meets a committed run. *)
FindCommittedRun(w, r) ==
    /\ call[w].pc = "start"
    /\ r \in LiveRuns(call[w].id)
    /\ runs[r].status = "committed"
    /\ call' = [call EXCEPT ![w].pc = "observe", ![w].run = r, ![w].created = FALSE]
    /\ UNCHANGED <<runs, storeVars, clock>>

(* "Concurrent ingestion detected". *)
ConcurrentIngestion(w, r) ==
    /\ call[w].pc = "start"
    /\ r \in LiveRuns(call[w].id)
    /\ runs[r].status \in Open
    /\ Return(w)
    /\ UNCHANGED <<runs, storeVars, clock>>

(* The observation is written by the no-op path too, which then returns. *)
Observe(w) ==
    /\ call[w].pc = "observe"
    /\ observations' = observations \cup {call[w].id}
    /\ IF call[w].created THEN Goto(w, "source") ELSE Return(w)
    /\ UNCHANGED <<runs, sources, chunks, nodes, links, clock>>

-----------------------------------------------------------------------------
(* Staging: everything is $setOnInsert, so that retries repeat it safely. *)

(* transition_run: compare-and-set on status and lease. *)
Holds(w, status) ==
    /\ runs[call[w].run].status = status
    /\ runs[call[w].run].lease = call[w].run

Moved(run, status) == [run EXCEPT !.status = status, !.updated_at = clock]
FailedNow(run) == [Moved(run, "failed") EXCEPT !.active = FALSE]

(* fail_created_run, and the error return that follows it. *)
FailCreatedRun(w) ==
    /\ runs' = IF Holds(w, "staging")
               THEN [runs EXCEPT ![call[w].run] = FailedNow(@)]
               ELSE runs
    /\ Return(w)
    /\ UNCHANGED <<storeVars, clock>>

(* Any round trip of the staging part, or a bad evidence span, fails. *)
StagingError(w) ==
    /\ call[w].pc \in Staging \cup {"observe"}
    /\ call[w].created
    /\ FailCreatedRun(w)

StageSource(w) ==
    /\ call[w].pc = "source"
    /\ sources' = sources \cup {call[w].id[1]}
    /\ call' = [call EXCEPT ![w].pc = "chunks", ![w].chunks = Cut[call[w].payload.layout]]
    /\ UNCHANGED <<runs, observations, chunks, nodes, links, clock>>

(* Insert the chunk unless it is there, read it back and compare. *)
StageChunk(w, c) ==
    LET slot == <<call[w].id, c>> IN
    /\ call[w].pc = "chunks"
    /\ c \in call[w].chunks
    /\ chunks[slot] \in {None, call[w].payload.layout}
    /\ chunks' = [chunks EXCEPT ![slot] = call[w].payload.layout]
    /\ call' = [call EXCEPT ![w].chunks = @ \ {c}]
    /\ UNCHANGED <<runs, observations, sources, nodes, links, clock>>

ChunkConflict(w, c) ==
    /\ call[w].pc = "chunks"
    /\ c \in call[w].chunks
    /\ chunks[<<call[w].id, c>>] \notin {None, call[w].payload.layout}
    /\ FailCreatedRun(w)

(* The staged run is stamped only by the holder of its lease. *)
StampRun(w) ==
    /\ call[w].pc = "chunks"
    /\ call[w].chunks = {}
    /\ Holds(w, "staging")
    /\ runs' = [runs EXCEPT ![call[w].run].updated_at = call[w].now]
    /\ call' = [call EXCEPT ![w].pc = "stage", ![w].nodes = call[w].payload.nodes,
                            ![w].links = call[w].payload.nodes]
    /\ UNCHANGED <<storeVars, clock>>

(* "ingestion lease expired before staging". *)
LeaseLost(w) ==
    /\ call[w].pc = "chunks"
    /\ call[w].chunks = {}
    /\ ~Holds(w, "staging")
    /\ FailCreatedRun(w)

(* upsert_node: the node is written, then read back for its _id.  When the *)
(* read finds nothing its cursor error is ignored and no link will follow. *)
UpsertNode(w, n) ==
    /\ call[w].pc = "stage"
    /\ n \in call[w].nodes
    /\ nodes' = nodes \cup {n}
    /\ \E found \in IF ReadFaults THEN BOOLEAN ELSE {TRUE} :
         call' = [call EXCEPT ![w].nodes = @ \ {n},
                              ![w].links = IF found THEN @ ELSE @ \ {n}]
    /\ UNCHANGED <<runs, observations, sources, chunks, links, clock>>

LinkNode(w, n) ==
    /\ call[w].pc = "stage"
    /\ call[w].nodes = {}
    /\ n \in call[w].links
    /\ links' = [links EXCEPT ![call[w].run] = @ \cup {n}]
    /\ call' = [call EXCEPT ![w].links = @ \ {n}]
    /\ UNCHANGED <<runs, observations, sources, chunks, nodes, clock>>

-----------------------------------------------------------------------------
(* Committing.  The call then projects the run (module Projection), which *)
(* writes none of these collections, and answers with a receipt.           *)

(* Mutant: validates as soon as the nodes are written, before their links. *)
ValidateUnlinked(w) ==
    /\ call[w].pc = "stage"
    /\ call[w].nodes = {}
    /\ Holds(w, "staging")
    /\ runs' = [runs EXCEPT ![call[w].run] = Moved(@, "validated")]
    /\ Goto(w, "commit")
    /\ UNCHANGED <<storeVars, clock>>

(* transition_run; a lost compare-and-set is an error and changes nothing. *)
Validate(w) ==
    /\ call[w].pc = "stage"
    /\ call[w].nodes = {} /\ call[w].links = {}
    /\ Holds(w, "staging")
    /\ runs' = [runs EXCEPT ![call[w].run] = Moved(@, "validated")]
    /\ Goto(w, "commit")
    /\ UNCHANGED <<storeVars, clock>>

(* Mutant: commits by run id alone, without the compare-and-set. *)
CommitUnfenced(w) ==
    /\ call[w].pc = "commit"
    /\ runs' = [runs EXCEPT ![call[w].run] = Moved(@, "committed")]
    /\ Return(w)
    /\ UNCHANGED <<storeVars, clock>>

Commit(w) ==
    /\ call[w].pc = "commit"
    /\ Holds(w, "validated")
    /\ runs' = [runs EXCEPT ![call[w].run] = Moved(@, "committed")]
    /\ Return(w)
    /\ UNCHANGED <<storeVars, clock>>

(* The process dies, or returns an error on a path that leaves the run as it *)
(* is: a failed findAndModify, a lost transition, a failed fail_created_run.  *)
Abandon(w) ==
    /\ call[w].pc # "idle"
    /\ Return(w)
    /\ UNCHANGED <<runs, storeVars, clock>>

Tick ==
    /\ clock < MaxTime
    /\ clock' = clock + 1
    /\ UNCHANGED <<runs, storeVars, call>>

WorkerStep(w) ==
    \/ \E id \in Identity, payload \in Payload : Begin(w, id, payload)
    \/ ExpireLeases(w) \/ FindRetryOf(w)
    \/ \E r \in RunId : \/ InsertRun(w, r)
                        \/ FindCommittedRun(w, r)
                        \/ ConcurrentIngestion(w, r)
    \/ Observe(w) \/ StagingError(w) \/ StageSource(w)
    \/ \E c \in Chunk : StageChunk(w, c) \/ ChunkConflict(w, c)
    \/ StampRun(w) \/ LeaseLost(w)
    \/ \E n \in Node : UpsertNode(w, n) \/ LinkNode(w, n)
    \/ Validate(w) \/ Commit(w) \/ Abandon(w)

Next == Tick \/ \E w \in Worker : WorkerStep(w)

Spec == Init /\ [][Next]_vars
-----------------------------------------------------------------------------
(* What a reader of committed runs sees of the store. *)
CommittedRuns(i) == {r \in RunId : runs[r].id = i /\ runs[r].status = "committed"}
Published == [i \in Identity |-> {links[r] : r \in CommittedRuns(i)}]
Abstract == INSTANCE Ledger WITH ledger <- Published

(* Properties. *)

(* The store implements the ledger: whatever calls race, expire or die, an  *)
(* identity is published once, in the step that commits its run, and what   *)
(* was published never changes.                                             *)
ImplementsLedger == Abstract!LedgerSpec

(* At most one run per identity is open or committed, whatever processes    *)
(* race, die or outlive their lease: the upsert and the expiry of store.cpp *)
(* must keep "active" and "status" in step for the index to mean this.      *)
OneLiveRun ==
    \A r, s \in RunId :
        /\ runs[r].status \in Open \cup {"committed"}
        /\ runs[s].status \in Open \cup {"committed"}
        /\ runs[r].id = runs[s].id
        => r = s

(* A committed run holds all it set out to ingest: its source, its own      *)
(* chunks (never those of a competing attempt) and a link to each node.     *)
CommittedWhole ==
    \A r \in RunId : runs[r].status = "committed" =>
        /\ links[r] = runs[r].payload.nodes
        /\ links[r] \subseteq nodes
        /\ runs[r].id[1] \in sources /\ runs[r].id \in observations
        /\ \A c \in Cut[runs[r].payload.layout] :
             chunks[<<runs[r].id, c>>] = runs[r].payload.layout

(* Every attempt named by retry_of failed, for the same identity. *)
RetriesFollowFailures ==
    \A r \in RunId : runs[r].retry_of # None =>
        /\ runs[runs[r].retry_of].status = "failed"
        /\ runs[runs[r].retry_of].id = runs[r].id

(* No step takes a run back: committed and failed are final, and validated  *)
(* is left only towards one of them (allowed_run_transition).               *)
RunsOnlyAdvance ==
    [][\A r \in RunId :
         /\ runs[r].status \in {"committed", "failed"} => runs'[r] = runs[r]
         /\ runs[r].status = "validated" => runs'[r].status \notin {"none", "staging"}]_runs
-----------------------------------------------------------------------------
(* The inductive invariant behind these properties. *)

(* The calls that created a run and have not finished with it. *)
Creating(w) ==
    \/ call[w].pc \in Staging \cup {"commit"}
    \/ call[w].pc = "observe" /\ call[w].created

ActiveMeansLive ==
    \A r \in RunId : runs[r].active <=> runs[r].status \in Open \cup {"committed"}

UniqueActive ==
    \A r, s \in RunId :
        runs[r].active /\ runs[s].active /\ runs[r].id = runs[s].id => r = s

(* A creator's run is where the creator left it, or was expired. *)
Owned ==
    \A w \in Worker : Creating(w) =>
        /\ call[w].run \in RunId
        /\ call[w].created
        /\ runs[call[w].run].id = call[w].id
        /\ runs[call[w].run].payload = call[w].payload
        /\ runs[call[w].run].status \in
             {"failed", IF call[w].pc = "commit" THEN "validated" ELSE "staging"}

OwnersDiffer ==
    \A v, w \in Worker :
        Creating(v) /\ Creating(w) /\ call[v].run = call[w].run => v = w

RetryRead ==
    \A w \in Worker : call[w].retry_of # None =>
        /\ runs[call[w].retry_of].status = "failed"
        /\ runs[call[w].retry_of].id = call[w].id

IInv == /\ TypeOK /\ ActiveMeansLive /\ UniqueActive /\ Owned /\ OwnersDiffer
        /\ RetryRead /\ RetriesFollowFailures

(* What a creator has staged so far, when no read-back fails. *)
StagedBy(w) ==
    LET id == call[w].id
        payload == call[w].payload
    IN
    /\ call[w].pc # "observe" => id \in observations
    /\ call[w].pc \in {"chunks", "stage", "commit"} => id[1] \in sources
    /\ \A c \in Cut[payload.layout] :
         \/ call[w].pc \in {"observe", "source"}
         \/ call[w].pc = "chunks" /\ c \in call[w].chunks
         \/ chunks[<<id, c>>] = payload.layout
    /\ call[w].pc \in {"stage", "commit"} =>
         payload.nodes \subseteq nodes \cup call[w].nodes
    /\ links[call[w].run] \cup call[w].links =
         IF call[w].pc \in {"stage", "commit"} THEN payload.nodes ELSE {}
    /\ call[w].pc = "commit" => call[w].nodes = {} /\ call[w].links = {}

Staged == \A w \in Worker : Creating(w) => StagedBy(w)

UnusedRunsUnlinked == \A r \in RunId : runs[r].status = "none" => links[r] = {}

(* A call chooses the nodes to link once it has staged its chunks. *)
LinksLater ==
    \A w \in Worker :
        call[w].pc \in {"idle", "expire", "retry", "start"} => call[w].links = {}

WInv == IInv /\ Staged /\ UnusedRunsUnlinked /\ LinksLater /\ CommittedWhole
=============================================================================
