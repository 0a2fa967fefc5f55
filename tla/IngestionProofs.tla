-------------------------- MODULE IngestionProofs ---------------------------
(* Theorems about Ingestion, for every value of its constants. *)
EXTENDS Ingestion, TLAPS

LEMMA IdleTyped == IdleCall \in Call /\ NoRun \in Run
  BY TimeAssumption DEF IdleCall, NoRun, Call, Run, Pc, Time, Open, Staging

(* The field updates the actions make keep a run and a call well typed. *)
LEMMA RunUpdates ==
  ASSUME NEW run \in Run, NEW status \in Open \cup {"none", "committed", "failed"},
         NEW t \in Time
  PROVE  /\ [run EXCEPT !.updated_at = t] \in Run
         /\ [run EXCEPT !.status = status, !.updated_at = t] \in Run
         /\ [run EXCEPT !.status = status, !.active = FALSE, !.lease = None,
                        !.updated_at = t] \in Run
         /\ [[run EXCEPT !.status = status, !.updated_at = t]
               EXCEPT !.active = FALSE] \in Run
  BY DEF Run

LEMMA TypedStep == TypeOK /\ [Next]_vars => Typed'
<1>. SUFFICES ASSUME TypeOK, [Next]_vars PROVE Typed'
  OBVIOUS
<1>1. CASE UNCHANGED vars
  BY <1>1 DEF TypeOK, Typed, vars, storeVars
<1>2. CASE Tick
  BY <1>2, TimeAssumption DEF Tick, TypeOK, Typed, Time, storeVars
<1>3. ASSUME NEW w \in Worker, WorkerStep(w) PROVE Typed'
  <2> USE <1>3
  <2>0. call[w].pc # "idle" => call[w].id \in Identity /\ call[w].payload \in Payload
    BY DEF TypeOK, Filled
  <2>1. call[w] \in Call /\ clock \in Time
    BY DEF TypeOK, Typed
  <2>2. ASSUME NEW pc \in Pc PROVE [call EXCEPT ![w].pc = pc] \in [Worker -> Call]
    BY <2>1 DEF TypeOK, Typed, Call
  <2>3. [call EXCEPT ![w] = IdleCall] \in [Worker -> Call]
    BY IdleTyped DEF TypeOK, Typed
  <2>4. ASSUME NEW id \in Identity, NEW payload \in Payload, Begin(w, id, payload)
        PROVE Typed'
    <3>1. [IdleCall EXCEPT !.pc = "expire", !.id = id, !.payload = payload, !.now = clock]
            \in Call
      BY <2>1, IdleTyped DEF IdleCall, Call, Pc
    <3>. QED BY <3>1, <2>4 DEF Begin, TypeOK, Typed, storeVars
  <2>5. ASSUME ExpireLeases(w) PROVE Typed'
    <3>1. call[w].now \in Time /\ \A r \in RunId : runs[r] \in Run
      BY <2>1 DEF Call, TypeOK, Typed
    <3>2. \A r \in RunId : ExpiredRun(r, w) \in Run
      BY <3>1, RunUpdates DEF ExpiredRun
    <3>3. runs' \in [RunId -> Run]
      BY <3>1, <3>2, <2>5 DEF ExpireLeases
    <3>4. call' \in [Worker -> Call]
      BY <2>2, <2>5 DEF ExpireLeases, Goto, Pc
    <3>. QED BY <3>3, <3>4, <2>5 DEF ExpireLeases, TypeOK, Typed, storeVars
  <2>6. ASSUME FindRetryOf(w) PROVE Typed'
    <3>1. PICK r \in RunId \cup {None} :
                 call' = [call EXCEPT ![w].pc = "start", ![w].retry_of = r]
      BY <2>6 DEF FindRetryOf, FailedRuns
    <3>2. call' \in [Worker -> Call]
      BY <3>1, <2>1 DEF TypeOK, Typed, Call, Pc
    <3>. QED BY <3>2, <2>6 DEF FindRetryOf, TypeOK, Typed, storeVars
  <2>7. ASSUME NEW r \in RunId, InsertRun(w, r) PROVE Typed'
    <3>1. NewRun(w, r) \in Run
      BY <2>1 DEF NewRun, Run, Call, Open
    <3>2. call' \in [Worker -> Call]
      BY <2>7, <2>1 DEF InsertRun, TypeOK, Typed, Call, Pc
    <3>. QED BY <3>1, <3>2, <2>7 DEF InsertRun, TypeOK, Typed, storeVars
  <2>8. ASSUME NEW r \in RunId, FindCommittedRun(w, r) PROVE Typed'
    BY <2>8, <2>1 DEF FindCommittedRun, TypeOK, Typed, storeVars, Call, Pc
  <2>9. ASSUME NEW r \in RunId, ConcurrentIngestion(w, r) PROVE Typed'
    BY <2>9, <2>3 DEF ConcurrentIngestion, Return, TypeOK, Typed, storeVars
  <2>10. ASSUME Observe(w) PROVE Typed'
    <3>1. call' \in [Worker -> Call]
      BY <2>10, <2>2, <2>3 DEF Observe, Goto, Return, Pc, Staging
    <3>2. call[w].id \in Identity
      BY <2>0, <2>10 DEF Observe
    <3>. QED BY <3>1, <3>2, <2>10 DEF Observe, TypeOK, Typed
  <2>11. ASSUME FailCreatedRun(w) PROVE Typed'
    <3>1. ASSUME call[w].run \in RunId PROVE FailedNow(runs[call[w].run]) \in Run
      BY <3>1, <2>1, RunUpdates DEF FailedNow, Moved, TypeOK, Typed
    <3>2. runs' \in [RunId -> Run]
      BY <3>1, <2>11 DEF FailCreatedRun, TypeOK, Typed
    <3>. QED BY <3>2, <2>3, <2>11 DEF FailCreatedRun, Return, TypeOK, Typed, storeVars
  <2>12. ASSUME StageSource(w) PROVE Typed'
    <3>1. call' \in [Worker -> Call]
      <4>1. Cut[call[w].payload.layout] \subseteq Chunk
        BY <2>0, <2>12, PayloadAssumption, CutAssumption DEF StageSource
      <4>. QED BY <4>1, <2>12, <2>1 DEF StageSource, TypeOK, Typed, Call, Pc, Staging
    <3>2. call[w].id[1] \in Source
      BY <2>0, <2>12 DEF StageSource, Identity
    <3>. QED BY <3>1, <3>2, <2>12 DEF StageSource, TypeOK, Typed
  <2>13. ASSUME NEW c \in Chunk, StageChunk(w, c) PROVE Typed'
    <3>1. call' \in [Worker -> Call]
      BY <2>13, <2>1 DEF StageChunk, TypeOK, Typed, Call
    <3>2. call[w].id \in Identity /\ call[w].payload.layout \in Layout
      BY <2>0, <2>13, PayloadAssumption DEF StageChunk
    <3>3. chunks' \in [Identity \X Chunk -> Layout \cup {None}]
      BY <3>2, <2>13 DEF StageChunk, TypeOK, Typed
    <3>. QED BY <3>1, <3>3, <2>13 DEF StageChunk, TypeOK, Typed
  <2>14. ASSUME StampRun(w) PROVE Typed'
    <3>1. runs' \in [RunId -> Run]
      BY <2>14, <2>1, RunUpdates DEF StampRun, TypeOK, Typed, Call
    <3>2. call' \in [Worker -> Call]
      <4>1. call[w].payload.nodes \in SUBSET Node
        BY <2>0, <2>14, PayloadAssumption DEF StampRun
      <4>2. [call[w] EXCEPT !.pc = "stage", !.nodes = call[w].payload.nodes,
                            !.links = call[w].payload.nodes] \in Call
        BY <2>1, <4>1 DEF Call, Pc, Staging
      <4>3. call' = [call EXCEPT ![w] = [call[w] EXCEPT !.pc = "stage",
                       !.nodes = call[w].payload.nodes, !.links = call[w].payload.nodes]]
        BY <2>14 DEF StampRun, TypeOK, Typed
      <4>. QED BY <4>2, <4>3 DEF TypeOK, Typed
    <3>. QED BY <3>1, <3>2, <2>14 DEF StampRun, TypeOK, Typed, storeVars
  <2>15. ASSUME NEW n \in Node, UpsertNode(w, n) PROVE Typed'
    <3>1. call' \in [Worker -> Call]
      <4>1. PICK kept \in {call[w].links, call[w].links \ {n}} :
              call' = [call EXCEPT ![w].nodes = @ \ {n}, ![w].links = kept]
        BY <2>15 DEF UpsertNode
      <4>2. kept \in SUBSET Node
        BY <2>1 DEF Call
      <4>. QED BY <4>1, <4>2, <2>1 DEF TypeOK, Typed, Call
    <3>. QED BY <3>1, <2>15 DEF UpsertNode, TypeOK, Typed
  <2>16. ASSUME NEW n \in Node, LinkNode(w, n) PROVE Typed'
    <3>1. call' \in [Worker -> Call]
      BY <2>16, <2>1 DEF LinkNode, TypeOK, Typed, Call
    <3>2. links' \in [RunId -> SUBSET Node]
      BY <2>16 DEF LinkNode, TypeOK, Typed
    <3>. QED BY <3>1, <3>2, <2>16 DEF LinkNode, TypeOK, Typed
  <2>17. ASSUME Validate(w) PROVE Typed'
    <3>1. runs' \in [RunId -> Run]
      BY <2>17, <2>1, RunUpdates DEF Validate, Moved, TypeOK, Typed, Open
    <3>. QED BY <3>1, <2>2, <2>17 DEF Validate, Goto, TypeOK, Typed, storeVars, Pc
  <2>18. ASSUME Commit(w) PROVE Typed'
    <3>1. runs' \in [RunId -> Run]
      BY <2>18, <2>1, RunUpdates DEF Commit, Moved, TypeOK, Typed
    <3>. QED BY <3>1, <2>3, <2>18 DEF Commit, Return, TypeOK, Typed, storeVars
  <2>19. ASSUME Abandon(w) PROVE Typed'
    BY <2>19, <2>3 DEF Abandon, Return, TypeOK, Typed, storeVars
  <2>. QED
    BY <2>4, <2>5, <2>6, <2>7, <2>8, <2>9, <2>10, <2>11, <2>12, <2>13, <2>14, <2>15,
       <2>16, <2>17, <2>18, <2>19
       DEF WorkerStep, StagingError, ChunkConflict, LeaseLost
<1>. QED BY <1>1, <1>2, <1>3 DEF Next

(* A step moves the call of one process. *)
LEMMA OneMoves ==
  ASSUME TypeOK, [Next]_vars, NEW v \in Worker, call'[v] # call[v]
  PROVE  WorkerStep(v)
<1>1. ASSUME NEW w \in Worker, WorkerStep(w), w # v PROVE call'[v] = call[v]
  BY <1>1 DEF TypeOK, Typed, WorkerStep, Begin, ExpireLeases, FindRetryOf, InsertRun,
              FindCommittedRun, ConcurrentIngestion, Observe, StagingError, FailCreatedRun,
              StageSource, StageChunk, ChunkConflict, StampRun, LeaseLost, UpsertNode,
              LinkNode, Validate, Commit, Abandon, Goto, Return
<1>. QED BY <1>1 DEF Next, Tick, vars

LEMMA FilledStep == TypeOK /\ [Next]_vars => Filled'
<1>. SUFFICES ASSUME TypeOK, [Next]_vars PROVE Filled'
  OBVIOUS
<1>1. call \in [Worker -> Call] /\ runs \in [RunId -> Run]
  BY DEF TypeOK, Typed
<1>2. ASSUME NEW v \in Worker, call'[v].pc # "idle"
      PROVE  call'[v].id \in Identity /\ call'[v].payload \in Payload
  <2>1. CASE call'[v] = call[v]
    BY <1>2, <2>1 DEF TypeOK, Filled
  <2>2. CASE \E id \in Identity, payload \in Payload : Begin(v, id, payload)
    BY <1>1, <2>2 DEF Begin, IdleCall
  <2>3. CASE Return(v)
    BY <1>1, <1>2, <2>3 DEF Return, IdleCall
  <2>4. ASSUME call[v].pc # "idle", call'[v].id = call[v].id,
               call'[v].payload = call[v].payload
        PROVE  call'[v].id \in Identity /\ call'[v].payload \in Payload
    BY <2>4 DEF TypeOK, Filled
  <2>5. CASE ExpireLeases(v) \/ FindRetryOf(v) \/ StageSource(v) \/ StampRun(v) \/ Validate(v)
    BY <1>1, <2>4, <2>5 DEF ExpireLeases, FindRetryOf, StageSource, StampRun, Validate,
                            Goto, Call
  <2>6. CASE \E r \in RunId : InsertRun(v, r) \/ FindCommittedRun(v, r)
    BY <1>1, <2>4, <2>6 DEF InsertRun, FindCommittedRun, Call
  <2>7. CASE Observe(v)
    BY <1>1, <2>3, <2>4, <2>7 DEF Observe, Goto, Call
  <2>8. CASE \/ \E c \in Chunk : StageChunk(v, c)
             \/ \E n \in Node : LinkNode(v, n)
    BY <1>1, <2>4, <2>8, ZenonT(40) DEF StageChunk, LinkNode, Call
  <2>9. ASSUME NEW n \in Node, UpsertNode(v, n)
        PROVE  call'[v].id \in Identity /\ call'[v].payload \in Payload
    <3>1. PICK kept \in {call[v].links, call[v].links \ {n}} :
            call' = [call EXCEPT ![v].nodes = @ \ {n}, ![v].links = kept]
      BY <2>9 DEF UpsertNode
    <3>. QED BY <1>1, <2>4, <2>9, <3>1 DEF UpsertNode, Call
  <2>. QED
    BY <2>1, <2>2, <2>3, <2>5, <2>6, <2>7, <2>8, <2>9, OneMoves
       DEF WorkerStep, ConcurrentIngestion, StagingError, ChunkConflict, LeaseLost,
           FailCreatedRun, Commit, Abandon
<1>3. ASSUME NEW r \in RunId, runs'[r].status # "none"
      PROVE  runs'[r].id \in Identity /\ runs'[r].payload \in Payload
  <2>1. ASSUME runs[r].status # "none", runs'[r].id = runs[r].id,
               runs'[r].payload = runs[r].payload
        PROVE  runs'[r].id \in Identity /\ runs'[r].payload \in Payload
    BY <2>1 DEF TypeOK, Filled
  <2>2. CASE runs'[r] = runs[r]
    BY <1>3, <2>1, <2>2
  <2>3. ASSUME NEW w \in Worker, WorkerStep(w), runs'[r] # runs[r]
        PROVE  runs'[r].id \in Identity /\ runs'[r].payload \in Payload
    <3>1. CASE ExpireLeases(w)
      BY <1>1, <2>1, <2>3, <3>1 DEF ExpireLeases, Expired, ExpiredRun, Open, Run
    <3>2. ASSUME NEW s \in RunId, InsertRun(w, s)
          PROVE  runs'[r].id \in Identity /\ runs'[r].payload \in Payload
      <4>1. runs'[r] = NewRun(w, r)
        BY <1>1, <2>3, <3>2 DEF InsertRun
      <4>. QED BY <3>2, <4>1 DEF InsertRun, NewRun, TypeOK, Filled
    <3>3. ASSUME call[w].run = r, runs[r].status # "none",
                 \/ runs'[r] = FailedNow(runs[r])
                 \/ runs'[r] = [runs[r] EXCEPT !.updated_at = call[w].now]
                 \/ runs'[r] = Moved(runs[r], "validated")
                 \/ runs'[r] = Moved(runs[r], "committed")
          PROVE  runs'[r].id \in Identity /\ runs'[r].payload \in Payload
      <4>1. runs[r] \in Run
        BY <1>1
      <4>2. runs'[r].id = runs[r].id /\ runs'[r].payload = runs[r].payload
        BY <3>3, <4>1 DEF FailedNow, Moved, Run
      <4>. QED BY <2>1, <3>3, <4>2
    <3>4. CASE FailCreatedRun(w)
      BY <1>1, <2>3, <3>3, <3>4 DEF FailCreatedRun, Holds
    <3>5. CASE StampRun(w)
      BY <1>1, <2>3, <3>3, <3>5 DEF StampRun, Holds
    <3>6. CASE Validate(w) \/ Commit(w)
      BY <1>1, <2>3, <3>3, <3>6 DEF Validate, Commit, Holds
    <3>. QED
      BY <2>3, <3>1, <3>2, <3>4, <3>5, <3>6
         DEF WorkerStep, Begin, FindRetryOf, FindCommittedRun, ConcurrentIngestion, Observe,
             StagingError, StageSource, StageChunk, ChunkConflict, LeaseLost, UpsertNode,
             LinkNode, Abandon
  <2>. QED BY <2>2, <2>3 DEF Next, Tick, vars
<1>. QED BY <1>2, <1>3 DEF Filled

LEMMA TypeStep == TypeOK /\ [Next]_vars => TypeOK'
  BY TypedStep, FilledStep DEF TypeOK

LEMMA TypeInit == Init => TypeOK
  BY IdleTyped, TimeAssumption DEF Init, TypeOK, Typed, Filled, Time, IdleCall, NoRun

(* The state of store_ingest is always well typed. *)
THEOREM TypeCorrect == Spec => []TypeOK
  BY TypeInit, TypeStep, PTL DEF Spec

-----------------------------------------------------------------------------
(* The inductive invariant. *)

(* A step that touches no run, and moves one call without making it a creator *)
(* or letting it cross the border between staging and committing.             *)
LEMMA CallMoves ==
  ASSUME IInv, TypeOK', NEW w \in Worker, runs' = runs,
         \A v \in Worker \ {w} : call'[v] = call[v],
         Creating(w)' =>
           /\ Creating(w)
           /\ call'[w].run = call[w].run /\ call'[w].created = call[w].created
           /\ call'[w].id = call[w].id /\ call'[w].payload = call[w].payload
           /\ call'[w].pc = "commit" <=> call[w].pc = "commit",
         call'[w].retry_of # None =>
           /\ runs[call'[w].retry_of].status = "failed"
           /\ runs[call'[w].retry_of].id = call'[w].id
  PROVE  IInv'
<1>1. ActiveMeansLive' /\ UniqueActive' /\ RetriesFollowFailures'
  BY DEF IInv, ActiveMeansLive, UniqueActive, RetriesFollowFailures
<1>2. \A v \in Worker \ {w} : Creating(v)' <=> Creating(v)
  BY DEF Creating
<1>3. Owned'
  BY <1>2 DEF IInv, Owned
<1>4. OwnersDiffer'
  BY <1>2 DEF IInv, OwnersDiffer
<1>5. RetryRead'
  BY DEF IInv, RetryRead
<1>. QED BY <1>1, <1>3, <1>4, <1>5 DEF IInv

(* A step that changes only the run of creator w, and only its status, its *)
(* active flag, its lease and its times.                                   *)
LEMMA CreatorMoves ==
  ASSUME IInv, TypeOK', NEW w \in Worker, Creating(w), NEW run \in Run,
         runs' = [runs EXCEPT ![call[w].run] = run],
         run.id = runs[call[w].run].id, run.payload = runs[call[w].run].payload,
         run.retry_of = runs[call[w].run].retry_of,
         run.active <=> run.status \in Open \cup {"committed"},
         run.active => runs[call[w].run].active,
         runs[call[w].run].status # "failed",
         \A v \in Worker \ {w} : call'[v] = call[v],
         call'[w].retry_of \in {None, call[w].retry_of},
         Creating(w)' =>
           /\ call'[w].run = call[w].run /\ call'[w].created = call[w].created
           /\ call'[w].id = call[w].id /\ call'[w].payload = call[w].payload
           /\ run.status = IF call'[w].pc = "commit" THEN "validated" ELSE "staging",
         call'[w].id = call[w].id \/ call'[w].retry_of = None
  PROVE  IInv'
<1>1. call[w].run \in RunId /\ runs \in [RunId -> Run]
  BY DEF IInv, Owned, TypeOK, Typed
<1>2. ActiveMeansLive'
  BY <1>1 DEF IInv, ActiveMeansLive
<1>3. UniqueActive'
  BY <1>1 DEF IInv, UniqueActive
<1>4. \A r \in RunId : runs[r].status = "failed" => runs'[r] = runs[r]
  BY <1>1
<1>5. \A r \in RunId : runs'[r].id = runs[r].id /\ runs'[r].retry_of = runs[r].retry_of
  BY <1>1
<1>6. RetriesFollowFailures'
  <2>1. \A r \in RunId : runs[r].retry_of # None => runs[r].retry_of \in RunId
    BY <1>1 DEF Run
  <2>. QED BY <1>4, <1>5, <2>1 DEF IInv, RetriesFollowFailures
<1>7. \A v \in Worker \ {w} : Creating(v)' <=> Creating(v)
  BY DEF Creating
<1>8. \A v \in Worker \ {w} : Creating(v) => call[v].run # call[w].run
  BY DEF IInv, OwnersDiffer
<1>9. Owned'
  <2>1. ASSUME NEW v \in Worker \ {w}, Creating(v) PROVE runs'[call[v].run] = runs[call[v].run]
    BY <1>1, <1>8, <2>1
  <2>. QED BY <1>1, <1>7, <2>1 DEF IInv, Owned
<1>10. OwnersDiffer'
  BY <1>7 DEF IInv, OwnersDiffer
<1>11. RetryRead'
  <2>1. \A v \in Worker : call[v].retry_of # None => call[v].retry_of \in RunId
    BY DEF IInv, TypeOK, Typed, Call
  <2>. QED BY <1>4, <1>5, <2>1 DEF IInv, RetryRead
<1>. QED BY <1>2, <1>3, <1>6, <1>9, <1>10, <1>11 DEF IInv

LEMMA IdleCreatesNothing ==
  ASSUME NEW w \in Worker, TypeOK, Return(w)
  PROVE  /\ ~Creating(w)' /\ call'[w].retry_of = None
         /\ \A v \in Worker \ {w} : call'[v] = call[v]
  BY DEF Return, IdleCall, Creating, TypeOK, Typed, Staging

LEMMA ExpiryKeepsIInv ==
  ASSUME IInv, TypeOK', NEW w \in Worker, ExpireLeases(w) PROVE IInv'
<1>1. runs \in [RunId -> Run] /\ call \in [Worker -> Call]
  BY DEF IInv, TypeOK, Typed
<1>2. \A r \in RunId :
        /\ runs'[r].id = runs[r].id /\ runs'[r].payload = runs[r].payload
        /\ runs'[r].retry_of = runs[r].retry_of
        /\ \/ runs'[r] = runs[r]
           \/ runs'[r].status = "failed" /\ ~runs'[r].active
  BY <1>1 DEF ExpireLeases, ExpiredRun, Run
<1>3. \A v \in Worker :
        /\ Creating(v)' => Creating(v)
        /\ call'[v].run = call[v].run /\ call'[v].id = call[v].id
        /\ call'[v].payload = call[v].payload /\ call'[v].created = call[v].created
        /\ call'[v].retry_of = call[v].retry_of
        /\ call'[v].pc = "commit" <=> call[v].pc = "commit"
  BY <1>1 DEF ExpireLeases, Goto, Creating, Call, Staging
<1>4. ActiveMeansLive' /\ UniqueActive'
  BY <1>2 DEF IInv, ActiveMeansLive, UniqueActive, Open
<1>5. Owned' /\ OwnersDiffer'
  BY <1>2, <1>3 DEF IInv, Owned, OwnersDiffer
<1>6. \A r \in RunId : runs[r].status = "failed" => runs'[r].status = "failed"
  BY <1>2
<1>7. RetryRead'
  <2>1. \A v \in Worker : call[v].retry_of # None => call[v].retry_of \in RunId
    BY <1>1 DEF Call
  <2>. QED BY <1>2, <1>3, <1>6, <2>1 DEF IInv, RetryRead
<1>8. RetriesFollowFailures'
  <2>1. \A r \in RunId : runs[r].retry_of # None => runs[r].retry_of \in RunId
    BY <1>1 DEF Run
  <2>. QED BY <1>2, <1>6, <2>1 DEF IInv, RetriesFollowFailures
<1>. QED BY <1>4, <1>5, <1>7, <1>8 DEF IInv

LEMMA InsertKeepsIInv ==
  ASSUME IInv, TypeOK', NEW w \in Worker, NEW r \in RunId, InsertRun(w, r) PROVE IInv'
<1>1. runs \in [RunId -> Run] /\ call \in [Worker -> Call] /\ call[w].retry_of \in RunId \cup {None}
  BY DEF IInv, TypeOK, Typed, Call
<1>2. /\ runs' = [runs EXCEPT ![r] = NewRun(w, r)] /\ runs[r].status = "none"
      /\ ActiveRuns(call[w].id) = {}
  BY DEF InsertRun
<1>3. \A s \in RunId : s # r => runs'[s] = runs[s]
  BY <1>1, <1>2
<1>4. runs'[r] = NewRun(w, r)
  BY <1>1, <1>2
<1>5. ActiveMeansLive'
  BY <1>3, <1>4 DEF IInv, ActiveMeansLive, NewRun, Open
<1>6. UniqueActive'
  BY <1>2, <1>3, <1>4 DEF IInv, UniqueActive, NewRun, ActiveRuns
<1>7. \A v \in Worker \ {w} : call'[v] = call[v] /\ (Creating(v)' <=> Creating(v))
  BY <1>1 DEF InsertRun, Creating
<1>8. \A v \in Worker \ {w} : Creating(v) => call[v].run # r
  BY <1>2 DEF IInv, Owned
<1>9. /\ call'[w].pc = "observe" /\ call'[w].run = r /\ call'[w].created
      /\ call'[w].id = call[w].id /\ call'[w].payload = call[w].payload
      /\ call'[w].retry_of = call[w].retry_of
  BY <1>1 DEF InsertRun, Call
<1>10. Owned'
  BY <1>3, <1>4, <1>7, <1>8, <1>9 DEF IInv, Owned, NewRun
<1>11. OwnersDiffer'
  BY <1>7, <1>8, <1>9 DEF IInv, OwnersDiffer
<1>12. \A v \in Worker : call[v].retry_of # None => call[v].retry_of \in RunId \ {r}
  BY <1>1, <1>2 DEF IInv, RetryRead, Call
<1>13. RetryRead'
  BY <1>3, <1>7, <1>9, <1>12 DEF IInv, RetryRead
<1>14. \A s \in RunId : runs[s].retry_of # None => runs[s].retry_of \in RunId \ {r}
  BY <1>1, <1>2 DEF IInv, RetriesFollowFailures, Run
<1>15. RetriesFollowFailures'
  <2>1. runs'[r].retry_of # None =>
          /\ runs'[runs'[r].retry_of].status = "failed"
          /\ runs'[runs'[r].retry_of].id = runs'[r].id
    BY <1>3, <1>4, <1>12 DEF IInv, RetryRead, NewRun
  <2>. QED BY <1>3, <1>14, <2>1 DEF IInv, RetriesFollowFailures
<1>. QED BY <1>5, <1>6, <1>10, <1>11, <1>13, <1>15 DEF IInv

LEMMA FailureKeepsIInv ==
  ASSUME IInv, TypeOK', NEW w \in Worker, Creating(w), FailCreatedRun(w) PROVE IInv'
<1>1. /\ ~Creating(w)' /\ call'[w].retry_of = None
      /\ \A v \in Worker \ {w} : call'[v] = call[v]
  BY IdleCreatesNothing DEF FailCreatedRun, IInv
<1>2. CASE Holds(w, "staging")
  <2>1. call[w].run \in RunId /\ runs[call[w].run] \in Run /\ clock \in Time
    BY DEF IInv, Owned, TypeOK, Typed
  <2> DEFINE run == FailedNow(runs[call[w].run])
  <2>2. run \in Run
    BY <2>1, RunUpdates DEF FailedNow, Moved
  <2>3. /\ run.id = runs[call[w].run].id /\ run.payload = runs[call[w].run].payload
        /\ run.retry_of = runs[call[w].run].retry_of
        /\ run.status = "failed" /\ ~run.active
    BY <2>1 DEF FailedNow, Moved, Run
  <2>4. runs' = [runs EXCEPT ![call[w].run] = run]
    BY <1>2 DEF FailCreatedRun
  <2>5. runs[call[w].run].status # "failed"
    BY <1>2 DEF Holds
  <2> HIDE DEF run
  <2>. QED BY <1>1, <2>2, <2>3, <2>4, <2>5, CreatorMoves DEF Open
<1>3. CASE ~Holds(w, "staging")
  BY <1>1, <1>3, CallMoves DEF FailCreatedRun
<1>. QED BY <1>2, <1>3

(* The three transitions of a creator's own run. *)
LEMMA StampKeepsIInv ==
  ASSUME IInv, TypeOK', NEW w \in Worker, StampRun(w) PROVE IInv'
<1>1. Creating(w)
  BY DEF StampRun, Creating, Staging
<1>2. /\ call[w].run \in RunId /\ runs[call[w].run] \in Run
      /\ call \in [Worker -> Call] /\ call[w].now \in Time
  BY <1>1 DEF IInv, Owned, TypeOK, Typed, Call
<1> DEFINE run == [runs[call[w].run] EXCEPT !.updated_at = call[w].now]
<1>3. run \in Run
  BY <1>2, RunUpdates
<1>4. /\ run.id = runs[call[w].run].id /\ run.payload = runs[call[w].run].payload
      /\ run.retry_of = runs[call[w].run].retry_of
      /\ run.status = "staging" /\ run.active = runs[call[w].run].active
  BY <1>2 DEF Run, StampRun, Holds
<1>5. run.active <=> run.status \in Open \cup {"committed"}
  BY <1>2, <1>4 DEF IInv, ActiveMeansLive, StampRun, Holds
<1>6. runs' = [runs EXCEPT ![call[w].run] = run]
  BY DEF StampRun
<1>7. runs[call[w].run].status # "failed"
  BY DEF StampRun, Holds
<1>8. \A v \in Worker \ {w} : call'[v] = call[v]
  BY <1>2 DEF StampRun
<1>9. /\ call'[w].retry_of = call[w].retry_of /\ call'[w].id = call[w].id
      /\ call'[w].run = call[w].run /\ call'[w].created = call[w].created
      /\ call'[w].payload = call[w].payload /\ call'[w].pc = "stage"
  BY <1>2 DEF StampRun, Call
<1> HIDE DEF run
<1>. QED BY <1>1, <1>3, <1>4, <1>5, <1>6, <1>7, <1>8, <1>9, CreatorMoves

LEMMA ValidateKeepsIInv ==
  ASSUME IInv, TypeOK', NEW w \in Worker, Validate(w) PROVE IInv'
<1>1. Creating(w)
  BY DEF Validate, Creating, Staging
<1>2. /\ call[w].run \in RunId /\ runs[call[w].run] \in Run /\ clock \in Time
      /\ call \in [Worker -> Call]
  BY <1>1 DEF IInv, Owned, TypeOK, Typed
<1> DEFINE run == Moved(runs[call[w].run], "validated")
<1>3. run \in Run
  BY <1>2, RunUpdates DEF Moved, Open
<1>4. /\ run.id = runs[call[w].run].id /\ run.payload = runs[call[w].run].payload
      /\ run.retry_of = runs[call[w].run].retry_of
      /\ run.status = "validated" /\ run.active = runs[call[w].run].active
  BY <1>2 DEF Run, Moved
<1>5. run.active <=> run.status \in Open \cup {"committed"}
  BY <1>2, <1>4 DEF IInv, ActiveMeansLive, Validate, Holds, Open
<1>6. runs' = [runs EXCEPT ![call[w].run] = run]
  BY DEF Validate
<1>7. runs[call[w].run].status # "failed"
  BY DEF Validate, Holds
<1>8. \A v \in Worker \ {w} : call'[v] = call[v]
  BY <1>2 DEF Validate, Goto
<1>9. /\ call'[w].retry_of = call[w].retry_of /\ call'[w].id = call[w].id
      /\ call'[w].run = call[w].run /\ call'[w].created = call[w].created
      /\ call'[w].payload = call[w].payload /\ call'[w].pc = "commit"
  BY <1>2 DEF Validate, Goto, Call
<1> HIDE DEF run
<1>. QED BY <1>1, <1>3, <1>4, <1>5, <1>6, <1>7, <1>8, <1>9, CreatorMoves

LEMMA CommitKeepsIInv ==
  ASSUME IInv, TypeOK', NEW w \in Worker, Commit(w) PROVE IInv'
<1>1. Creating(w)
  BY DEF Commit, Creating
<1>2. /\ call[w].run \in RunId /\ runs[call[w].run] \in Run /\ clock \in Time
  BY <1>1 DEF IInv, Owned, TypeOK, Typed
<1> DEFINE run == Moved(runs[call[w].run], "committed")
<1>3. run \in Run
  BY <1>2, RunUpdates DEF Moved
<1>4. /\ run.id = runs[call[w].run].id /\ run.payload = runs[call[w].run].payload
      /\ run.retry_of = runs[call[w].run].retry_of
      /\ run.status = "committed" /\ run.active = runs[call[w].run].active
  BY <1>2 DEF Run, Moved
<1>5. run.active <=> run.status \in Open \cup {"committed"}
  BY <1>2, <1>4 DEF IInv, ActiveMeansLive, Commit, Holds, Open
<1>6. runs' = [runs EXCEPT ![call[w].run] = run]
  BY DEF Commit
<1>7. runs[call[w].run].status # "failed"
  BY DEF Commit, Holds
<1>8. /\ ~Creating(w)' /\ call'[w].retry_of = None
      /\ \A v \in Worker \ {w} : call'[v] = call[v]
  BY IdleCreatesNothing DEF Commit, IInv
<1> HIDE DEF run
<1>. QED BY <1>1, <1>3, <1>4, <1>5, <1>6, <1>7, <1>8, CreatorMoves

(* The steps of a call that leave every run alone. *)
LEMMA ReturnKeepsIInv ==
  ASSUME IInv, TypeOK', NEW w \in Worker, Return(w), runs' = runs PROVE IInv'
<1>1. /\ ~Creating(w)' /\ call'[w].retry_of = None
      /\ \A v \in Worker \ {w} : call'[v] = call[v]
  BY IdleCreatesNothing DEF IInv
<1>. QED BY <1>1, CallMoves

LEMMA CallStepsKeepIInv ==
  ASSUME IInv, TypeOK', NEW w \in Worker,
         \/ \E id \in Identity, payload \in Payload : Begin(w, id, payload)
         \/ FindRetryOf(w) \/ \E r \in RunId : FindCommittedRun(w, r)
         \/ Observe(w) \/ StageSource(w) \/ \E c \in Chunk : StageChunk(w, c)
         \/ \E n \in Node : UpsertNode(w, n) \/ LinkNode(w, n)
  PROVE  IInv'
<1>1. call \in [Worker -> Call] /\ call[w] \in Call
  BY DEF IInv, TypeOK, Typed
<1>2. call[w].retry_of # None =>
        /\ runs[call[w].retry_of].status = "failed"
        /\ runs[call[w].retry_of].id = call[w].id
  BY DEF IInv, RetryRead
<1>3. ASSUME NEW id \in Identity, NEW payload \in Payload, Begin(w, id, payload) PROVE IInv'
  <2>1. \A v \in Worker \ {w} : call'[v] = call[v]
    BY <1>1, <1>3 DEF Begin
  <2>2. ~Creating(w)' /\ call'[w].retry_of = None /\ runs' = runs
    BY <1>1, <1>3 DEF Begin, IdleCall, Creating, Staging
  <2>. QED BY <2>1, <2>2, CallMoves
<1>4. CASE FindRetryOf(w)
  <2>1. PICK r \in FailedRuns(call[w].id) \cup {None} :
               call' = [call EXCEPT ![w].pc = "start", ![w].retry_of = r]
    BY <1>4 DEF FindRetryOf
  <2>2. \A v \in Worker \ {w} : call'[v] = call[v]
    BY <1>1, <2>1
  <2>3. ~Creating(w)' /\ call'[w].retry_of = r /\ call'[w].id = call[w].id /\ runs' = runs
    BY <1>1, <1>4, <2>1 DEF FindRetryOf, Creating, Staging, Call
  <2>4. r # None => runs[r].status = "failed" /\ runs[r].id = call[w].id
    BY DEF FailedRuns
  <2>. QED BY <2>2, <2>3, <2>4, CallMoves
<1>5. ASSUME NEW r \in RunId, FindCommittedRun(w, r) PROVE IInv'
  <2>1. \A v \in Worker \ {w} : call'[v] = call[v]
    BY <1>1, <1>5 DEF FindCommittedRun
  <2>2. /\ ~Creating(w)' /\ runs' = runs
        /\ call'[w].retry_of = call[w].retry_of /\ call'[w].id = call[w].id
    BY <1>1, <1>5 DEF FindCommittedRun, Creating, Staging, Call
  <2>. QED BY <1>2, <2>1, <2>2, CallMoves
<1>6. CASE Observe(w)
  <2>1. CASE call[w].created
    <3>1. \A v \in Worker \ {w} : call'[v] = call[v]
      BY <1>1, <1>6, <2>1 DEF Observe, Goto
    <3>2. /\ Creating(w) /\ call'[w] = [call[w] EXCEPT !.pc = "source"] /\ call[w].pc = "observe"
          /\ runs' = runs
      BY <1>1, <1>6, <2>1 DEF Observe, Goto, Creating
    <3>. QED BY <1>1, <1>2, <3>1, <3>2, CallMoves DEF Call
  <2>2. CASE ~call[w].created
    BY <1>6, <2>2, ReturnKeepsIInv DEF Observe
  <2>. QED BY <2>1, <2>2
<1>7. CASE StageSource(w)
  <2>1. \A v \in Worker \ {w} : call'[v] = call[v]
    BY <1>1, <1>7 DEF StageSource
  <2>2. Creating(w) /\ runs' = runs /\ call[w].pc = "source"
    BY <1>1, <1>7 DEF StageSource, Creating, Staging
  <2>3. /\ call'[w].pc = "chunks" /\ call'[w].run = call[w].run
        /\ call'[w].created = call[w].created /\ call'[w].id = call[w].id
        /\ call'[w].payload = call[w].payload /\ call'[w].retry_of = call[w].retry_of
    BY <1>1, <1>7 DEF StageSource, Call
  <2>. QED BY <1>2, <2>1, <2>2, <2>3, CallMoves
<1>8. ASSUME NEW c \in Chunk, StageChunk(w, c) PROVE IInv'
  <2>1. \A v \in Worker \ {w} : call'[v] = call[v]
    BY <1>1, <1>8 DEF StageChunk
  <2>2. /\ Creating(w) /\ runs' = runs
        /\ call'[w] = [call[w] EXCEPT !.chunks = @ \ {c}]
    BY <1>1, <1>8 DEF StageChunk, Creating, Staging
  <2>. QED BY <1>1, <1>2, <2>1, <2>2, CallMoves DEF Call
<1>9. ASSUME NEW n \in Node, UpsertNode(w, n) PROVE IInv'
  <2>1. PICK kept \in {call[w].links, call[w].links \ {n}} :
          call' = [call EXCEPT ![w].nodes = @ \ {n}, ![w].links = kept]
    BY <1>9 DEF UpsertNode
  <2>2. \A v \in Worker \ {w} : call'[v] = call[v]
    BY <1>1, <2>1
  <2>3. /\ Creating(w) /\ runs' = runs /\ call[w].pc = "stage"
    BY <1>9 DEF UpsertNode, Creating, Staging
  <2>4. /\ call'[w].pc = call[w].pc /\ call'[w].run = call[w].run
        /\ call'[w].created = call[w].created /\ call'[w].id = call[w].id
        /\ call'[w].payload = call[w].payload /\ call'[w].retry_of = call[w].retry_of
    BY <1>1, <2>1 DEF Call
  <2>. QED BY <1>2, <2>2, <2>3, <2>4, CallMoves
<1>10. ASSUME NEW n \in Node, LinkNode(w, n) PROVE IInv'
  <2>1. \A v \in Worker \ {w} : call'[v] = call[v]
    BY <1>1, <1>10 DEF LinkNode
  <2>2. /\ Creating(w) /\ runs' = runs
        /\ call'[w] = [call[w] EXCEPT !.links = @ \ {n}]
    BY <1>1, <1>10 DEF LinkNode, Creating, Staging
  <2>. QED BY <1>1, <1>2, <2>1, <2>2, CallMoves DEF Call
<1>. QED BY <1>3, <1>4, <1>5, <1>6, <1>7, <1>8, <1>9, <1>10

LEMMA InvStep == IInv /\ [Next]_vars => IInv'
<1>. SUFFICES ASSUME IInv, [Next]_vars PROVE IInv'
  OBVIOUS
<1>1. TypeOK'
  BY TypeStep DEF IInv
<1>2. CASE UNCHANGED <<runs, call>>
  BY <1>1, <1>2 DEF IInv, ActiveMeansLive, UniqueActive, Owned, OwnersDiffer, Creating,
                    RetryRead, RetriesFollowFailures
<1>3. ASSUME NEW w \in Worker, WorkerStep(w) PROVE IInv'
  <2>1. CASE ExpireLeases(w)
    BY <1>1, <2>1, ExpiryKeepsIInv
  <2>2. ASSUME NEW r \in RunId, InsertRun(w, r) PROVE IInv'
    BY <1>1, <2>2, InsertKeepsIInv
  <2>3. ASSUME NEW r \in RunId, ConcurrentIngestion(w, r) PROVE IInv'
    BY <1>1, <2>3, ReturnKeepsIInv DEF ConcurrentIngestion
  <2>4. ASSUME FailCreatedRun(w), Creating(w) PROVE IInv'
    BY <1>1, <2>4, FailureKeepsIInv
  <2>5. CASE StagingError(w) \/ LeaseLost(w) \/ \E c \in Chunk : ChunkConflict(w, c)
    BY <2>4, <2>5 DEF StagingError, LeaseLost, ChunkConflict, Creating, Staging
  <2>6. CASE StampRun(w)
    BY <1>1, <2>6, StampKeepsIInv
  <2>7. CASE Validate(w)
    BY <1>1, <2>7, ValidateKeepsIInv
  <2>8. CASE Commit(w)
    BY <1>1, <2>8, CommitKeepsIInv
  <2>9. CASE Abandon(w)
    BY <1>1, <2>9, ReturnKeepsIInv DEF Abandon
  <2>. QED
    BY <1>1, <1>3, <2>1, <2>2, <2>3, <2>5, <2>6, <2>7, <2>8, <2>9, CallStepsKeepIInv
       DEF WorkerStep
<1>. QED BY <1>2, <1>3 DEF Next, Tick, vars

LEMMA InvInit == Init => IInv
<1>. SUFFICES ASSUME Init PROVE IInv
  OBVIOUS
<1>1. TypeOK
  BY TypeInit
<1>2. \A w \in Worker : ~Creating(w) /\ call[w].retry_of = None
  BY DEF Init, IdleCall, Creating, Staging
<1>3. \A r \in RunId : runs[r].status = "none" /\ ~runs[r].active /\ runs[r].retry_of = None
  BY DEF Init, NoRun
<1>4. ActiveMeansLive /\ UniqueActive /\ RetriesFollowFailures
  BY <1>3 DEF ActiveMeansLive, UniqueActive, RetriesFollowFailures, Open
<1>5. Owned /\ OwnersDiffer /\ RetryRead
  BY <1>2 DEF Owned, OwnersDiffer, RetryRead
<1>. QED BY <1>1, <1>4, <1>5 DEF IInv

(* The inductive invariant holds, for any number of processes, sources,    *)
(* extractors and attempts.                                                *)
THEOREM Inductive == Spec => []IInv
  BY InvInit, InvStep, PTL DEF Spec

(* At most one run per identity is open or committed: the unique index on  *)
(* "active", the upsert's filter and the expiry together fence competing   *)
(* calls, however late they are.                                           *)
THEOREM OneLiveRunHolds == Spec => []OneLiveRun
<1>1. IInv => OneLiveRun
  BY DEF IInv, ActiveMeansLive, UniqueActive, OneLiveRun
<1>. QED BY <1>1, Inductive, PTL

(* retry_of, read well before the run it is stored in is inserted, always  *)
(* names a failed run of the same identity.                                *)
THEOREM RetriesHold == Spec => []RetriesFollowFailures
<1>1. IInv => RetriesFollowFailures
  BY DEF IInv
<1>. QED BY <1>1, Inductive, PTL

-----------------------------------------------------------------------------
(* What a step may do to one run. *)

LEMMA RunSteps ==
  ASSUME TypeOK, [Next]_vars, NEW r \in RunId
  PROVE  \/ runs'[r] = runs[r]
         \/ runs[r].status = "none"
         \/ runs[r].status = "staging"
         \/ runs[r].status = "validated" /\ runs'[r].status \in {"committed", "failed"}
<1>1. runs \in [RunId -> Run]
  BY DEF TypeOK, Typed
<1>2. ASSUME NEW w \in Worker, ExpireLeases(w), runs[r].status = "validated",
             runs'[r] # runs[r]
      PROVE  runs'[r].status = "failed"
  BY <1>1, <1>2 DEF ExpireLeases, ExpiredRun, Run
<1>3. ASSUME NEW w \in Worker, ExpireLeases(w), runs'[r] # runs[r]
      PROVE  runs[r].status \in Open
  BY <1>1, <1>3 DEF ExpireLeases, Expired
<1>4. ASSUME NEW w \in Worker, NEW s \in RunId, InsertRun(w, s), runs'[r] # runs[r]
      PROVE  runs[r].status = "none"
  BY <1>1, <1>4 DEF InsertRun
<1>5. ASSUME NEW w \in Worker, FailCreatedRun(w) \/ StampRun(w) \/ Validate(w),
             runs'[r] # runs[r]
      PROVE  runs[r].status = "staging"
  BY <1>1, <1>5 DEF FailCreatedRun, StampRun, Validate, Holds
<1>6. ASSUME NEW w \in Worker, Commit(w), runs'[r] # runs[r]
      PROVE  runs[r].status = "validated" /\ runs'[r].status = "committed"
  BY <1>1, <1>6 DEF Commit, Holds, Moved, Run
<1>7. ASSUME NEW w \in Worker, WorkerStep(w), runs' # runs
      PROVE  \/ ExpireLeases(w) \/ \E s \in RunId : InsertRun(w, s)
             \/ FailCreatedRun(w) \/ StampRun(w) \/ Validate(w) \/ Commit(w)
  BY <1>7 DEF WorkerStep, Begin, FindRetryOf, FindCommittedRun, ConcurrentIngestion, Observe,
              StagingError, StageSource, StageChunk, ChunkConflict, LeaseLost, UpsertNode,
              LinkNode, Abandon
<1>. QED BY <1>2, <1>3, <1>4, <1>5, <1>6, <1>7 DEF Next, Tick, vars, Open

LEMMA CommitsOnlyByCommit ==
  ASSUME TypeOK, [Next]_vars, NEW r \in RunId, runs'[r].status = "committed",
         ~\E w \in Worker : Commit(w)
  PROVE  runs[r].status = "committed"
<1>1. runs \in [RunId -> Run]
  BY DEF TypeOK, Typed
<1>2. ASSUME NEW w \in Worker,
             \/ ExpireLeases(w) \/ FailCreatedRun(w) \/ StampRun(w) \/ Validate(w)
      PROVE  runs[r].status = "committed"
  <2>1. CASE ExpireLeases(w)
    BY <1>1, <2>1 DEF ExpireLeases, ExpiredRun, Run
  <2>2. CASE FailCreatedRun(w)
    BY <1>1, <2>2 DEF FailCreatedRun, FailedNow, Moved, Run
  <2>3. CASE StampRun(w)
    BY <1>1, <2>3 DEF StampRun, Run
  <2>4. CASE Validate(w)
    BY <1>1, <2>4 DEF Validate, Moved, Run
  <2>. QED BY <1>2, <2>1, <2>2, <2>3, <2>4
<1>3. ASSUME NEW w \in Worker, NEW s \in RunId, InsertRun(w, s)
      PROVE  runs[r].status = "committed"
  BY <1>1, <1>3 DEF InsertRun, NewRun
<1>4. CASE runs' = runs
  BY <1>4
<1>5. ASSUME NEW w \in Worker, WorkerStep(w), runs' # runs
      PROVE  \/ ExpireLeases(w) \/ \E s \in RunId : InsertRun(w, s)
             \/ FailCreatedRun(w) \/ StampRun(w) \/ Validate(w)
  BY <1>5 DEF WorkerStep, Begin, FindRetryOf, FindCommittedRun, ConcurrentIngestion, Observe,
              StagingError, StageSource, StageChunk, ChunkConflict, LeaseLost, UpsertNode,
              LinkNode, Abandon
<1>. QED BY <1>2, <1>3, <1>4, <1>5 DEF Next, Tick, vars

(* Committed and failed runs are final, and a validated run is never staged *)
(* again: expiry, error paths and transition_run respect                    *)
(* allowed_run_transition whatever they race with.                          *)
THEOREM RunsAdvance == Spec => RunsOnlyAdvance
<1>1. TypeOK /\ [Next]_vars =>
        [\A r \in RunId :
           /\ runs[r].status \in {"committed", "failed"} => runs'[r] = runs[r]
           /\ runs[r].status = "validated" => runs'[r].status \notin {"none", "staging"}]_runs
  BY RunSteps
<1>. QED BY <1>1, TypeCorrect, PTL DEF Spec, RunsOnlyAdvance

-----------------------------------------------------------------------------
(* The store implements the ledger. *)

LEMMA PublishedKept ==
  ASSUME \A r \in RunId :
           /\ runs'[r].status = "committed" <=> runs[r].status = "committed"
           /\ runs[r].status = "committed" => runs'[r].id = runs[r].id /\ links'[r] = links[r]
  PROVE  Published' = Published
<1>1. \A i \in Identity : CommittedRuns(i)' = CommittedRuns(i)
  BY DEF CommittedRuns
<1>2. \A i \in Identity :
        {links'[r] : r \in CommittedRuns(i)'} = {links[r] : r \in CommittedRuns(i)}
  BY <1>1 DEF CommittedRuns
<1>. QED BY <1>2 DEF Published

LEMMA CommitPublishes ==
  ASSUME IInv, NEW w \in Worker, Commit(w)
  PROVE  Abstract!LedgerNext
<1>1. PICK r \in RunId, i \in Identity : r = call[w].run /\ i = call[w].id
  BY DEF IInv, Owned, Creating, Commit, TypeOK, Filled
<1>2. /\ runs[r].id = i /\ runs \in [RunId -> Run]
      /\ links[r] \in SUBSET Node /\ runs[r].status = "validated"
  BY <1>1 DEF IInv, Owned, Creating, Commit, Holds, TypeOK, Typed
<1>3. CommittedRuns(i) = {}
  BY <1>2 DEF IInv, ActiveMeansLive, UniqueActive, CommittedRuns, Open
<1>4. runs'[r].status = "committed" /\ runs'[r].id = i /\ links' = links
  BY <1>1, <1>2 DEF Commit, Moved, Run, storeVars
<1>5. \A s \in RunId : s # r => runs'[s] = runs[s]
  BY <1>1, <1>2 DEF Commit
<1>6. CommittedRuns(i)' = {r}
  BY <1>2, <1>3, <1>4, <1>5 DEF CommittedRuns
<1>7. \A j \in Identity : j # i => CommittedRuns(j)' = CommittedRuns(j)
  BY <1>2, <1>4, <1>5 DEF CommittedRuns
<1>8. Published[i] = {}
  BY <1>3 DEF Published
<1>9. Published' = [Published EXCEPT ![i] = {links[r]}]
  <2>1. {links'[s] : s \in CommittedRuns(i)'} = {links[r]}
    BY <1>4, <1>6
  <2>2. \A j \in Identity : j # i =>
          {links'[s] : s \in CommittedRuns(j)'} = {links[s] : s \in CommittedRuns(j)}
    BY <1>4, <1>7
  <2>. QED BY <2>1, <2>2 DEF Published
<1>10. Published' # Published
  <2>1. i \in DOMAIN Published
    BY <1>2 DEF Published
  <2>2. Published'[i] = {links[r]}
    BY <1>9, <2>1
  <2>. QED BY <1>8, <2>2
<1>. QED BY <1>2, <1>8, <1>9, <1>10 DEF Abstract!LedgerNext, Abstract!Publish

LEMMA LinksMove ==
  ASSUME [Next]_vars, ~\E w \in Worker, n \in Node : LinkNode(w, n)
  PROVE  links' = links
<1>1. ASSUME NEW w \in Worker, WorkerStep(w) PROVE links' = links
  <2>1. CASE StageSource(w) \/ Observe(w)
    BY <2>1 DEF StageSource, Observe
  <2>2. CASE \E c \in Chunk : StageChunk(w, c)
    BY <2>2 DEF StageChunk
  <2>3. CASE \E n \in Node : UpsertNode(w, n)
    BY <2>3 DEF UpsertNode
  <2>. QED
    BY <1>1, <2>1, <2>2, <2>3
       DEF storeVars, WorkerStep, Begin, ExpireLeases, FindRetryOf, InsertRun,
           FindCommittedRun, ConcurrentIngestion, StagingError, FailCreatedRun,
           ChunkConflict, StampRun, LeaseLost, Validate, Commit, Abandon
<1>. QED BY <1>1 DEF Next, Tick, vars, storeVars

(* Whatever calls race, die, or outlive their lease, an identity is         *)
(* published at most once, in the step that commits its run, and nothing    *)
(* written afterwards, by the same or another attempt, changes it.          *)
THEOREM Implementation == Spec => ImplementsLedger
<1>1. Init => Abstract!LedgerInit
  <2>. SUFFICES ASSUME Init PROVE Published = [i \in Identity |-> {}]
    BY DEF Abstract!LedgerInit
  <2>1. \A i \in Identity : CommittedRuns(i) = {}
    BY DEF Init, NoRun, CommittedRuns
  <2>. QED BY <2>1 DEF Published
<1>2. IInv /\ [Next]_vars => [Abstract!LedgerNext]_Published
  <2>. SUFFICES ASSUME IInv, [Next]_vars PROVE Abstract!LedgerNext \/ Published' = Published
    OBVIOUS
  <2>1. CASE \E w \in Worker : Commit(w)
    BY <2>1, CommitPublishes
  <2>2. CASE \E w \in Worker, n \in Node : LinkNode(w, n)
    <3>1. PICK w \in Worker, n \in Node : LinkNode(w, n)
      BY <2>2
    <3>2. runs[call[w].run].status # "committed"
      BY <3>1 DEF LinkNode, IInv, Owned, Creating, Staging
    <3>3. \A r \in RunId : r # call[w].run => links'[r] = links[r]
      BY <3>1 DEF LinkNode, IInv, TypeOK, Typed
    <3>4. runs' = runs
      BY <3>1 DEF LinkNode
    <3>. QED BY <3>2, <3>3, <3>4, PublishedKept
  <2>3. CASE /\ ~\E w \in Worker : Commit(w)
             /\ ~\E w \in Worker, n \in Node : LinkNode(w, n)
    <3>1. links' = links
      BY <2>3, LinksMove
    <3>2. \A r \in RunId : runs[r].status = "committed" => runs'[r] = runs[r]
      BY RunSteps DEF IInv
    <3>3. \A r \in RunId : runs'[r].status = "committed" => runs[r].status = "committed"
      BY <2>3, CommitsOnlyByCommit DEF IInv
    <3>. QED BY <3>1, <3>2, <3>3, PublishedKept
  <2>. QED BY <2>1, <2>2, <2>3
<1>. QED BY <1>1, <1>2, Inductive, PTL DEF Spec, ImplementsLedger, Abstract!LedgerSpec

-----------------------------------------------------------------------------
(* Committed runs are whole. *)

(* Nothing staged is ever taken away or overwritten. *)
LEMMA StoreGrows ==
  ASSUME TypeOK, [Next]_vars
  PROVE  /\ observations \subseteq observations' /\ sources \subseteq sources'
         /\ nodes \subseteq nodes'
         /\ \A slot \in Identity \X Chunk :
              chunks[slot] \in Layout => chunks'[slot] = chunks[slot]
<1>1. CASE \E w \in Worker, c \in Chunk : StageChunk(w, c)
  <2>1. PICK w \in Worker, c \in Chunk : StageChunk(w, c)
    BY <1>1
  <2>2. \A slot \in Identity \X Chunk :
          chunks[slot] \in Layout => chunks'[slot] = chunks[slot]
    BY <2>1, NoneAssumption DEF StageChunk, TypeOK, Typed
  <2>. QED BY <2>1, <2>2 DEF StageChunk
<1>2. CASE ~\E w \in Worker, c \in Chunk : StageChunk(w, c)
  <2>1. ASSUME NEW w \in Worker, WorkerStep(w)
        PROVE  /\ chunks' = chunks /\ observations \subseteq observations'
               /\ sources \subseteq sources' /\ nodes \subseteq nodes'
    <3>1. CASE \E n \in Node : UpsertNode(w, n)
      BY <3>1 DEF UpsertNode
    <3>2. CASE StageSource(w) \/ Observe(w)
      BY <3>2 DEF StageSource, Observe
    <3>3. CASE \E n \in Node : LinkNode(w, n)
      BY <3>3 DEF LinkNode
    <3>. QED
      BY <1>2, <2>1, <3>1, <3>2, <3>3
         DEF storeVars, WorkerStep, Begin, ExpireLeases, FindRetryOf, InsertRun,
             FindCommittedRun, ConcurrentIngestion, StagingError, FailCreatedRun,
             ChunkConflict, StampRun, LeaseLost, Validate, Commit, Abandon
  <2>. QED BY <2>1 DEF Next, Tick, vars, storeVars
<1>. QED BY <1>1, <1>2

(* The only links a step adds are those of the run its call created. *)
LEMMA LinksKept ==
  ASSUME IInv, [Next]_vars, NEW r \in RunId,
         \A w \in Worker : Creating(w) /\ call[w].run = r => call'[w] = call[w]
  PROVE  links'[r] = links[r]
<1>1. CASE links' = links
  BY <1>1
<1>2. CASE \E w \in Worker, n \in Node : LinkNode(w, n)
  <2>1. PICK w \in Worker, n \in Node : LinkNode(w, n)
    BY <1>2
  <2>2. CASE call[w].run # r
    BY <2>1, <2>2 DEF LinkNode, IInv, TypeOK, Typed
  <2>3. CASE call[w].run = r
    <3>1. Creating(w)
      BY <2>1 DEF LinkNode, Creating, Staging
    <3>2. n \in call[w].links /\ n \notin call'[w].links
      BY <2>1 DEF LinkNode, IInv, TypeOK, Typed, Call
    <3>. QED BY <2>3, <3>1, <3>2
  <2>. QED BY <2>2, <2>3
<1>3. links' # links => \E w \in Worker, n \in Node : LinkNode(w, n)
  BY LinksMove
<1>. QED BY <1>1, <1>2, <1>3

(* What a creator staged stays staged while others work. *)
LEMMA OthersStaged ==
  ASSUME IInv, [Next]_vars, NEW v \in Worker, Creating(v), StagedBy(v), call'[v] = call[v]
  PROVE  StagedBy(v)'
<1>1. /\ call[v].run \in RunId /\ call[v].id \in Identity
      /\ call[v].payload.layout \in Layout
  BY PayloadAssumption DEF IInv, Owned, Creating, Staging, TypeOK, Filled
<1>2. links'[call[v].run] = links[call[v].run]
  BY <1>1, LinksKept DEF IInv, OwnersDiffer
<1>3. \A c \in Cut[call[v].payload.layout] :
          chunks[<<call[v].id, c>>] = call[v].payload.layout =>
          chunks'[<<call[v].id, c>>] = call[v].payload.layout
  BY <1>1, StoreGrows, CutAssumption DEF IInv
<1>4. /\ observations \subseteq observations' /\ sources \subseteq sources'
      /\ nodes \subseteq nodes'
  BY StoreGrows DEF IInv
<1>. QED BY <1>2, <1>3, <1>4 DEF StagedBy

(* Only a call that steps from InsertRun to Commit changes what it staged. *)
LEMMA OwnStaged ==
  ASSUME WInv, ~ReadFaults, [Next]_vars, NEW w \in Worker, WorkerStep(w), Creating(w)'
  PROVE  StagedBy(w)'
<1>1. /\ call \in [Worker -> Call] /\ call[w] \in Call /\ links \in [RunId -> SUBSET Node]
      /\ IInv /\ (Creating(w) => StagedBy(w) /\ call[w].run \in RunId)
  BY DEF WInv, IInv, TypeOK, Typed, Staged, Owned
<1>2. ASSUME NEW r \in RunId, InsertRun(w, r) PROVE StagedBy(w)'
  <2>1. /\ call'[w].pc = "observe" /\ call'[w].run = r /\ call'[w].links = call[w].links
        /\ links' = links
    BY <1>1, <1>2 DEF InsertRun, storeVars, Call
  <2>2. links[r] = {}
    BY <1>2 DEF InsertRun, WInv, UnusedRunsUnlinked
  <2>3. call[w].links = {}
    BY <1>2 DEF InsertRun, WInv, LinksLater
  <2>. QED BY <2>1, <2>2, <2>3 DEF StagedBy
<1>3. CASE Observe(w)
  <2>1. CASE call[w].created
    <3>1. /\ Creating(w) /\ call[w].pc = "observe" /\ links' = links
          /\ observations' = observations \cup {call[w].id}
          /\ call'[w] = [call[w] EXCEPT !.pc = "source"]
      BY <1>1, <1>3, <2>1 DEF Observe, Goto, Creating
    <3>. QED BY <1>1, <3>1 DEF StagedBy, Call
  <2>2. CASE ~call[w].created
    BY <1>1, <1>3, <2>2, IdleCreatesNothing DEF Observe, IInv
  <2>. QED BY <2>1, <2>2
<1>4. CASE StageSource(w)
  <2>1. /\ Creating(w) /\ call[w].pc = "source" /\ links' = links
        /\ observations' = observations /\ sources' = sources \cup {call[w].id[1]}
    BY <1>4 DEF StageSource, Creating, Staging
  <2>2. /\ call'[w].pc = "chunks" /\ call'[w].id = call[w].id /\ call'[w].run = call[w].run
        /\ call'[w].payload = call[w].payload /\ call'[w].links = call[w].links
        /\ call'[w].chunks = Cut[call[w].payload.layout]
    BY <1>1, <1>4 DEF StageSource, Call
  <2>. QED BY <1>1, <2>1, <2>2 DEF StagedBy
<1>5. ASSUME NEW c \in Chunk, StageChunk(w, c) PROVE StagedBy(w)'
  <2>1. /\ Creating(w) /\ call[w].pc = "chunks" /\ links' = links
        /\ observations' = observations /\ sources' = sources
    BY <1>5 DEF StageChunk, Creating, Staging
  <2>2. /\ call'[w].pc = "chunks" /\ call'[w].id = call[w].id /\ call'[w].run = call[w].run
        /\ call'[w].payload = call[w].payload /\ call'[w].links = call[w].links
        /\ call'[w].chunks = call[w].chunks \ {c}
    BY <1>1, <1>5 DEF StageChunk, Call
  <2>3. chunks'[<<call[w].id, c>>] = call[w].payload.layout
    <3>1. call[w].id \in Identity
      BY <1>1, <1>5 DEF StageChunk, IInv, TypeOK, Filled
    <3>. QED BY <1>1, <1>5, <3>1 DEF StageChunk, IInv, TypeOK, Typed
  <2>4. \A d \in Chunk : d # c => chunks'[<<call[w].id, d>>] = chunks[<<call[w].id, d>>]
    BY <1>1, <1>5 DEF StageChunk, IInv, TypeOK, Typed, Call
  <2>5. Cut[call[w].payload.layout] \subseteq Chunk
    BY <1>1, <2>1, PayloadAssumption, CutAssumption DEF IInv, TypeOK, Filled
  <2>. QED BY <1>1, <2>1, <2>2, <2>3, <2>4, <2>5 DEF StagedBy
<1>6. CASE StampRun(w)
  <2>1. /\ Creating(w) /\ call[w].pc = "chunks" /\ links' = links /\ nodes' = nodes
        /\ observations' = observations /\ sources' = sources /\ chunks' = chunks
        /\ call[w].chunks = {}
    BY <1>6 DEF StampRun, Creating, Staging, storeVars
  <2>2. /\ call'[w].pc = "stage" /\ call'[w].id = call[w].id /\ call'[w].run = call[w].run
        /\ call'[w].payload = call[w].payload /\ call'[w].links = call[w].payload.nodes
        /\ call'[w].nodes = call[w].payload.nodes
    BY <1>1, <1>6 DEF StampRun, Call
  <2>. QED BY <1>1, <2>1, <2>2 DEF StagedBy
<1>7. ASSUME NEW n \in Node, UpsertNode(w, n) PROVE StagedBy(w)'
  <2>1. /\ Creating(w) /\ call[w].pc = "stage" /\ links' = links /\ nodes' = nodes \cup {n}
        /\ observations' = observations /\ sources' = sources /\ chunks' = chunks
    BY <1>7 DEF UpsertNode, Creating, Staging
  <2>2. call' = [call EXCEPT ![w].nodes = @ \ {n}, ![w].links = @]
    BY <1>7 DEF UpsertNode, WInv
  <2>3. /\ call'[w].pc = "stage" /\ call'[w].id = call[w].id /\ call'[w].run = call[w].run
        /\ call'[w].payload = call[w].payload /\ call'[w].links = call[w].links
        /\ call'[w].nodes = call[w].nodes \ {n}
    BY <1>1, <2>1, <2>2 DEF Call
  <2>. QED BY <1>1, <2>1, <2>3 DEF StagedBy
<1>8. ASSUME NEW n \in Node, LinkNode(w, n) PROVE StagedBy(w)'
  <2>1. /\ Creating(w) /\ call[w].pc = "stage" /\ nodes' = nodes /\ n \in call[w].links
        /\ observations' = observations /\ sources' = sources /\ chunks' = chunks
    BY <1>8 DEF LinkNode, Creating, Staging
  <2>2. links'[call[w].run] = links[call[w].run] \cup {n}
    BY <1>1, <1>8, <2>1 DEF LinkNode
  <2>3. /\ call'[w].pc = "stage" /\ call'[w].id = call[w].id /\ call'[w].run = call[w].run
        /\ call'[w].payload = call[w].payload /\ call'[w].links = call[w].links \ {n}
        /\ call'[w].nodes = call[w].nodes
    BY <1>1, <1>8, <2>1 DEF LinkNode, Call
  <2>. QED BY <1>1, <2>1, <2>2, <2>3 DEF StagedBy
<1>9. CASE Validate(w)
  <2>1. /\ Creating(w) /\ call[w].pc = "stage" /\ links' = links /\ nodes' = nodes
        /\ observations' = observations /\ sources' = sources /\ chunks' = chunks
        /\ call[w].nodes = {} /\ call[w].links = {}
    BY <1>9 DEF Validate, Creating, Staging, storeVars
  <2>2. /\ call'[w].pc = "commit" /\ call'[w].id = call[w].id /\ call'[w].run = call[w].run
        /\ call'[w].payload = call[w].payload /\ call'[w].links = call[w].links
        /\ call'[w].nodes = call[w].nodes
    BY <1>1, <1>9 DEF Validate, Goto, Call
  <2>. QED BY <1>1, <2>1, <2>2 DEF StagedBy
<1>10. CASE Return(w)
  BY <1>1, <1>10, IdleCreatesNothing DEF IInv
<1>11. CASE \/ \E id \in Identity, payload \in Payload : Begin(w, id, payload)
            \/ ExpireLeases(w) \/ FindRetryOf(w) \/ \E r \in RunId : FindCommittedRun(w, r)
  <2>1. CASE \E id \in Identity, payload \in Payload : Begin(w, id, payload)
    BY <1>1, <2>1 DEF Begin, IdleCall, Creating, Staging
  <2>2. CASE ExpireLeases(w)
    BY <1>1, <2>2 DEF ExpireLeases, Goto, Creating, Staging, Call
  <2>3. CASE FindRetryOf(w)
    BY <1>1, <2>3 DEF FindRetryOf, Creating, Staging, Call
  <2>4. CASE \E r \in RunId : FindCommittedRun(w, r)
    BY <1>1, <2>4 DEF FindCommittedRun, Creating, Staging, Call
  <2>. QED BY <1>11, <2>1, <2>2, <2>3, <2>4
<1>. QED
  BY <1>2, <1>3, <1>4, <1>5, <1>6, <1>7, <1>8, <1>9, <1>10, <1>11
     DEF WorkerStep, ConcurrentIngestion, StagingError, ChunkConflict, LeaseLost,
         FailCreatedRun, Commit, Abandon

LEMMA UsedForever ==
  ASSUME TypeOK, [Next]_vars, NEW r \in RunId, runs'[r].status = "none"
  PROVE  runs[r].status = "none"
<1>1. runs \in [RunId -> Run]
  BY DEF TypeOK, Typed
<1>2. ASSUME NEW w \in Worker, ExpireLeases(w) PROVE runs[r].status = "none"
  BY <1>1, <1>2 DEF ExpireLeases, ExpiredRun, Run
<1>3. ASSUME NEW w \in Worker, FailCreatedRun(w) PROVE runs[r].status = "none"
  BY <1>1, <1>3 DEF FailCreatedRun, FailedNow, Moved, Run
<1>4. ASSUME NEW w \in Worker, StampRun(w) PROVE runs[r].status = "none"
  BY <1>1, <1>4 DEF StampRun, Run
<1>5. CASE runs[r].status # "staging" /\ runs[r].status # "none"
  BY <1>2, <1>5, RunSteps
<1>6. CASE runs[r].status = "staging"
  <2>1. ASSUME NEW w \in Worker, NEW s \in RunId, InsertRun(w, s) PROVE FALSE
    BY <1>1, <1>6, <2>1 DEF InsertRun
  <2>2. ASSUME NEW w \in Worker, Validate(w) \/ Commit(w) PROVE FALSE
    <3>1. \A s \in RunId, status \in {"validated", "committed"} :
            Moved(runs[s], status).status # "none"
      BY <1>1 DEF Moved, Run
    <3>2. runs' = [runs EXCEPT ![call[w].run] = Moved(@, "validated")] \/
          runs' = [runs EXCEPT ![call[w].run] = Moved(@, "committed")]
      BY <2>2 DEF Validate, Commit
    <3>3. runs'[r] = runs[r] \/ runs'[r] = Moved(runs[r], "validated")
            \/ runs'[r] = Moved(runs[r], "committed")
      BY <1>1, <3>2
    <3>. QED BY <1>6, <3>1, <3>3
  <2>3. ASSUME NEW w \in Worker, WorkerStep(w), runs' # runs
        PROVE  \/ ExpireLeases(w) \/ \E s \in RunId : InsertRun(w, s)
               \/ FailCreatedRun(w) \/ StampRun(w) \/ Validate(w) \/ Commit(w)
    BY <2>3 DEF WorkerStep, Begin, FindRetryOf, FindCommittedRun, ConcurrentIngestion, Observe,
                StagingError, StageSource, StageChunk, ChunkConflict, LeaseLost, UpsertNode,
                LinkNode, Abandon
  <2>. QED BY <1>2, <1>3, <1>4, <1>6, <2>1, <2>2, <2>3 DEF Next, Tick, vars
<1>. QED BY <1>5, <1>6

LEMMA LinksLaterStep ==
  ASSUME TypeOK, LinksLater, [Next]_vars
  PROVE  LinksLater'
<1>. SUFFICES ASSUME NEW v \in Worker, call'[v].pc \in {"idle", "expire", "retry", "start"}
              PROVE  call'[v].links = {}
  BY DEF LinksLater
<1>1. call \in [Worker -> Call] /\ call[v] \in Call
  BY DEF TypeOK, Typed
<1>2. CASE call'[v] = call[v]
  BY <1>2 DEF LinksLater
<1>3. CASE Return(v)
  BY <1>1, <1>3 DEF Return, IdleCall
<1>4. CASE \E id \in Identity, payload \in Payload : Begin(v, id, payload)
  BY <1>1, <1>4 DEF Begin, IdleCall
<1>5. CASE ExpireLeases(v)
  <2>1. call[v].pc = "expire" /\ call'[v].links = call[v].links
    BY <1>1, <1>5 DEF ExpireLeases, Goto, Call
  <2>. QED BY <2>1 DEF LinksLater
<1>6. CASE FindRetryOf(v)
  <2>1. call[v].pc = "retry" /\ call'[v].links = call[v].links
    BY <1>1, <1>6 DEF FindRetryOf, Call
  <2>. QED BY <2>1 DEF LinksLater
<1>7. CASE \E r \in RunId : InsertRun(v, r) \/ FindCommittedRun(v, r)
  BY <1>1, <1>7 DEF InsertRun, FindCommittedRun, Call
<1>8. CASE Observe(v)
  BY <1>1, <1>3, <1>8 DEF Observe, Goto, Call
<1>9. CASE StageSource(v)
  BY <1>1, <1>9 DEF StageSource, Call
<1>10. CASE \E c \in Chunk : StageChunk(v, c)
  BY <1>1, <1>10 DEF StageChunk, Call
<1>11. CASE StampRun(v)
  BY <1>1, <1>11 DEF StampRun, Call
<1>12. CASE Validate(v)
  BY <1>1, <1>12 DEF Validate, Goto, Call
<1>13. ASSUME NEW n \in Node, UpsertNode(v, n) PROVE FALSE
  <2>1. PICK kept \in {call[v].links, call[v].links \ {n}} :
          call' = [call EXCEPT ![v].nodes = @ \ {n}, ![v].links = kept]
    BY <1>13 DEF UpsertNode
  <2>2. call'[v].pc = "stage"
    BY <1>1, <1>13, <2>1 DEF UpsertNode, Call
  <2>. QED BY <2>2
<1>14. CASE \E n \in Node : LinkNode(v, n)
  BY <1>1, <1>14 DEF LinkNode, Call
<1>. QED
  BY <1>2, <1>3, <1>4, <1>5, <1>6, <1>7, <1>8, <1>9, <1>10, <1>11, <1>12, <1>13, <1>14, OneMoves
     DEF WorkerStep, ConcurrentIngestion, StagingError, ChunkConflict, LeaseLost,
         FailCreatedRun, Commit, Abandon

LEMMA WholeStep == ~ReadFaults /\ WInv /\ [Next]_vars => WInv'
<1>. SUFFICES ASSUME ~ReadFaults, WInv, [Next]_vars PROVE WInv'
  OBVIOUS
<1>1. IInv /\ TypeOK /\ IInv'
  BY InvStep DEF WInv, IInv
<1>2. Staged'
  <2>. SUFFICES ASSUME NEW v \in Worker, Creating(v)' PROVE StagedBy(v)'
    BY DEF Staged
  <2>1. CASE call'[v] = call[v]
    <3>1. Creating(v)
      BY <2>1 DEF Creating
    <3>. QED BY <1>1, <2>1, <3>1, OthersStaged DEF WInv, Staged
  <2>2. CASE call'[v] # call[v]
    BY <1>1, <2>2, OwnStaged, OneMoves
  <2>. QED BY <2>1, <2>2
<1>3. UnusedRunsUnlinked'
  <2>. SUFFICES ASSUME NEW r \in RunId, runs'[r].status = "none" PROVE links'[r] = {}
    BY DEF UnusedRunsUnlinked
  <2>1. runs[r].status = "none"
    BY <1>1, UsedForever
  <2>2. \A w \in Worker : Creating(w) => call[w].run # r
    BY <1>1, <2>1 DEF IInv, Owned
  <2>3. links'[r] = links[r]
    BY <1>1, <2>2, LinksKept
  <2>. QED BY <2>1, <2>3 DEF WInv, UnusedRunsUnlinked
<1>4. CommittedWhole'
  <2>. SUFFICES ASSUME NEW r \in RunId, runs'[r].status = "committed"
                PROVE  /\ links'[r] = runs'[r].payload.nodes
                       /\ links'[r] \subseteq nodes'
                       /\ runs'[r].id[1] \in sources' /\ runs'[r].id \in observations'
                       /\ \A c \in Cut[runs'[r].payload.layout] :
                            chunks'[<<runs'[r].id, c>>] = runs'[r].payload.layout
    BY DEF CommittedWhole
  <2>1. runs[r] \in Run
    BY <1>1 DEF TypeOK, Typed
  <2>2. CASE runs[r].status = "committed"
    <3>1. runs'[r] = runs[r]
      BY <1>1, <2>2, RunSteps
    <3>2. \A w \in Worker : Creating(w) => call[w].run # r
      BY <1>1, <2>2 DEF IInv, Owned
    <3>3. links'[r] = links[r]
      BY <1>1, <3>2, LinksKept
    <3>4. \A c \in Cut[runs[r].payload.layout] :
            chunks'[<<runs[r].id, c>>] = runs[r].payload.layout
      BY <1>1, <2>1, <2>2, StoreGrows, PayloadAssumption, CutAssumption DEF WInv, CommittedWhole, TypeOK, Filled
    <3>. QED BY <1>1, <2>2, <3>1, <3>3, <3>4, StoreGrows DEF WInv, CommittedWhole
  <2>3. CASE runs[r].status # "committed"
    <3>1. PICK w \in Worker : Commit(w)
      BY <1>1, <2>3, CommitsOnlyByCommit
    <3>2. Creating(w) /\ StagedBy(w) /\ call[w].pc = "commit"
      BY <3>1 DEF Commit, Creating, WInv, Staged
    <3>3. call[w].run \in RunId
      BY <1>1, <3>2 DEF IInv, Owned
    <3>4. call[w].run = r
      BY <1>1, <2>3, <3>1, <3>3 DEF Commit, TypeOK, Typed
    <3>5. /\ runs[r].id = call[w].id /\ runs[r].payload = call[w].payload
      BY <1>1, <3>2, <3>4 DEF IInv, Owned
    <3>6. runs'[r].id = runs[r].id /\ runs'[r].payload = runs[r].payload
      BY <1>1, <2>1, <3>1, <3>4 DEF Commit, Moved, Run, TypeOK, Typed
    <3>7. /\ links' = links /\ nodes' = nodes /\ sources' = sources /\ chunks' = chunks
          /\ observations' = observations
      BY <3>1 DEF Commit, storeVars
    <3>. QED BY <3>2, <3>4, <3>5, <3>6, <3>7 DEF StagedBy
  <2>. QED BY <2>2, <2>3
<1>5. LinksLater'
  BY <1>1, LinksLaterStep DEF WInv
<1>. QED BY <1>1, <1>2, <1>3, <1>4, <1>5 DEF WInv

(* When no read-back of a node fails, every committed run holds what its    *)
(* creator set out to ingest: its chunks as it cut them, its nodes, a link  *)
(* to each.  The lease decides which of two competing attempts commits, and *)
(* the comparison of chunks keeps it from committing the other's.           *)
THEOREM CommitsAreWhole == ~ReadFaults => (Spec => []CommittedWhole)
<1>1. Init => WInv
  <2>. SUFFICES ASSUME Init PROVE WInv
    OBVIOUS
  <2>1. \A w \in Worker : ~Creating(w) /\ call[w].links = {}
    BY DEF Init, IdleCall, Creating, Staging
  <2>2. \A r \in RunId : runs[r].status = "none" /\ links[r] = {}
    BY DEF Init, NoRun
  <2>. QED
    BY <2>1, <2>2, InvInit DEF WInv, Staged, UnusedRunsUnlinked, LinksLater, CommittedWhole
<1>2. WInv => CommittedWhole
  BY DEF WInv
<1>. SUFFICES ASSUME ~ReadFaults PROVE Spec => []CommittedWhole
  OBVIOUS
<1>3. WInv /\ [Next]_vars => WInv'
  BY WholeStep
<1>. QED BY <1>1, <1>2, <1>3, PTL DEF Spec

=============================================================================
