------------------------------ MODULE Evidence ------------------------------
(***************************************************************************)
(* Evidence maintenance of the C++ memory store (evidence.cpp): a check of *)
(* every verified node, bound to the source it came from, is leased to a   *)
(* worker, whose result makes the node current for a while.                *)
(*                                                                         *)
(* A worker is a client of memory-store: it asks for the next check,       *)
(* compares the source with the world and reports.  A report may be sent   *)
(* twice, late or with another outcome, and every command may stop between *)
(* two round trips to MongoDB.                                             *)
(***************************************************************************)
EXTENDS Integers, Sequences, FiniteSets

CONSTANTS Node,        \* nodes, in the order of their ids; one binding each
          Source,      \* sources of committed runs
          Profile,     \* source -> "host", "document" or "unsupported"
          Worker, None,
          Lease,       \* kEvidenceLeaseMs
          Ttl,         \* "host" -> kHostTtlMs, "document" -> kDocumentTtlMs
          Backoff,     \* failed attempts -> delay of the next one: evidence_backoff
          Attempts,    \* kEvidenceAttempts
          Batch,       \* nodes per pass of the discovery
          MaxTime, MaxLeases,  \* bounds on the clock, on the leases granted
          MaxChanges, MaxFaults  \* bounds on judgments and commits, on failures

ASSUME NodeAssumption == Node \subseteq Nat /\ None \notin Nat \cup Source
ASSUME TimeAssumption == /\ Lease \in Nat \ {0} /\ Attempts \in Nat \ {0}
                         /\ Batch \in Nat \ {0} /\ Ttl \in [{"host", "document"} -> Nat \ {0}]
                         /\ Backoff \in [1..(Attempts - 1) -> Nat \ {0}]
ASSUME ProfileAssumption == Profile \in [Source -> DOMAIN Ttl \cup {"unsupported"}]
ASSUME BoundAssumption == MaxTime \in Nat /\ MaxLeases \in Nat
                          /\ MaxChanges \in Nat /\ MaxFaults \in Nat

VARIABLES now,       \* the clock of the host
          verified,  \* nodes judged verified
          origin,    \* node -> source committed_source finds
          checks,    \* evidence_checks: node -> check, or None
          history,   \* evidence_check_runs: lease -> result, or None
          after,     \* evidence_maintenance: where the discovery goes on
          granted,   \* leases granted so far; the last one is the newest
          worker,    \* local state of the workers
          results,   \* auxiliary: node -> the leases whose results were recorded
          changes,   \* judgments and commits so far
          faults     \* commands that failed, answers that were lost

world == <<verified, origin, changes>>
store == <<checks, history, after, granted, results>>
vars == <<now, world, store, worker, faults>>

Token == 1..MaxLeases
Outcome == {"fresh", "changed", "unavailable", "unsupported"}
State == {"pending", "fresh", "changed", "retry", "exception"}
Kind == DOMAIN Ttl \cup {"unsupported"}
Check == [source : Source, state : State, profile : Kind, attempts : Nat,
          due : Nat, until : Nat, checked : Nat, expires : Nat,
          token : Token \cup {None}, last : Token \cup {None}]
Result == [node : Node, source : Source, outcome : Outcome, observed : Source \cup {None},
           successor : Node \cup {None}, kind : Kind, checked : Nat]

ASSUME RecordAssumption == None \notin Check /\ None \notin Result

Pc == {"idle", "enroll", "bind", "reconcile", "claim", "claim_any", "describe",
       "hold", "log", "rearm", "record"}

Local == [pc : Pc, now : 0..MaxTime, todo : SUBSET Node, stop : Node \cup {None},
          run : Source \cup {None}, row : Check \cup {None}, node : Node \cup {None},
          token : Token \cup {None}, until : Nat, canonical : BOOLEAN,
          result : Result \cup {None}]

TypeOK ==
    /\ now \in 0..MaxTime
    /\ verified \subseteq Node /\ origin \in [Node -> Source] /\ changes \in 0..MaxChanges
    /\ faults \in 0..MaxFaults
    /\ checks \in [Node -> Check \cup {None}]
    /\ history \in [Token -> Result \cup {None}]
    /\ after \in Node \cup {None} /\ granted \in 0..MaxLeases
    /\ worker \in [Worker -> Local]
    /\ results \in [Node -> Seq(Token)]

Idle == [pc |-> "idle", now |-> 0, todo |-> {}, stop |-> None, run |-> None, row |-> None, node |-> None,
         token |-> None, until |-> 0, canonical |-> FALSE, result |-> None]

Init ==
    /\ now = 0 /\ changes = 0 /\ faults = 0 /\ granted = 0 /\ after = None
    /\ verified = Node
    /\ origin \in [Node -> Source]
    /\ checks = [n \in Node |-> None]
    /\ history = [t \in Token |-> None]
    /\ worker = [w \in Worker |-> Idle]
    /\ results = [n \in Node |-> <<>>]

Goto(w, pc) == worker' = [worker EXCEPT ![w].pc = pc]
Return(w) == worker' = [worker EXCEPT ![w] = Idle]
(* The worker holds its job again after a report that failed or whose answer is lost. *)
Hold(w) == worker' = [worker EXCEPT ![w].pc = "hold", ![w].result = None, ![w].row = None]

Checked == {n \in Node : checks[n] # None}
IsSmallest(x, S) == x \in S /\ \A y \in S : x <= y
IsLargest(x, S) == x \in S /\ \A y \in S : x >= y

-----------------------------------------------------------------------------
(* next: the interrupted leases, the discovery, the claim. *)

Interrupted(n) ==
    /\ checks[n].token # None
    /\ checks[n].until <= now
    /\ checks[n].attempts >= Attempts

(* A call of next reads the clock once.  It first escalates the checks whose *)
(* last worker was lost, then reads the verified nodes of one pass: at most  *)
(* Batch of them, after the cursor.                                          *)
StartNext(w) ==
    LET ahead == {n \in verified : after = None \/ n > after}
        batch == {n \in ahead : Cardinality({m \in ahead : m < n}) < Batch}
    IN /\ worker[w].pc = "idle"
       /\ checks' = [n \in Node |->
                       IF n \in Checked /\ Interrupted(n)
                       THEN [checks[n] EXCEPT !.state = "exception", !.token = None,
                                              !.due = now + Ttl["document"], !.until = 0]
                       ELSE checks[n]]
       /\ \E stop \in Node \cup {None} :
              /\ IF batch = {} THEN stop = None ELSE IsLargest(stop, batch)
              /\ worker' = [worker EXCEPT ![w].pc = "enroll", ![w].now = now,
                                          ![w].todo = batch, ![w].stop = stop]
       /\ UNCHANGED <<faults, now, world, history, after, granted, results>>

(* committed_source. *)
FindRun(w) ==
    /\ worker[w].pc = "enroll"
    /\ \E n \in Node :
           /\ IsSmallest(n, worker[w].todo)
           /\ worker' = [worker EXCEPT ![w].pc = "bind", ![w].node = n, ![w].run = origin[n]]
    /\ UNCHANGED <<faults, now, world, store>>

Pending(s, t) ==
    [source |-> s, state |-> "pending", profile |-> "unsupported", attempts |-> 0, due |-> t,
     until |-> 0, checked |-> 0, expires |-> 0, token |-> None, last |-> None]

(* The check is inserted if the node has none, then read with its node. *)
Bind(w) ==
    LET n == worker[w].node
        row == IF checks[n] = None THEN Pending(worker[w].run, worker[w].now) ELSE checks[n]
    IN /\ worker[w].pc = "bind"
       /\ checks' = [checks EXCEPT ![n] = row]
       /\ worker' = [worker EXCEPT ![w].pc = "reconcile", ![w].row = row,
                                   ![w].canonical = n \in verified]
       /\ UNCHANGED <<faults, now, world, history, after, granted, results>>

(* The discovery writes to a check only while it is idle and as it was read. *)
StillIdle(w) == LET n == worker[w].node IN
    /\ checks[n].source = worker[w].row.source
    /\ checks[n].until <= worker[w].now

Moved(w) == worker[w].row.source # worker[w].run \/ ~worker[w].canonical

Retired(w) == /\ worker[w].row.state = "changed"
              /\ worker[w].row.due > worker[w].now + Ttl["document"]

(* Mutant: a check bound to another source keeps its state and its window. *)
ReboundAsItWas(w) == [checks[worker[w].node] EXCEPT !.source = worker[w].run, !.token = None]

(* A changed binding clears lease and proof and requires a new check. *)
Rebound(w) == Pending(worker[w].run, worker[w].now)

Reconcile(w) ==
    LET n == worker[w].node IN
    /\ worker[w].pc = "reconcile"
    /\ checks' = [checks EXCEPT ![n] =
                    IF ~StillIdle(w) THEN @
                    ELSE IF Moved(w) THEN Rebound(w)
                    ELSE IF Retired(w) /\ @.due = worker[w].row.due
                         THEN [@ EXCEPT !.due = worker[w].now]
                         ELSE @]
    /\ worker' = [worker EXCEPT ![w].pc = "enroll", ![w].node = None, ![w].run = None,
                                ![w].row = None, ![w].canonical = FALSE,
                                ![w].todo = @ \ {n}]
    /\ UNCHANGED <<faults, now, world, history, after, granted, results>>

(* Mutant: an empty pass leaves the cursor at the end. *)
StayAtTheEnd(w) == IF worker[w].stop = None THEN after ELSE worker[w].stop

(* The cursor goes on after the pass; an empty pass starts again. *)
Cursor(w) == worker[w].stop

Scanned(w) ==
    /\ worker[w].pc = "enroll"
    /\ worker[w].todo = {}
    /\ after' = Cursor(w)
    /\ worker' = [worker EXCEPT ![w].pc = "claim", ![w].stop = None]
    /\ UNCHANGED <<faults, now, world, checks, history, granted, results>>

(* Mutant: a check is claimed when it is due, whoever holds it. *)
DueWhoeverHolds(w) == {n \in Checked : checks[n].due <= worker[w].now}

Due(w) == {n \in Checked : checks[n].due <= worker[w].now /\ checks[n].until <= worker[w].now}

IsFirst(n, S) ==
    /\ n \in S
    /\ \A m \in S : \/ checks[n].due < checks[m].due
                    \/ checks[n].due = checks[m].due /\ n <= m

(* The claim of the first of S, by findAndModify. *)
Grant(w, S) ==
    LET lease == granted + 1 IN
    /\ granted < MaxLeases /\ granted' = lease
    /\ \E n \in Node :
          /\ IsFirst(n, S)
          /\ checks' = [checks EXCEPT ![n].token = lease, ![n].until = worker[w].now + Lease,
                                      ![n].attempts = @ + 1]
          /\ worker' = [worker EXCEPT ![w].pc = "describe", ![w].node = n, ![w].token = lease,
                                      ![w].run = checks[n].source, ![w].now = 0,
                                      ![w].until = worker[w].now + Lease]

Reproducible == {n \in Checked : checks[n].profile # "unsupported"}

Claim(w) ==
    /\ worker[w].pc = "claim"
    /\ Grant(w, Due(w) \cap Reproducible)
    /\ UNCHANGED <<faults, now, world, history, after, results>>

NoneReproducible(w) ==
    /\ worker[w].pc = "claim"
    /\ Due(w) \cap Reproducible = {} \/ granted = MaxLeases
    /\ Goto(w, "claim_any")
    /\ UNCHANGED <<faults, now, world, store>>

ClaimAny(w) ==
    /\ worker[w].pc = "claim_any"
    /\ Grant(w, Due(w))
    /\ UNCHANGED <<faults, now, world, history, after, results>>

(* "idle". *)
NothingDue(w) ==
    /\ worker[w].pc = "claim_any"
    /\ Due(w) = {} \/ granted = MaxLeases
    /\ Return(w)
    /\ UNCHANGED <<faults, now, world, store>>

(* The source decides the profile, unless the lease is gone by now. *)
Describe(w) ==
    LET n == worker[w].node IN
    /\ worker[w].pc = "describe"
    /\ checks' = IF checks[n].token = worker[w].token
                 THEN [checks EXCEPT ![n].profile = Profile[worker[w].run]] ELSE checks
    /\ worker' = [worker EXCEPT ![w].pc = "hold", ![w].canonical = n \in verified]
    /\ UNCHANGED <<faults, now, world, history, after, granted, results>>

-----------------------------------------------------------------------------
(* complete. *)

(* What a worker may report of its job, godbrain_evidence::check.  The hash *)
(* it observed is the source itself, that of the successor it published, or *)
(* one of no source.                                                        *)
Reports(w) ==
    LET job == worker[w]
        Said(outcome, observed, successor) ==
            [outcome |-> outcome, observed |-> observed, successor |-> successor]
    IN IF ~job.canonical THEN {Said("unavailable", None, None)}
       ELSE IF Profile[job.run] = "unsupported" THEN {Said("unsupported", None, None)}
       ELSE {Said("unavailable", None, None), Said("fresh", job.run, None),
             Said("changed", None, None)}
            \cup {Said("changed", s, m) : s \in Source \ {job.run}, m \in Node \ {job.node}}

Said(r) == [outcome |-> r.outcome, observed |-> r.observed, successor |-> r.successor]

(* The report is accepted for as long as the lease lasts and the node is the *)
(* one that was checked; anything else is an error that changes nothing.     *)
Report(w, said) ==
    LET n == worker[w].node
        row == checks[n]
    IN /\ worker[w].pc = "hold"
       /\ row.token = worker[w].token /\ row.until > now
       /\ said.outcome \in {"fresh", "changed"} => n \in verified
       /\ said.outcome = "fresh" => row.profile # "unsupported" /\ said.observed = row.source
       /\ worker' = [worker EXCEPT ![w].pc = "log", ![w].row = row,
             ![w].result = [node |-> n, source |-> row.source, outcome |-> said.outcome,
                            observed |-> said.observed, successor |-> said.successor,
                            kind |-> row.profile, checked |-> now]]
       /\ UNCHANGED <<faults, now, world, store>>

(* "idempotent_noop": the last result recorded is this one. *)
AlreadyRecorded(w, said) ==
    LET row == checks[worker[w].node] IN
    /\ worker[w].pc = "hold"
    /\ row.last = worker[w].token
    /\ Said(history[row.last]) = said
    /\ Return(w)
    /\ UNCHANGED <<faults, now, world, store>>

(* The result of a lease is inserted once; another one for it is refused. *)
Log(w) ==
    LET t == worker[w].token
        saved == IF history[t] = None THEN worker[w].result ELSE history[t]
    IN /\ worker[w].pc = "log"
       /\ history' = [history EXCEPT ![t] = saved]
       /\ IF saved = [worker[w].result EXCEPT !.checked = saved.checked]
          THEN worker' = [worker EXCEPT ![w].result = saved,
                             ![w].pc = IF saved.successor = None THEN "record" ELSE "rearm"]
          ELSE Hold(w)
       /\ UNCHANGED <<faults, now, world, checks, after, granted, results>>

(* The idle check of the successor is due at once. *)
Rearm(w) ==
    LET m == worker[w].result.successor IN
    /\ worker[w].pc = "rearm"
    /\ checks' = IF /\ checks[m] # None /\ checks[m].source = worker[w].result.observed
                    /\ checks[m].state # "fresh" /\ checks[m].until <= now
                    /\ checks[m].due > now
                 THEN [checks EXCEPT ![m].due = now] ELSE checks
    /\ Goto(w, "record")
    /\ UNCHANGED <<faults, now, world, history, after, granted, results>>

BackoffOf(attempts) == IF attempts >= Attempts THEN Ttl["document"] ELSE Backoff[attempts]

(* Mutant: one failure more than allowed. *)
ExhaustedLater(outcome, attempts) ==
    IF outcome \in {"fresh", "changed"} THEN outcome
    ELSE IF attempts > Attempts THEN "exception" ELSE "retry"

StateOf(outcome, attempts) ==
    IF outcome \in {"fresh", "changed"} THEN outcome
    ELSE IF attempts >= Attempts THEN "exception" ELSE "retry"

RowOf(w) ==
    LET r == worker[w].result
        attempts == worker[w].row.attempts
        fresh == r.outcome = "fresh"
        ttl == IF r.kind = "host" THEN Ttl["host"] ELSE Ttl["document"]
    IN [checks[r.node] EXCEPT
          !.state = StateOf(r.outcome, attempts), !.checked = r.checked,
          !.expires = IF fresh THEN r.checked + ttl ELSE 0,
          !.due = r.checked + (IF fresh THEN ttl \div 2
                               ELSE IF r.outcome = "changed" THEN Ttl["document"]
                               ELSE BackoffOf(attempts)),
          !.until = 0, !.attempts = IF fresh THEN 0 ELSE attempts,
          !.last = worker[w].token, !.token = None]

(* Mutant: the last update is not conditioned on the lease. *)
HeldOnce(w) == worker[w].token # None

StillHeld(w) == /\ checks[worker[w].node].token = worker[w].token
                /\ checks[worker[w].node].until > now

(* The result is recorded, whether or not its answer arrives. *)
Record(w) ==
    LET n == worker[w].node IN
    /\ worker[w].pc = "record"
    /\ StillHeld(w)
    /\ checks' = [checks EXCEPT ![n] = RowOf(w)]
    /\ results' = [results EXCEPT ![n] = Append(@, worker[w].token)]
    /\ \/ Return(w) /\ UNCHANGED faults
       \/ faults < MaxFaults /\ faults' = faults + 1 /\ Hold(w)
    /\ UNCHANGED <<now, world, history, after, granted>>

(* "evidence result lost its lease". *)
LostLease(w) ==
    /\ worker[w].pc = "record"
    /\ ~StillHeld(w)
    /\ Hold(w)
    /\ UNCHANGED <<faults, now, world, store>>

(* The worker leaves its job: its report was refused, or it has none. *)
GiveUp(w) ==
    /\ worker[w].pc = "hold"
    /\ Return(w)
    /\ UNCHANGED <<faults, now, world, store>>

(* The command fails or dies; what it did so far stays. *)
Fail(w) ==
    /\ worker[w].pc \notin {"idle", "hold"}
    /\ faults < MaxFaults
    /\ faults' = faults + 1
    /\ \/ Return(w)
       \/ worker[w].pc \in {"log", "rearm", "record"} /\ Hold(w)
    /\ UNCHANGED <<now, world, store>>

-----------------------------------------------------------------------------
(* The world: time passes, nodes are judged, runs are committed. *)

Tick == now < MaxTime /\ now' = now + 1 /\ UNCHANGED <<world, store, worker, faults>>

Judge(n) ==
    /\ changes < MaxChanges
    /\ changes' = changes + 1
    /\ verified' = IF n \in verified THEN verified \ {n} ELSE verified \cup {n}
    /\ UNCHANGED <<now, origin, store, worker, faults>>

Commit(n, s) ==
    /\ changes < MaxChanges
    /\ changes' = changes + 1
    /\ origin' = [origin EXCEPT ![n] = s]
    /\ UNCHANGED <<now, verified, store, worker, faults>>

NextSteps(w) ==
    \/ StartNext(w) \/ FindRun(w) \/ Bind(w) \/ Reconcile(w) \/ Scanned(w)
    \/ Claim(w) \/ NoneReproducible(w) \/ ClaimAny(w) \/ NothingDue(w) \/ Describe(w)

CompleteSteps(w) ==
    \/ \E said \in Reports(w) : Report(w, said) \/ AlreadyRecorded(w, said)
    \/ Log(w) \/ Rearm(w) \/ Record(w) \/ LostLease(w) \/ GiveUp(w)

Next ==
    \/ \E w \in Worker : NextSteps(w) \/ CompleteSteps(w) \/ Fail(w)
    \/ Tick
    \/ \E n \in Node : Judge(n) \/ \E s \in Source : Commit(n, s)

Spec == Init /\ [][Next]_vars

(* Heal-GodBrain.ps1 asks for checks again and again, and a command that does *)
(* not fail ends.  A worker does not send reports for ever (the kernel sends  *)
(* one of a job): it leaves.                                                  *)
FairSpec == /\ Spec
            /\ \A w \in Worker : /\ WF_vars(NextSteps(w)) /\ WF_vars(CompleteSteps(w))
                                  /\ SF_vars(GiveUp(w))
-----------------------------------------------------------------------------
(* Properties. *)

(* What a search asks of a check, evidence_search_pipeline: not its source, *)
(* nor the result on file.                                                  *)
Searchable(n) ==
    /\ n \in Checked
    /\ checks[n].state = "fresh"
    /\ checks[n].checked <= now /\ checks[n].expires > now
    /\ checks[n].profile \in DOMAIN Ttl
    /\ checks[n].expires = checks[n].checked + Ttl[checks[n].profile]

(* What evidence_current asks on top: the result of the last lease, for the *)
(* same source, time and profile.                                           *)
Proven(n) ==
    /\ checks[n].last # None
    /\ history[checks[n].last] # None
    /\ LET proof == history[checks[n].last] IN
       /\ proof.node = n /\ proof.outcome = "fresh"
       /\ proof.source = checks[n].source /\ proof.observed = checks[n].source
       /\ proof.checked = checks[n].checked /\ proof.kind = checks[n].profile

(* The filter of a search is the weaker one, yet it lets through no check   *)
(* without its proof, whatever was rebound, leased again or reported late.  *)
SearchableIsProven == \A n \in Node : Searchable(n) => Proven(n)

Holding == {"describe", "hold", "log", "rearm", "record"}
Recorded(n, t) == \E i \in 1..Len(results[n]) : results[n][i] = t

(* "Claims have expiring exclusive leases": from the claim until the lease  *)
(* ends or its result is recorded the check carries the lease, although     *)
(* sweeps, rebindings and claims work from a clock read long before.        *)
LeaseExclusive ==
    \A w \in Worker :
        LET job == worker[w] IN
        (job.pc \in Holding /\ ~Recorded(job.node, job.token) /\ now < job.until) =>
            checks[job.node].token = job.token /\ checks[job.node].until = job.until

(* "An old/expired worker cannot overwrite a newer result": the results of a *)
(* check are recorded in the order of the leases, each once, although they   *)
(* are reported late, twice or after a crash.                                *)
RecordedInOrder ==
    \A n \in Node : \A i, j \in 1..Len(results[n]) : i < j => results[n][i] < results[n][j]

(* A check that used up its attempts, by failures or by lost workers, is     *)
(* escalated by the time that it is free again.                              *)
ExhaustedEscalated ==
    \A n \in Checked :
        (checks[n].token = None /\ checks[n].attempts >= Attempts) =>
            checks[n].state \in {"exception", "changed"}

(* The wrapping cursor reaches every node that stays verified, also one      *)
(* judged verified behind it.                                                *)
EveryNodeEnrolled == \A n \in Node : n \in verified ~> n \in Checked \/ n \notin verified

(* What the discovery is said to leave alone: the proof of a verified node,  *)
(* bound to the source that its committed runs have now.                     *)
CurrentProofKept ==
    [][\A n \in verified :
         (Searchable(n) /\ checks[n].source = origin[n]) =>
             checks'[n].source = checks[n].source /\ checks'[n].state # "pending"]_vars
=============================================================================
