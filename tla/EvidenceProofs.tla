---------------------------- MODULE EvidenceProofs ----------------------------
(* Theorems about Evidence, for every value of its constants. *)
EXTENDS Evidence, SequenceTheorems, TLAPS

Reporting == {"log", "rearm", "record"}

(* What a command has read. *)
ReadOK(job) ==
    /\ job.now <= now
    /\ job.pc \in {"bind", "reconcile"} => job.node \in Node /\ job.run \in Source
    /\ job.pc = "reconcile" => job.row \in Check /\ checks[job.node] \in Check

(* A worker knows the node, the source and the lease that it claimed.      *)
(* While the check carries the lease, it is bound to that source and has,  *)
(* from Describe on, its profile; and it carries it until the lease ends   *)
(* or its result is recorded.                                              *)
HoldOK(job) ==
    job.pc \in Holding =>
        /\ job.node \in Node /\ job.run \in Source /\ job.token \in Token /\ job.token <= granted
        /\ checks[job.node] \in Check
        /\ checks[job.node].token = job.token =>
               /\ checks[job.node].source = job.run
               /\ job.pc # "describe" => checks[job.node].profile = Profile[job.run]
        /\ ~Recorded(job.node, job.token) /\ now < job.until =>
               checks[job.node].token = job.token /\ checks[job.node].until = job.until

(* A report is about what was claimed, and on file once it is logged. *)
ReportOK(job) ==
    job.pc \in Reporting =>
        /\ job.row \in Check /\ job.row.attempts > 0
        /\ job.result \in Result /\ job.result.node = job.node
        /\ job.result.source = job.run /\ job.result.kind = Profile[job.run]
        /\ job.result.outcome = "fresh" => job.result.observed = job.run
        /\ job.pc # "log" => history[job.token] = job.result
        /\ job.pc = "rearm" => job.result.successor \in Node

(* The results of a check are in the order of their leases, all older than *)
(* the lease that it carries; a fresh check has its proof on file; one     *)
(* whose attempts are used up is escalated when it is free.                *)
CheckOK(n) ==
    /\ \A i \in 1..Len(results[n]) : results[n][i] <= granted
    /\ \A i, j \in 1..Len(results[n]) : i < j => results[n][i] < results[n][j]
    /\ checks[n] \in Check =>
           /\ checks[n].token # None =>
                  /\ checks[n].token <= granted /\ checks[n].attempts > 0
                  /\ \A i \in 1..Len(results[n]) : results[n][i] < checks[n].token
           /\ checks[n].state = "fresh" => Proven(n) /\ checks[n].profile = Profile[checks[n].source]
           /\ checks[n].token = None /\ checks[n].attempts >= Attempts =>
                  checks[n].state \in {"exception", "changed"}

JobOK(job) == ReadOK(job) /\ HoldOK(job) /\ ReportOK(job)

(* The inductive invariant. *)
IInv == /\ TypeOK
        /\ \A w \in Worker : JobOK(worker[w])
        /\ \A n \in Node : CheckOK(n)

-----------------------------------------------------------------------------
(* What any step leaves of a check that another worker may hold: its lease *)
(* and its source, unless the lease is over or its result recorded.        *)
Gentle(n) ==
    /\ checks'[n] \in Check
    /\ \/ /\ checks'[n].token = checks[n].token /\ checks'[n].until = checks[n].until
          /\ checks'[n].source = checks[n].source
          /\ checks'[n].profile \in {checks[n].profile, Profile[checks[n].source]}
       \/ /\ checks'[n].token = None \/ checks'[n].token > granted
          /\ \/ checks[n].until <= now
             \/ \E t \in Token : checks[n].token = t /\ Recorded(n, t)'

Frame ==
    /\ now <= now' /\ granted <= granted'
    /\ \A t \in Token : history[t] # None => history'[t] = history[t]
    /\ \A n \in Node, t \in Token : Recorded(n, t) => Recorded(n, t)'
    /\ \A n \in Node : checks[n] \in Check => Gentle(n)

LEMMA Constants ==
    /\ Token \subseteq Nat /\ None \notin Token /\ None \notin Node /\ None \notin Source
    /\ Attempts \in Nat \ {0} /\ Lease \in Nat \ {0} /\ MaxTime \in Nat /\ MaxLeases \in Nat
    /\ \A s \in Source : Profile[s] \in Kind
<1>1. Token \subseteq Nat /\ None \notin Nat /\ None \notin Node /\ None \notin Source
  <2>1. None \notin Nat /\ None \notin Node /\ None \notin Source BY NodeAssumption
  <2>2. Token \subseteq Nat BY BoundAssumption, SMT DEF Token
  <2>3. QED BY <2>1, <2>2
<1>2. \A s \in Source : Profile[s] \in Kind BY ProfileAssumption DEF Kind
<1>3. QED BY <1>1, <1>2, TimeAssumption, BoundAssumption

LEMMA CheckFields ==
    ASSUME NEW c \in Check
    PROVE  /\ c.source \in Source /\ c.state \in State /\ c.profile \in Kind /\ c.attempts \in Nat
           /\ c.due \in Nat /\ c.until \in Nat /\ c.checked \in Nat /\ c.expires \in Nat
           /\ c.token \in Token \cup {None} /\ c.last \in Token \cup {None}
BY DEF Check

LEMMA LocalFields ==
    ASSUME NEW j \in Local
    PROVE  /\ j.pc \in Pc /\ j.now \in 0..MaxTime /\ j.todo \in SUBSET Node
           /\ j.stop \in Node \cup {None} /\ j.run \in Source \cup {None}
           /\ j.row \in Check \cup {None} /\ j.node \in Node \cup {None}
           /\ j.token \in Token \cup {None} /\ j.until \in Nat /\ j.canonical \in BOOLEAN
           /\ j.result \in Result \cup {None}
BY DEF Local

LEMMA IdleLocal == Idle \in Local
<1>1. 0 \in 0..MaxTime /\ {} \in SUBSET Node /\ FALSE \in BOOLEAN BY Constants
<1>2. QED BY <1>1 DEF Idle, Local, Pc

(* A worker that moves on with its lease keeps what holds of it. *)
LEMMA HoldKept ==
    ASSUME IInv, TypeOK', Frame, NEW w \in Worker,
           worker'[w].pc \in Holding =>
               /\ worker[w].pc \in Holding
               /\ worker'[w].node = worker[w].node /\ worker'[w].token = worker[w].token
               /\ worker'[w].until = worker[w].until /\ worker'[w].run = worker[w].run
               /\ worker'[w].pc # "describe" => worker[w].pc # "describe"
    PROVE  HoldOK(worker[w])'
<1> SUFFICES ASSUME worker'[w].pc \in Holding PROVE HoldOK(worker[w])'
  BY DEF HoldOK
<1> DEFINE job == worker[w]
           n == job.node
<1>1. /\ job.pc \in Holding
      /\ worker'[w].node = n /\ worker'[w].token = job.token
      /\ worker'[w].until = job.until /\ worker'[w].run = job.run
      /\ worker'[w].pc # "describe" => job.pc # "describe"
  OBVIOUS
<1>2. HoldOK(job) BY DEF IInv, JobOK
<1>3. n \in Node /\ job.run \in Source /\ job.token \in Token /\ job.token <= granted /\ checks[n] \in Check
  BY <1>1, <1>2 DEF HoldOK
<1>4. granted \in Nat /\ granted' \in Nat /\ job.token \in Nat /\ now \in Nat /\ now' \in Nat /\ job.until \in Nat
  <2>1. worker[w] \in Local /\ granted \in 0..MaxLeases /\ now \in 0..MaxTime BY DEF IInv, TypeOK
  <2>2. granted' \in 0..MaxLeases /\ now' \in 0..MaxTime BY DEF TypeOK
  <2>3. worker[w].until \in Nat BY <2>1, LocalFields
  <2>4. job.token \in Nat BY <1>3, Constants
  <2>5. QED BY <2>1, <2>2, <2>3, <2>4, Constants
<1>5. Gentle(n) /\ granted <= granted' /\ now <= now' BY <1>3 DEF Frame
<1>6. job.token <= granted' BY <1>3, <1>4, <1>5
<1>7. checks'[n].token = job.token =>
          /\ checks'[n].source = job.run
          /\ worker'[w].pc # "describe" => checks'[n].profile = Profile[job.run]
  <2> SUFFICES ASSUME checks'[n].token = job.token
               PROVE  /\ checks'[n].source = job.run
                      /\ worker'[w].pc # "describe" => checks'[n].profile = Profile[job.run]
    OBVIOUS
  <2>1. checks'[n].token # None /\ ~(checks'[n].token > granted) BY <1>3, <1>4, Constants
  <2>2. /\ checks'[n].token = checks[n].token
        /\ checks'[n].source = checks[n].source
        /\ checks'[n].profile \in {checks[n].profile, Profile[checks[n].source]}
    BY <2>1, <1>5 DEF Gentle
  <2>3. QED BY <2>2, <1>1, <1>2 DEF HoldOK
<1>8. ASSUME ~Recorded(n, job.token)', now' < job.until
      PROVE  checks'[n].token = job.token /\ checks'[n].until = job.until
  <2>1. ~Recorded(n, job.token) /\ now < job.until BY <1>3, <1>4, <1>5, <1>8 DEF Frame
  <2>2. checks[n].token = job.token /\ checks[n].until = job.until
    BY <2>1, <1>1, <1>2 DEF HoldOK
  <2>3. ~(checks[n].until <= now) BY <2>1, <2>2, <1>4
  <2>4. QED BY <2>2, <2>3, <1>5, <1>8 DEF Gentle
<1>9. QED BY <1>1, <1>3, <1>5, <1>6, <1>7, <1>8 DEF HoldOK, Gentle

LEMMA ReportKept ==
    ASSUME IInv, Frame, NEW w \in Worker,
           worker'[w].pc \in Reporting =>
               /\ worker[w].pc \in Reporting
               /\ worker'[w].node = worker[w].node /\ worker'[w].token = worker[w].token
               /\ worker'[w].run = worker[w].run /\ worker'[w].row = worker[w].row
               /\ worker'[w].result = worker[w].result
               /\ worker'[w].pc # "log" => worker[w].pc # "log"
               /\ worker'[w].pc = "rearm" => worker[w].pc = "rearm"
    PROVE  ReportOK(worker[w])'
<1> SUFFICES ASSUME worker'[w].pc \in Reporting PROVE ReportOK(worker[w])'
  BY DEF ReportOK
<1>1. ReportOK(worker[w]) /\ HoldOK(worker[w]) BY DEF IInv, JobOK
<1>2. worker[w].token \in Token BY <1>1 DEF HoldOK, Holding, Reporting
<1>3. worker'[w].pc # "log" => history'[worker[w].token] = worker[w].result
  BY <1>1, <1>2, RecordAssumption DEF ReportOK, Frame
<1>4. QED BY <1>1, <1>3 DEF ReportOK

LEMMA OtherKept ==
    ASSUME IInv, TypeOK', Frame, NEW v \in Worker, worker'[v] = worker[v]
    PROVE  JobOK(worker[v])'
<1>1. HoldOK(worker[v])' BY HoldKept
<1>2. ReportOK(worker[v])' BY ReportKept
<1>3. ReadOK(worker[v])'
  <2>1. ReadOK(worker[v]) BY DEF IInv, JobOK
  <2>2. worker[v].now \in Nat /\ now \in Nat /\ now' \in Nat BY Constants, LocalFields DEF IInv, TypeOK
  <2>3. worker'[v].now <= now' BY <2>1, <2>2 DEF ReadOK, Frame
  <2>4. worker[v].pc = "reconcile" => checks'[worker[v].node] \in Check
    BY <2>1 DEF ReadOK, Frame, Gentle
  <2>5. QED BY <2>1, <2>3, <2>4 DEF ReadOK
<1>4. QED BY <1>1, <1>2, <1>3 DEF JobOK

(* A check of which a step changes no more than when it is due, to whom it *)
(* is leased aside.                                                        *)
LEMMA CheckKept ==
    ASSUME IInv, TypeOK', Frame, NEW n \in Node, results'[n] = results[n],
           checks'[n] \in Check =>
               /\ checks[n] \in Check
               /\ checks'[n].token = checks[n].token /\ checks'[n].state = checks[n].state
               /\ checks'[n].source = checks[n].source /\ checks'[n].profile = checks[n].profile
               /\ checks'[n].attempts = checks[n].attempts /\ checks'[n].last = checks[n].last
               /\ checks'[n].checked = checks[n].checked
    PROVE  CheckOK(n)'
<1>1. CheckOK(n) BY DEF IInv
<1>2. granted \in Nat /\ granted' \in Nat /\ granted <= granted'
  BY Constants DEF IInv, TypeOK, Frame
<1>3. \A i \in 1..Len(results[n]) : results[n][i] \in Nat
  <2>1. results[n] \in Seq(Token) BY DEF IInv, TypeOK
  <2>2. QED BY <2>1, Constants, ElementOfSeq
<1>4. \A i \in 1..Len(results'[n]) : results'[n][i] <= granted' BY <1>1, <1>2, <1>3 DEF CheckOK
<1>5. ASSUME checks'[n] \in Check, checks'[n].state = "fresh"
      PROVE  Proven(n)' /\ checks'[n].profile = Profile[checks'[n].source]
  <2>1. Proven(n) /\ checks[n].profile = Profile[checks[n].source] BY <1>1, <1>5 DEF CheckOK
  <2>2. checks[n].last \in Token BY <2>1, <1>5, CheckFields DEF Proven
  <2>3. history'[checks[n].last] = history[checks[n].last] BY <2>1, <2>2 DEF Proven, Frame
  <2>4. QED BY <2>1, <2>3, <1>5 DEF Proven
<1>6. ASSUME checks'[n] \in Check, checks'[n].token # None
      PROVE  checks'[n].token <= granted'
  <2>1. checks[n].token \in Nat BY <1>6, CheckFields, Constants
  <2>2. QED BY <2>1, <1>1, <1>2, <1>6 DEF CheckOK
<1>7. QED BY <1>1, <1>4, <1>5, <1>6 DEF CheckOK

LEMMA Assemble ==
    ASSUME IInv, TypeOK', Frame, NEW w \in Worker,
           \A v \in Worker \ {w} : worker'[v] = worker[v], JobOK(worker[w])',
           \A n \in Node : CheckOK(n)'
    PROVE  IInv'
<1>1. \A v \in Worker \ {w} : JobOK(worker[v])' BY OtherKept
<1>2. QED BY <1>1 DEF IInv

-----------------------------------------------------------------------------
(* The invariant holds at first. *)
LEMMA InitInv == Init => IInv
<1> SUFFICES ASSUME Init PROVE IInv
  OBVIOUS
<1>1. TypeOK
  <2>1. /\ now = 0 /\ changes = 0 /\ faults = 0 /\ granted = 0 /\ after = None
        /\ verified = Node /\ origin \in [Node -> Source] /\ checks = [n \in Node |-> None]
        /\ history = [t \in Token |-> None] /\ worker = [w \in Worker |-> Idle]
        /\ results = [n \in Node |-> <<>>]
    BY DEF Init
  <2>2. /\ now \in 0..MaxTime /\ changes \in 0..MaxChanges /\ faults \in 0..MaxFaults
        /\ granted \in 0..MaxLeases
    BY <2>1, BoundAssumption
  <2>3. checks \in [Node -> Check \cup {None}] /\ history \in [Token -> Result \cup {None}] BY <2>1
  <2>4. worker \in [Worker -> Local] BY <2>1, IdleLocal
  <2>5. results \in [Node -> Seq(Token)]
    <3>1. <<>> \in Seq(Token) BY EmptySeq
    <3>2. QED BY <2>1, <3>1
  <2>6. QED BY <2>1, <2>2, <2>3, <2>4, <2>5 DEF TypeOK
<1>2. \A w \in Worker : JobOK(worker[w])
  BY DEF Init, Idle, JobOK, ReadOK, HoldOK, ReportOK, Holding, Reporting
<1>3. \A n \in Node : CheckOK(n) BY RecordAssumption DEF Init, CheckOK
<1>4. QED BY <1>1, <1>2, <1>3 DEF IInv

(* Steps of a worker that leave the checks, their results and the leases.  *)
LEMMA Quiet ==
    ASSUME IInv, TypeOK', UNCHANGED <<now, checks, history, granted, results>>
    PROVE  Frame /\ \A n \in Node : CheckOK(n)'
<1>1. Frame
  <2>1. now <= now' /\ granted <= granted' BY Constants DEF IInv, TypeOK
  <2>2. \A n \in Node : checks[n] \in Check => Gentle(n) BY DEF Gentle
  <2>3. QED BY <2>1, <2>2 DEF Frame, Recorded
<1>2. QED BY <1>1, CheckKept

LEMMA QuietStep ==
    ASSUME IInv, NEW w \in Worker, UNCHANGED <<now, verified, origin, changes>>,
           UNCHANGED <<checks, history, granted, results>>,
           after' \in Node \cup {None}, faults' \in 0..MaxFaults,
           worker' \in [Worker -> Local], \A v \in Worker \ {w} : worker'[v] = worker[v],
           Frame => JobOK(worker[w])'
    PROVE  IInv'
<1>1. TypeOK' BY DEF IInv, TypeOK
<1>2. Frame /\ \A n \in Node : CheckOK(n)' BY <1>1, Quiet
<1>3. QED BY <1>1, <1>2, Assemble

(* A worker that is idle, or holds its job without a report. *)
LEMMA IdleJob ==
    ASSUME IInv, TypeOK', NEW w \in Worker, worker'[w] = Idle
    PROVE  JobOK(worker[w])'
<1>1. 0 <= now' BY DEF TypeOK
<1>2. QED BY <1>1 DEF Idle, JobOK, ReadOK, HoldOK, ReportOK, Holding, Reporting

LEMMA Returned ==
    ASSUME TypeOK, NEW w \in Worker, Return(w)
    PROVE  worker' \in [Worker -> Local] /\ worker'[w] = Idle /\ \A v \in Worker \ {w} : worker'[v] = worker[v]
BY IdleLocal DEF Return, TypeOK

LEMMA HeldAgain ==
    ASSUME IInv, NEW w \in Worker, Hold(w), worker[w].pc \in Reporting
    PROVE  /\ worker' \in [Worker -> Local] /\ \A v \in Worker \ {w} : worker'[v] = worker[v]
           /\ worker'[w].pc = "hold"
           /\ TypeOK' /\ Frame => JobOK(worker[w])'
<1> DEFINE job == worker[w]
           j == [job EXCEPT !.pc = "hold", !.result = None, !.row = None]
<1>1. job \in Local BY DEF IInv, TypeOK
<1>2. worker' = [worker EXCEPT ![w] = j] /\ worker \in [Worker -> Local]
  BY DEF Hold, IInv, TypeOK
<1>3. /\ j \in Local /\ j.pc = "hold" /\ j.now = job.now /\ j.node = job.node /\ j.token = job.token
      /\ j.until = job.until /\ j.run = job.run
  BY <1>1 DEF Local, Pc
<1> HIDE DEF j
<1>4. worker' \in [Worker -> Local] /\ worker'[w] = j BY <1>2, <1>3
<1>5. ASSUME TypeOK', Frame PROVE JobOK(worker[w])'
  <2>1. HoldOK(worker[w])' BY <1>3, <1>4, <1>5, HoldKept DEF Holding, Reporting
  <2>2. ReportOK(worker[w])' BY <1>3, <1>4 DEF ReportOK, Reporting
  <2>3. ReadOK(worker[w])'
    <3>1. job.now <= now BY DEF IInv, JobOK, ReadOK
    <3>2. job.now \in Nat /\ now \in Nat /\ now' \in Nat
      BY <1>1, <1>5, Constants, LocalFields DEF IInv, TypeOK
    <3>3. now <= now' BY <1>5 DEF Frame
    <3>4. QED BY <3>1, <3>2, <3>3, <1>3, <1>4 DEF ReadOK
  <2>4. QED BY <2>1, <2>2, <2>3 DEF JobOK
<1>6. QED BY <1>2, <1>3, <1>4, <1>5

(* The steps of a worker that change nothing but its own state. *)
LEMMA ReturnSteps ==
    ASSUME IInv, NEW w \in Worker,
           \/ NothingDue(w) \/ GiveUp(w) \/ (\E said \in Reports(w) : AlreadyRecorded(w, said))
           \/ Fail(w) /\ Return(w)
    PROVE  IInv'
<1>1. /\ Return(w) /\ UNCHANGED <<now, verified, origin, changes, checks, history, granted, results, after>>
      /\ faults' = faults \/ (faults' = faults + 1 /\ faults < MaxFaults)
  BY DEF NothingDue, GiveUp, AlreadyRecorded, Fail, world, store
<1>2. faults' \in 0..MaxFaults BY <1>1, BoundAssumption DEF IInv, TypeOK
<1>3. after' \in Node \cup {None} /\ TypeOK BY <1>1 DEF IInv, TypeOK
<1>4. worker' \in [Worker -> Local] /\ worker'[w] = Idle /\ \A v \in Worker \ {w} : worker'[v] = worker[v]
  BY <1>1, <1>3, Returned
<1>5. TypeOK' BY <1>1, <1>2, <1>3, <1>4 DEF TypeOK
<1>6. JobOK(worker[w])' BY <1>4, <1>5, IdleJob
<1>7. QED BY <1>1, <1>2, <1>3, <1>4, <1>6, QuietStep

LEMMA HoldSteps ==
    ASSUME IInv, NEW w \in Worker, LostLease(w) \/ (Fail(w) /\ Hold(w) /\ worker[w].pc \in Reporting)
    PROVE  IInv'
<1>1. /\ Hold(w) /\ worker[w].pc \in Reporting
      /\ UNCHANGED <<now, verified, origin, changes, checks, history, granted, results, after>>
      /\ faults' = faults \/ (faults' = faults + 1 /\ faults < MaxFaults)
  BY DEF LostLease, Fail, world, store, Reporting
<1>2. faults' \in 0..MaxFaults BY <1>1, BoundAssumption DEF IInv, TypeOK
<1>3. after' \in Node \cup {None} BY <1>1 DEF IInv, TypeOK
<1>4. /\ worker' \in [Worker -> Local] /\ \A v \in Worker \ {w} : worker'[v] = worker[v]
      /\ TypeOK' /\ Frame => JobOK(worker[w])'
  BY <1>1, HeldAgain
<1>5. TypeOK' BY <1>1, <1>2, <1>3, <1>4 DEF IInv, TypeOK
<1>6. QED BY <1>1, <1>2, <1>3, <1>4, <1>5, QuietStep

LEMMA FindRunStep ==
    ASSUME IInv, NEW w \in Worker, FindRun(w)
    PROVE  IInv'
<1> DEFINE job == worker[w]
<1>1. UNCHANGED <<now, verified, origin, changes, checks, history, granted, results, after, faults>>
  BY DEF FindRun, world, store
<1>2. PICK n \in Node : worker' = [worker EXCEPT ![w].pc = "bind", ![w].node = n, ![w].run = origin[n]]
  BY DEF FindRun
<1>3. job \in Local /\ worker \in [Worker -> Local] /\ origin[n] \in Source BY DEF IInv, TypeOK
<1> DEFINE j == [job EXCEPT !.pc = "bind", !.node = n, !.run = origin[n]]
<1>4. j \in Local /\ j.pc = "bind" /\ j.node = n /\ j.run = origin[n] /\ j.now = job.now
  BY <1>3 DEF Local, Pc
<1>5. worker' = [worker EXCEPT ![w] = j] BY <1>2, <1>3
<1> HIDE DEF j
<1>6. worker' \in [Worker -> Local] /\ worker'[w] = j /\ \A v \in Worker \ {w} : worker'[v] = worker[v]
  BY <1>3, <1>4, <1>5
<1>7. job.now <= now' BY <1>1 DEF IInv, JobOK, ReadOK
<1>8. JobOK(worker[w])'
  BY <1>3, <1>4, <1>6, <1>7 DEF JobOK, ReadOK, HoldOK, ReportOK, Holding, Reporting
<1>9. after' \in Node \cup {None} /\ faults' \in 0..MaxFaults BY <1>1 DEF IInv, TypeOK
<1>10. QED BY <1>1, <1>6, <1>8, <1>9, QuietStep

(* The cursor moves, or no reproducible check is due. *)
LEMMA ScanSteps ==
    ASSUME IInv, NEW w \in Worker, Scanned(w) \/ NoneReproducible(w)
    PROVE  IInv'
<1> DEFINE job == worker[w]
<1>1. /\ UNCHANGED <<now, verified, origin, changes, checks, history, granted, results, faults>>
      /\ after' \in {after, job.stop}
  BY DEF Scanned, Cursor, NoneReproducible, world, store
<1>2. job \in Local /\ worker \in [Worker -> Local] /\ after \in Node \cup {None} /\ faults \in 0..MaxFaults
  BY DEF IInv, TypeOK
<1>3. PICK j : /\ j \in Local /\ j.pc \in {"claim", "claim_any"} /\ j.now = job.now
               /\ worker' = [worker EXCEPT ![w] = j]
  <2>1. CASE Scanned(w)
    <3> DEFINE j == [job EXCEPT !.pc = "claim", !.stop = None]
    <3>1. j \in Local /\ j.pc = "claim" /\ j.now = job.now BY <1>2 DEF Local, Pc
    <3>2. worker' = [worker EXCEPT ![w] = j] BY <1>2, <2>1 DEF Scanned
    <3>3. QED BY <3>1, <3>2
  <2>2. CASE NoneReproducible(w)
    <3> DEFINE j == [job EXCEPT !.pc = "claim_any"]
    <3>1. j \in Local /\ j.pc = "claim_any" /\ j.now = job.now BY <1>2 DEF Local, Pc
    <3>2. worker' = [worker EXCEPT ![w] = j] BY <1>2, <2>2 DEF NoneReproducible, Goto
    <3>3. QED BY <3>1, <3>2
  <2>3. QED BY <2>1, <2>2
<1>4. worker' \in [Worker -> Local] /\ worker'[w] = j /\ \A v \in Worker \ {w} : worker'[v] = worker[v]
  BY <1>2, <1>3
<1>5. job.now <= now' BY <1>1 DEF IInv, JobOK, ReadOK
<1>6. JobOK(worker[w])'
  BY <1>3, <1>4, <1>5 DEF JobOK, ReadOK, HoldOK, ReportOK, Holding, Reporting
<1>7. after' \in Node \cup {None} /\ faults' \in 0..MaxFaults BY <1>1, <1>2, LocalFields
<1>8. QED BY <1>1, <1>4, <1>6, <1>7, QuietStep

(* A report is accepted while the check carries its lease, so that it is   *)
(* about the source that was claimed and the profile that was described.   *)
LEMMA ReportStep ==
    ASSUME IInv, NEW w \in Worker, NEW said \in Reports(w), Report(w, said)
    PROVE  IInv'
<1> DEFINE job == worker[w]
           n == job.node
           row == checks[n]
           res == [node |-> n, source |-> row.source, outcome |-> said.outcome,
                   observed |-> said.observed, successor |-> said.successor,
                   kind |-> row.profile, checked |-> now]
           j == [job EXCEPT !.pc = "log", !.row = row, !.result = res]
<1>1. /\ UNCHANGED <<now, verified, origin, changes, checks, history, granted, results, after, faults>>
      /\ job.pc = "hold" /\ row.token = job.token
      /\ said.outcome = "fresh" => row.profile # "unsupported" /\ said.observed = row.source
  BY DEF Report, world, store
<1>2. job \in Local /\ worker \in [Worker -> Local] /\ after \in Node \cup {None} /\ faults \in 0..MaxFaults
      /\ now \in 0..MaxTime
  BY DEF IInv, TypeOK
<1>3. n \in Node /\ job.run \in Source /\ row \in Check /\ row.source = job.run /\ row.profile = Profile[job.run]
  BY <1>1 DEF IInv, JobOK, HoldOK, Holding
<1>4. row.attempts > 0
  <2>1. job.token # None BY <1>1, Constants DEF IInv, JobOK, HoldOK, Holding
  <2>2. QED BY <2>1, <1>1, <1>3 DEF IInv, CheckOK
<1>5. /\ said.outcome \in Outcome /\ said.observed \in Source \cup {None}
      /\ said.successor \in Node \cup {None}
  BY <1>3 DEF Reports, Outcome
<1>6. /\ res \in Result /\ res.node = n /\ res.source = job.run /\ res.kind = Profile[job.run]
      /\ res.outcome = "fresh" => res.observed = job.run
  <2>1. row.source \in Source /\ row.profile \in Kind /\ now \in Nat BY <1>2, <1>3, CheckFields, Constants
  <2>2. QED BY <2>1, <1>1, <1>3, <1>5 DEF Result
<1> HIDE DEF res
<1>7. /\ j \in Local /\ j.pc = "log" /\ j.row = row /\ j.result = res /\ j.now = job.now
      /\ j.node = n /\ j.run = job.run /\ j.token = job.token /\ j.until = job.until
  BY <1>2, <1>3, <1>6 DEF Local, Pc
<1>8. worker' = [worker EXCEPT ![w] = j] BY <1>2 DEF Report, res
<1> HIDE DEF j
<1>9. worker' \in [Worker -> Local] /\ worker'[w] = j /\ \A v \in Worker \ {w} : worker'[v] = worker[v]
  BY <1>2, <1>7, <1>8
<1>10. TypeOK' BY <1>1, <1>9 DEF IInv, TypeOK
<1>11. ASSUME Frame PROVE JobOK(worker[w])'
  <2>1. HoldOK(worker[w])' BY <1>1, <1>7, <1>9, <1>10, <1>11, HoldKept DEF Holding
  <2>2. ReportOK(worker[w])' BY <1>3, <1>6, <1>7, <1>9, <1>4 DEF ReportOK
  <2>3. job.now <= now' BY <1>1 DEF IInv, JobOK, ReadOK
  <2>4. ReadOK(worker[w])' BY <2>3, <1>7, <1>9 DEF ReadOK
  <2>5. QED BY <2>1, <2>2, <2>4 DEF JobOK
<1>12. QED BY <1>1, <1>2, <1>9, <1>11, QuietStep

(* The result of a lease is on file once and stays what it is. *)
LEMMA LogStep ==
    ASSUME IInv, NEW w \in Worker, Log(w)
    PROVE  IInv'
<1> DEFINE job == worker[w]
           t == job.token
           saved == IF history[t] = None THEN job.result ELSE history[t]
<1>1. /\ UNCHANGED <<now, verified, origin, changes, checks, granted, results, after, faults>>
      /\ job.pc = "log" /\ history' = [history EXCEPT ![t] = saved]
  BY DEF Log, world
<1>2. job \in Local /\ worker \in [Worker -> Local] /\ history \in [Token -> Result \cup {None}] /\ TypeOK
  BY DEF IInv, TypeOK
<1>3. HoldOK(job) /\ ReportOK(job) /\ ReadOK(job) BY DEF IInv, JobOK
<1>4. t \in Token /\ job.result \in Result /\ saved \in Result
  BY <1>1, <1>2, <1>3 DEF HoldOK, ReportOK, Holding, Reporting
<1>5. history' \in [Token -> Result \cup {None}] /\ history'[t] = saved
      /\ \A x \in Token : history[x] # None => history'[x] = history[x]
  BY <1>1, <1>2, <1>4
<1> HIDE DEF saved
<1>6. Frame
  <2>1. now <= now' /\ granted <= granted' BY <1>1, Constants DEF IInv, TypeOK
  <2>2. \A n \in Node : checks[n] \in Check => Gentle(n) BY <1>1 DEF Gentle
  <2>3. QED BY <2>1, <2>2, <1>1, <1>5 DEF Frame, Recorded
<1>7. CASE saved = [job.result EXCEPT !.checked = saved.checked]
  <2> DEFINE j == [job EXCEPT !.result = saved,
                              !.pc = IF saved.successor = None THEN "record" ELSE "rearm"]
  <2>1. worker' = [worker EXCEPT ![w] = j]
    BY <1>2, <1>7 DEF Log, saved
  <2>2. /\ j \in Local /\ j.pc \in {"record", "rearm"} /\ j.row = job.row /\ j.result = saved
        /\ j.now = job.now /\ j.node = job.node /\ j.run = job.run /\ j.token = t
        /\ j.until = job.until /\ (j.pc = "rearm" => saved.successor # None)
    BY <1>2, <1>4 DEF Local, Pc
  <2>3. /\ saved.node = job.result.node /\ saved.source = job.result.source
        /\ saved.kind = job.result.kind /\ saved.outcome = job.result.outcome
        /\ saved.observed = job.result.observed
    BY <1>4, <1>7 DEF Result
  <2>4. saved.successor \in Node \cup {None} BY <1>4 DEF Result
  <2> HIDE DEF j
  <2>5. worker' \in [Worker -> Local] /\ worker'[w] = j /\ \A v \in Worker \ {w} : worker'[v] = worker[v]
    BY <1>2, <2>1, <2>2
  <2>6. TypeOK' BY <1>1, <1>2, <1>5, <2>5 DEF TypeOK
  <2>7. HoldOK(worker[w])' BY <1>1, <1>6, <2>2, <2>5, <2>6, HoldKept DEF Holding
  <2>8. ReportOK(worker[w])'
    BY <1>1, <1>3, <1>4, <1>5, <2>2, <2>3, <2>4, <2>5 DEF ReportOK, Reporting
  <2>9. ReadOK(worker[w])' BY <1>1, <1>3, <2>2, <2>5 DEF ReadOK
  <2>10. \A n \in Node : CheckOK(n)' BY <1>1, <1>6, <2>6, CheckKept
  <2>11. QED BY <1>6, <2>5, <2>6, <2>7, <2>8, <2>9, <2>10, Assemble DEF JobOK
<1>8. CASE saved # [job.result EXCEPT !.checked = saved.checked]
  <2>1. Hold(w) BY <1>8 DEF Log, saved
  <2>2. /\ worker' \in [Worker -> Local] /\ \A v \in Worker \ {w} : worker'[v] = worker[v]
        /\ TypeOK' /\ Frame => JobOK(worker[w])'
    BY <1>1, <2>1, HeldAgain DEF Reporting
  <2>3. TypeOK' BY <1>1, <1>2, <1>5, <2>2 DEF TypeOK
  <2>4. \A n \in Node : CheckOK(n)' BY <1>1, <1>6, <2>3, CheckKept
  <2>5. QED BY <1>6, <2>2, <2>3, <2>4, Assemble
<1>9. QED BY <1>7, <1>8

-----------------------------------------------------------------------------
(* Steps that change one check. *)

LEMMA RearmStep ==
    ASSUME IInv, NEW w \in Worker, Rearm(w)
    PROVE  IInv'
<1> DEFINE job == worker[w]
           m == job.result.successor
           j == [job EXCEPT !.pc = "record"]
<1>1. /\ UNCHANGED <<now, verified, origin, changes, history, granted, results, after, faults>>
      /\ job.pc = "rearm" /\ worker' = [worker EXCEPT ![w].pc = "record"]
      /\ checks' = checks \/ (checks[m] # None /\ checks' = [checks EXCEPT ![m].due = now])
  BY DEF Rearm, Goto, world
<1>2. job \in Local /\ worker \in [Worker -> Local] /\ checks \in [Node -> Check \cup {None}] /\ TypeOK
      /\ now \in Nat
  BY Constants DEF IInv, TypeOK
<1>3. HoldOK(job) /\ ReportOK(job) /\ ReadOK(job) /\ m \in Node
  BY <1>1 DEF IInv, JobOK, ReportOK, Reporting
<1>4. /\ j \in Local /\ j.pc = "record" /\ j.row = job.row /\ j.result = job.result /\ j.now = job.now
      /\ j.node = job.node /\ j.run = job.run /\ j.token = job.token /\ j.until = job.until
      /\ worker' = [worker EXCEPT ![w] = j]
  BY <1>1, <1>2 DEF Local, Pc
<1> HIDE DEF j
<1>5. worker' \in [Worker -> Local] /\ worker'[w] = j /\ \A v \in Worker \ {w} : worker'[v] = worker[v]
  BY <1>2, <1>4
<1>6. /\ checks' \in [Node -> Check \cup {None}]
      /\ \A n \in Node : \/ checks'[n] = checks[n]
                         \/ /\ checks[n] \in Check /\ checks'[n] \in Check
                            /\ checks'[n] = [checks[n] EXCEPT !.due = now]
  <2>1. ASSUME NEW c \in Check PROVE [c EXCEPT !.due = now] \in Check BY <1>2 DEF Check
  <2>2. CASE checks' = checks BY <2>2, <1>2
  <2>3. CASE checks[m] # None /\ checks' = [checks EXCEPT ![m].due = now]
    <3>1. checks[m] \in Check BY <2>3, <1>2, <1>3
    <3>2. checks' = [checks EXCEPT ![m] = [checks[m] EXCEPT !.due = now]] BY <2>3, <1>2
    <3>3. QED BY <2>1, <3>1, <3>2, <1>2, <1>3
  <2>4. QED BY <1>1, <2>2, <2>3
<1>7. ASSUME NEW n \in Node, checks'[n] \in Check
      PROVE  /\ checks[n] \in Check
             /\ checks'[n].token = checks[n].token /\ checks'[n].state = checks[n].state
             /\ checks'[n].source = checks[n].source /\ checks'[n].profile = checks[n].profile
             /\ checks'[n].attempts = checks[n].attempts /\ checks'[n].last = checks[n].last
             /\ checks'[n].checked = checks[n].checked /\ checks'[n].until = checks[n].until
  <2>1. CASE checks'[n] = checks[n] BY <1>7, <2>1
  <2>2. CASE checks[n] \in Check /\ checks'[n] = [checks[n] EXCEPT !.due = now]
    BY <2>2 DEF Check
  <2>3. QED BY <1>6, <2>1, <2>2
<1>8. Frame
  <2>1. now <= now' /\ granted <= granted' BY <1>1, Constants DEF IInv, TypeOK
  <2>2. ASSUME NEW n \in Node, checks[n] \in Check PROVE Gentle(n)
    <3>1. checks'[n] \in Check BY <1>6, <2>2
    <3>2. QED BY <3>1, <1>7 DEF Gentle
  <2>3. QED BY <2>1, <2>2, <1>1 DEF Frame, Recorded
<1>9. TypeOK' BY <1>1, <1>2, <1>5, <1>6 DEF TypeOK
<1>10. HoldOK(worker[w])' BY <1>1, <1>4, <1>5, <1>8, <1>9, HoldKept DEF Holding
<1>11. ReportOK(worker[w])' BY <1>1, <1>3, <1>4, <1>5 DEF ReportOK, Reporting
<1>12. ReadOK(worker[w])' BY <1>1, <1>3, <1>4, <1>5 DEF ReadOK
<1>13. \A n \in Node : CheckOK(n)' BY <1>1, <1>7, <1>8, <1>9, CheckKept
<1>14. QED BY <1>5, <1>8, <1>9, <1>10, <1>11, <1>12, <1>13, Assemble DEF JobOK

(* The profile of a check is that of its source, once a worker has         *)
(* described it.                                                           *)
LEMMA DescribeStep ==
    ASSUME IInv, NEW w \in Worker, Describe(w)
    PROVE  IInv'
<1> DEFINE job == worker[w]
           n == job.node
           j == [job EXCEPT !.pc = "hold", !.canonical = n \in verified]
<1>1. /\ UNCHANGED <<now, verified, origin, changes, history, granted, results, after, faults>>
      /\ job.pc = "describe"
      /\ checks' = IF checks[n].token = job.token
                   THEN [checks EXCEPT ![n].profile = Profile[job.run]] ELSE checks
      /\ worker' = [worker EXCEPT ![w].pc = "hold", ![w].canonical = n \in verified]
  BY DEF Describe, world
<1>2. job \in Local /\ worker \in [Worker -> Local] /\ checks \in [Node -> Check \cup {None}] /\ TypeOK
  BY DEF IInv, TypeOK
<1>3. HoldOK(job) /\ ReadOK(job) BY DEF IInv, JobOK
<1>4. /\ n \in Node /\ job.run \in Source /\ job.token \in Token /\ checks[n] \in Check
      /\ checks[n].token = job.token => checks[n].source = job.run
  BY <1>1, <1>3 DEF HoldOK, Holding
<1>5. /\ j \in Local /\ j.pc = "hold" /\ j.now = job.now
      /\ j.node = n /\ j.run = job.run /\ j.token = job.token /\ j.until = job.until
      /\ worker' = [worker EXCEPT ![w] = j]
  <2>1. (n \in verified) \in BOOLEAN OBVIOUS
  <2>2. QED BY <2>1, <1>1, <1>2 DEF Local, Pc
<1> HIDE DEF j
<1>6. worker' \in [Worker -> Local] /\ worker'[w] = j /\ \A v \in Worker \ {w} : worker'[v] = worker[v]
  BY <1>2, <1>5
<1>7. /\ checks' \in [Node -> Check \cup {None}]
      /\ \A x \in Node \ {n} : checks'[x] = checks[x]
      /\ checks'[n] \in Check
      /\ checks'[n].token = checks[n].token /\ checks'[n].state = checks[n].state
      /\ checks'[n].source = checks[n].source /\ checks'[n].until = checks[n].until
      /\ checks'[n].attempts = checks[n].attempts /\ checks'[n].last = checks[n].last
      /\ checks'[n].checked = checks[n].checked
      /\ checks'[n].profile = IF checks[n].token = job.token THEN Profile[checks[n].source]
                              ELSE checks[n].profile
  <2>1. CASE checks[n].token = job.token
    <3> DEFINE c == [checks[n] EXCEPT !.profile = Profile[job.run]]
    <3>1. checks' = [checks EXCEPT ![n] = c] BY <2>1, <1>1, <1>2, <1>4
    <3>2. /\ c \in Check /\ c.token = checks[n].token /\ c.state = checks[n].state
          /\ c.source = checks[n].source /\ c.until = checks[n].until
          /\ c.attempts = checks[n].attempts /\ c.last = checks[n].last
          /\ c.checked = checks[n].checked /\ c.profile = Profile[job.run]
      <4>1. Profile[job.run] \in Kind BY <1>4, Constants
      <4>2. QED BY <4>1, <1>4 DEF Check
    <3> HIDE DEF c
    <3>3. checks'[n] = c /\ \A x \in Node \ {n} : checks'[x] = checks[x] BY <3>1, <1>2, <1>4
    <3>4. checks' \in [Node -> Check \cup {None}] BY <3>1, <3>2, <1>2, <1>4
    <3>5. QED BY <3>2, <3>3, <3>4, <2>1, <1>4
  <2>2. CASE checks[n].token # job.token
    <3>1. checks' = checks BY <2>2, <1>1
    <3>2. QED BY <2>2, <3>1, <1>2, <1>4
  <2>3. QED BY <2>1, <2>2
<1>8. Frame
  <2>1. now <= now' /\ granted <= granted' BY <1>1, Constants DEF IInv, TypeOK
  <2>2. ASSUME NEW x \in Node, checks[x] \in Check PROVE Gentle(x)
    <3>1. CASE x = n BY <3>1, <1>7 DEF Gentle
    <3>2. CASE x # n BY <3>2, <2>2, <1>7 DEF Gentle
    <3>3. QED BY <3>1, <3>2
  <2>3. QED BY <2>1, <2>2, <1>1 DEF Frame, Recorded
<1>9. TypeOK' BY <1>1, <1>2, <1>6, <1>7 DEF TypeOK
<1>10. HoldOK(worker[w])'
  <2>1. job.token <= granted' BY <1>1, <1>3 DEF HoldOK, Holding
  <2>2. checks'[n].token = job.token => checks'[n].source = job.run /\ checks'[n].profile = Profile[job.run]
    BY <1>4, <1>7
  <2>3. ASSUME ~Recorded(n, job.token)', now' < job.until
        PROVE  checks'[n].token = job.token /\ checks'[n].until = job.until
    <3>1. ~Recorded(n, job.token) /\ now < job.until BY <2>3, <1>1, <1>5, <1>6 DEF Recorded
    <3>2. QED BY <3>1, <1>1, <1>3, <1>7 DEF HoldOK, Holding
  <2>4. QED BY <2>1, <2>2, <2>3, <1>4, <1>5, <1>6, <1>7 DEF HoldOK
<1>11. ReportOK(worker[w])' BY <1>5, <1>6 DEF ReportOK, Reporting
<1>12. ReadOK(worker[w])' BY <1>1, <1>3, <1>5, <1>6 DEF ReadOK
<1>13. ASSUME NEW x \in Node PROVE CheckOK(x)'
  <2>1. CASE x # n \/ checks[n].token # job.token
    BY <2>1, <1>1, <1>4, <1>7, <1>8, <1>9, CheckKept
  <2>2. CASE x = n /\ checks[n].token = job.token
    <3>1. CheckOK(x) BY DEF IInv
    <3>2. checks[x].token # None /\ checks[x] \in Check BY <2>2, <1>4, Constants
    <3>3. /\ checks'[x].token = checks[x].token /\ checks'[x].state = checks[x].state
          /\ checks'[x].source = checks[x].source /\ checks'[x].last = checks[x].last
          /\ checks'[x].checked = checks[x].checked /\ checks'[x].profile = Profile[checks[x].source]
          /\ checks'[x].attempts = checks[x].attempts
      BY <2>2, <1>7
    <3>4. ASSUME checks[x].state = "fresh"
          PROVE  Proven(x)' /\ checks'[x].profile = Profile[checks'[x].source]
      <4>1. Proven(x) /\ checks[x].profile = Profile[checks[x].source] BY <3>1, <3>2, <3>4 DEF CheckOK
      <4>2. checks'[x].profile = checks[x].profile BY <4>1, <3>3
      <4>3. QED BY <4>1, <4>2, <3>3, <1>1 DEF Proven
    <3>5. QED BY <3>1, <3>2, <3>3, <3>4, <1>1 DEF CheckOK
  <2>3. QED BY <2>1, <2>2
<1>14. QED BY <1>6, <1>8, <1>9, <1>10, <1>11, <1>12, <1>13, Assemble DEF JobOK

(* A claim takes a check whose lease is over, with a lease newer than any. *)
LEMMA GrantStep ==
    ASSUME IInv, NEW w \in Worker, Claim(w) \/ ClaimAny(w)
    PROVE  IInv'
<1> DEFINE job == worker[w]
           lease == granted + 1
           until == job.now + Lease
<1>1. /\ UNCHANGED <<now, verified, origin, changes, history, results, after, faults>>
      /\ granted < MaxLeases /\ granted' = lease
  BY DEF Claim, ClaimAny, Grant, world
<1>2. PICK n \in Node :
        /\ n \in Due(w)
        /\ checks' = [checks EXCEPT ![n].token = lease, ![n].until = until, ![n].attempts = @ + 1]
        /\ worker' = [worker EXCEPT ![w].pc = "describe", ![w].node = n, ![w].token = lease,
                                    ![w].run = checks[n].source, ![w].now = 0, ![w].until = until]
  BY DEF Claim, ClaimAny, Grant, IsFirst
<1>3. /\ job \in Local /\ worker \in [Worker -> Local] /\ checks \in [Node -> Check \cup {None}] /\ TypeOK
      /\ granted \in Nat /\ now \in Nat
  BY Constants DEF IInv, TypeOK
<1>4. checks[n] \in Check /\ checks[n].until <= now
  <2>1. checks[n] \in Check /\ checks[n].until <= job.now BY <1>2, <1>3 DEF Due, Checked
  <2>2. job.now <= now BY DEF IInv, JobOK, ReadOK
  <2>3. checks[n].until \in Nat /\ job.now \in Nat BY <2>1, <1>3, CheckFields, LocalFields, Constants
  <2>4. QED BY <2>1, <2>2, <2>3, <1>3
<1>5. lease \in Token /\ lease \in Nat /\ lease > granted /\ until \in Nat
  <2>1. job.now \in Nat BY <1>3, LocalFields, Constants
  <2>2. QED BY <2>1, <1>1, <1>3, Constants DEF Token
<1> HIDE DEF lease, until
<1> DEFINE c == [checks[n] EXCEPT !.token = lease, !.until = until, !.attempts = @ + 1]
           j == [job EXCEPT !.pc = "describe", !.node = n, !.token = lease,
                            !.run = checks[n].source, !.now = 0, !.until = until]
<1>6. /\ c \in Check /\ c.token = lease /\ c.until = until /\ c.source = checks[n].source
      /\ c.state = checks[n].state /\ c.profile = checks[n].profile /\ c.last = checks[n].last
      /\ c.checked = checks[n].checked /\ c.attempts > 0
  <2>1. checks[n].attempts \in Nat /\ checks[n].attempts + 1 \in Nat BY <1>4, CheckFields
  <2>2. c = [checks[n] EXCEPT !.token = lease, !.until = until, !.attempts = checks[n].attempts + 1]
    BY <1>4
  <2>3. c.attempts = checks[n].attempts + 1 BY <1>4, <2>2 DEF Check
  <2>4. c \in Check BY <1>4, <1>5, <2>1, <2>2 DEF Check
  <2>5. QED BY <1>4, <2>1, <2>2, <2>3, <2>4 DEF Check
<1>7. /\ j \in Local /\ j.pc = "describe" /\ j.node = n /\ j.token = lease
      /\ j.run = checks[n].source /\ j.now = 0 /\ j.until = until
  <2>1. checks[n].source \in Source /\ 0 \in 0..MaxTime BY <1>4, CheckFields, Constants
  <2>2. QED BY <2>1, <1>3, <1>5 DEF Local, Pc
<1>8. checks' = [checks EXCEPT ![n] = c] /\ worker' = [worker EXCEPT ![w] = j]
  BY <1>2, <1>3
<1> HIDE DEF c, j
<1>9. worker' \in [Worker -> Local] /\ worker'[w] = j /\ \A v \in Worker \ {w} : worker'[v] = worker[v]
  BY <1>3, <1>7, <1>8
<1>10. /\ checks' \in [Node -> Check \cup {None}] /\ checks'[n] = c
       /\ \A x \in Node \ {n} : checks'[x] = checks[x]
  BY <1>3, <1>6, <1>8
<1>11. Frame
  <2>1. now <= now' /\ granted <= granted' BY <1>1, <1>3, <1>5
  <2>2. ASSUME NEW x \in Node, checks[x] \in Check PROVE Gentle(x)
    <3>1. CASE x = n BY <3>1, <1>4, <1>5, <1>6, <1>10 DEF Gentle
    <3>2. CASE x # n BY <3>2, <2>2, <1>10 DEF Gentle
    <3>3. QED BY <3>1, <3>2
  <2>3. QED BY <2>1, <2>2, <1>1 DEF Frame, Recorded
<1>12. TypeOK'
  <2>1. granted' \in 0..MaxLeases BY <1>1, <1>3, <1>5, Constants DEF lease
  <2>2. QED BY <2>1, <1>1, <1>3, <1>9, <1>10 DEF TypeOK
<1>13. HoldOK(worker[w])'
  <2>1. checks[n].source \in Source BY <1>4, CheckFields
  <2>2. lease <= granted' BY <1>1, <1>5
  <2>3. QED BY <2>1, <2>2, <1>5, <1>6, <1>7, <1>9, <1>10 DEF HoldOK
<1>14. ReportOK(worker[w])' BY <1>7, <1>9 DEF ReportOK, Reporting
<1>15. ReadOK(worker[w])' BY <1>1, <1>3, <1>7, <1>9 DEF ReadOK
<1>16. ASSUME NEW x \in Node PROVE CheckOK(x)'
  <2>1. CASE x # n BY <2>1, <1>1, <1>10, <1>11, <1>12, CheckKept
  <2>2. CASE x = n
    <3>1. CheckOK(x) /\ checks[x] \in Check BY <2>2, <1>4 DEF IInv
    <3>2. /\ checks'[x].token = lease /\ checks'[x].state = checks[x].state
          /\ checks'[x].source = checks[x].source /\ checks'[x].last = checks[x].last
          /\ checks'[x].checked = checks[x].checked /\ checks'[x].profile = checks[x].profile
          /\ checks'[x].attempts > 0
      BY <2>2, <1>6, <1>10
    <3>3. ASSUME NEW i \in 1..Len(results[x]) PROVE results[x][i] < lease /\ results[x][i] <= granted'
      <4>1. results[x] \in Seq(Token) BY <1>3 DEF TypeOK
      <4>2. results[x][i] \in Nat BY <4>1, Constants, ElementOfSeq
      <4>3. results[x][i] <= granted BY <3>1 DEF CheckOK
      <4>4. QED BY <4>2, <4>3, <1>1, <1>3, <1>5
    <3>4. lease # None /\ lease <= granted' BY <1>1, <1>5, Constants
    <3>5. ASSUME checks[x].state = "fresh"
          PROVE  Proven(x)' /\ checks'[x].profile = Profile[checks'[x].source]
      <4>1. Proven(x) /\ checks[x].profile = Profile[checks[x].source] BY <3>1, <3>5 DEF CheckOK
      <4>2. QED BY <4>1, <3>2, <1>1 DEF Proven
    <3>6. QED BY <3>1, <3>2, <3>3, <3>4, <3>5, <1>1 DEF CheckOK
  <2>3. QED BY <2>1, <2>2
<1>17. QED BY <1>9, <1>11, <1>12, <1>13, <1>14, <1>15, <1>16, Assemble DEF JobOK

(* A recorded result ends the lease: a fresh one is the proof of its check.*)
LEMMA RecordStep ==
    ASSUME IInv, NEW w \in Worker, Record(w)
    PROVE  IInv'
<1> DEFINE job == worker[w]
           n == job.node
           t == job.token
           r == job.result
           c == RowOf(w)
<1>1. /\ UNCHANGED <<now, verified, origin, changes, history, granted, after>>
      /\ job.pc = "record" /\ checks[n].token = t
      /\ checks' = [checks EXCEPT ![n] = c] /\ results' = [results EXCEPT ![n] = Append(@, t)]
      /\ \/ Return(w) /\ UNCHANGED faults
         \/ faults < MaxFaults /\ faults' = faults + 1 /\ Hold(w)
  BY DEF Record, StillHeld, world
<1>2. /\ job \in Local /\ worker \in [Worker -> Local] /\ checks \in [Node -> Check \cup {None}] /\ TypeOK
      /\ granted \in Nat /\ now \in Nat
  BY Constants DEF IInv, TypeOK
<1>3. HoldOK(job) /\ ReportOK(job) BY DEF IInv, JobOK
<1>4. /\ n \in Node /\ job.run \in Source /\ t \in Token /\ t \in Nat /\ t <= granted /\ t # None
      /\ checks[n] \in Check /\ checks[n].source = job.run /\ checks[n].profile = Profile[job.run]
  BY <1>1, <1>3, Constants DEF HoldOK, Holding
<1>5. /\ job.row \in Check /\ r \in Result /\ r.node = n /\ r.source = job.run /\ r.kind = Profile[job.run]
      /\ r.outcome = "fresh" => r.observed = job.run
      /\ history[t] = r
  BY <1>1, <1>3 DEF ReportOK, Reporting
<1>6. job.row.attempts \in Nat \ {0} /\ r.checked \in Nat /\ r.outcome \in Outcome /\ r.kind \in Kind
  <2>1. job.row.attempts \in Nat \ {0}
    <3>1. job.row.attempts \in Nat /\ job.row.attempts > 0
      BY <1>1, <1>3, CheckFields DEF ReportOK, Reporting
    <3>2. QED BY <3>1
  <2>2. QED BY <2>1, <1>5 DEF Result
<1>7. /\ c \in Check /\ c.token = None /\ c.last = t /\ c.source = job.run /\ c.profile = Profile[job.run]
      /\ c.checked = r.checked
      /\ c.state = "fresh" => r.outcome = "fresh"
      /\ c.attempts >= Attempts => c.state \in {"exception", "changed"}
  <2> DEFINE ttl == IF r.kind = "host" THEN Ttl["host"] ELSE Ttl["document"]
             fresh == r.outcome = "fresh"
             a == job.row.attempts
  <2>1. ttl \in Nat /\ ttl \div 2 \in Nat /\ Ttl["document"] \in Nat BY TimeAssumption
  <2>2. BackoffOf(a) \in Nat
    <3>1. CASE a >= Attempts BY <3>1, <2>1 DEF BackoffOf
    <3>2. CASE ~(a >= Attempts)
      <4>1. a \in 1..(Attempts - 1) BY <3>2, <1>6, Constants
      <4>2. QED BY <3>2, <4>1, TimeAssumption DEF BackoffOf
    <3>3. QED BY <3>1, <3>2
  <2> DEFINE s == StateOf(r.outcome, a)
             expires == IF fresh THEN r.checked + ttl ELSE 0
             due == r.checked + (IF fresh THEN ttl \div 2
                                 ELSE IF r.outcome = "changed" THEN Ttl["document"] ELSE BackoffOf(a))
             attempts == IF fresh THEN 0 ELSE a
  <2>3. expires \in Nat /\ due \in Nat /\ attempts \in Nat BY <2>1, <2>2, <1>6
  <2>4. /\ s \in State /\ (s = "fresh" => fresh)
        /\ attempts >= Attempts => s \in {"exception", "changed"}
    BY <1>6, Constants DEF StateOf, State, Outcome
  <2>5. c = [checks[n] EXCEPT !.state = s, !.checked = r.checked, !.expires = expires, !.due = due,
                              !.until = 0, !.attempts = attempts, !.last = t, !.token = None]
    BY <1>5 DEF RowOf
  <2> HIDE DEF s, expires, due, attempts, c
  <2>6. c \in Check BY <2>3, <2>4, <2>5, <1>4, <1>6 DEF Check
  <2>7. /\ c.token = None /\ c.last = t /\ c.source = checks[n].source
        /\ c.profile = checks[n].profile /\ c.checked = r.checked /\ c.state = s
        /\ c.attempts = attempts
    BY <2>5, <1>4 DEF Check
  <2>8. QED BY <2>4, <2>6, <2>7, <1>4
<1> HIDE DEF c
<1>8. /\ checks' \in [Node -> Check \cup {None}] /\ checks'[n] = c
      /\ \A x \in Node \ {n} : checks'[x] = checks[x]
  BY <1>1, <1>2, <1>4, <1>7
<1>9. /\ results' \in [Node -> Seq(Token)] /\ results'[n] = Append(results[n], t)
      /\ \A x \in Node \ {n} : results'[x] = results[x]
      /\ results[n] \in Seq(Token)
  <2>1. results \in [Node -> Seq(Token)] /\ Append(results[n], t) \in Seq(Token)
    BY <1>2, <1>4, AppendProperties DEF TypeOK
  <2>2. QED BY <2>1, <1>1, <1>4
<1>10. /\ Len(results[n]) \in Nat /\ Len(results'[n]) = Len(results[n]) + 1
       /\ results'[n][Len(results[n]) + 1] = t
       /\ \A i \in 1..Len(results[n]) : results'[n][i] = results[n][i] /\ results[n][i] \in Nat
  <2> DEFINE q == results[n]
  <2>1. q \in Seq(Token) BY <1>9
  <2>2. /\ Len(Append(q, t)) = Len(q) + 1 /\ Append(q, t)[Len(q) + 1] = t
        /\ \A i \in 1..Len(q) : Append(q, t)[i] = q[i]
    BY <2>1, <1>4, AppendProperties
  <2>3. Len(q) \in Nat BY <2>1
  <2>4. \A i \in 1..Len(q) : q[i] \in Nat BY <2>1, Constants, ElementOfSeq
  <2>5. QED BY <2>2, <2>3, <2>4, <1>9
<1>11. \A x \in Node, y \in Token : Recorded(x, y) => Recorded(x, y)'
  <2> SUFFICES ASSUME NEW x \in Node, NEW y \in Token, Recorded(x, y) PROVE Recorded(x, y)'
    OBVIOUS
  <2>1. CASE x # n BY <2>1, <1>9 DEF Recorded
  <2>2. CASE x = n
    <3>1. PICK i \in 1..Len(results[n]) : results[n][i] = y BY <2>2 DEF Recorded
    <3>2. i \in 1..Len(results'[n]) /\ results'[n][i] = y BY <3>1, <1>10
    <3>3. results'[x] = results'[n] BY <2>2
    <3>4. QED BY <3>2, <3>3 DEF Recorded
  <2>3. QED BY <2>1, <2>2
<1>12. ASSUME NEW x \in Node, NEW y \in Token, x = n, y = t PROVE Recorded(x, y)'
  <2>1. Len(results[n]) + 1 \in 1..Len(results'[n]) BY <1>10
  <2>2. \E i \in 1..Len(results'[x]) : results'[x][i] = y BY <2>1, <1>10, <1>12
  <2>3. QED BY <2>2 DEF Recorded
<1>13. Frame
  <2>1. now <= now' /\ granted <= granted' BY <1>1, <1>2
  <2>2. ASSUME NEW x \in Node, checks[x] \in Check PROVE Gentle(x)
    <3>1. CASE x = n
      <4>1. checks'[x] \in Check /\ checks'[x].token = None BY <3>1, <1>7, <1>8
      <4>2. \E y \in Token : checks[x].token = y /\ Recorded(x, y)' BY <3>1, <1>1, <1>4, <1>12
      <4>3. QED BY <4>1, <4>2 DEF Gentle
    <3>2. CASE x # n BY <3>2, <2>2, <1>8 DEF Gentle
    <3>3. QED BY <3>1, <3>2
  <2>3. QED BY <2>1, <2>2, <1>1, <1>11 DEF Frame
<1>14. /\ worker' \in [Worker -> Local] /\ \A v \in Worker \ {w} : worker'[v] = worker[v]
       /\ faults' \in 0..MaxFaults
       /\ TypeOK' => JobOK(worker[w])'
  <2>1. CASE Return(w) /\ UNCHANGED faults
    <3>1. /\ worker' \in [Worker -> Local] /\ worker'[w] = Idle
          /\ \A v \in Worker \ {w} : worker'[v] = worker[v]
      BY <2>1, <1>2, Returned
    <3>2. TypeOK' => JobOK(worker[w])' BY <3>1, IdleJob
    <3>3. QED BY <2>1, <3>1, <3>2, <1>2 DEF TypeOK
  <2>2. CASE faults < MaxFaults /\ faults' = faults + 1 /\ Hold(w)
    <3>1. /\ worker' \in [Worker -> Local] /\ \A v \in Worker \ {w} : worker'[v] = worker[v]
          /\ TypeOK' /\ Frame => JobOK(worker[w])'
      BY <2>2, <1>1, HeldAgain DEF Reporting
    <3>2. faults' \in 0..MaxFaults BY <2>2, <1>2, BoundAssumption DEF TypeOK
    <3>3. QED BY <3>1, <3>2, <1>13
  <2>3. QED BY <2>1, <2>2, <1>1
<1>15. TypeOK' BY <1>1, <1>2, <1>8, <1>9, <1>14 DEF TypeOK
<1>16. ASSUME NEW x \in Node PROVE CheckOK(x)'
  <2>1. CASE x # n BY <2>1, <1>8, <1>9, <1>13, <1>15, CheckKept
  <2>2. CASE x = n
    <3>1. CheckOK(x) BY DEF IInv
    <3>2. /\ checks[x].token = t /\ checks[x] \in Check
          /\ checks'[x] = c /\ results'[x] = results'[n] /\ results[x] = results[n]
      BY <2>2, <1>1, <1>4, <1>8
    <3>3. ASSUME NEW i \in 1..Len(results'[x])
          PROVE  /\ results'[x][i] <= granted'
                 /\ i \in 1..Len(results[x]) => results'[x][i] = results[x][i] /\ results[x][i] < t
                 /\ i \notin 1..Len(results[x]) => i = Len(results[x]) + 1 /\ results'[x][i] = t
      <4>1. i \in 1..Len(results[x]) \/ i = Len(results[x]) + 1 BY <3>2, <3>3, <1>10
      <4>2. CASE i \in 1..Len(results[x])
        <5>1. results'[x][i] = results[x][i] BY <4>2, <3>2, <1>10
        <5>2. results[x][i] < t /\ results[x][i] <= granted BY <4>2, <3>1, <3>2, <1>4 DEF CheckOK
        <5>3. QED BY <5>1, <5>2, <4>2, <1>1
      <4>3. CASE i = Len(results[x]) + 1
        <5>1. results'[x][i] = t BY <4>3, <3>2, <1>10
        <5>2. QED BY <5>1, <4>3, <3>2, <1>1, <1>4, <1>10
      <4>4. QED BY <4>1, <4>2, <4>3
    <3>4. \A i, k \in 1..Len(results'[x]) : i < k => results'[x][i] < results'[x][k]
      <4> SUFFICES ASSUME NEW i \in 1..Len(results'[x]), NEW k \in 1..Len(results'[x]), i < k
                   PROVE  results'[x][i] < results'[x][k]
        OBVIOUS
      <4>1. i \in 1..Len(results[x]) BY <3>2, <1>10
      <4>2. results'[x][i] = results[x][i] /\ results[x][i] < t BY <4>1, <3>3
      <4>3. CASE k \in 1..Len(results[x])
        <5>1. results[x][i] < results[x][k] BY <4>1, <4>3, <3>1 DEF CheckOK
        <5>2. QED BY <5>1, <4>2, <4>3, <3>3
      <4>4. CASE k \notin 1..Len(results[x]) BY <4>2, <4>4, <3>3
      <4>5. QED BY <4>3, <4>4
    <3>5. ASSUME checks'[x].state = "fresh"
          PROVE  Proven(x)' /\ checks'[x].profile = Profile[checks'[x].source]
      <4>1. r.outcome = "fresh" BY <3>5, <3>2, <1>7
      <4>2. /\ checks'[x].last = t /\ checks'[x].source = job.run
            /\ checks'[x].profile = Profile[job.run] /\ checks'[x].checked = r.checked
        BY <3>2, <1>7
      <4>3. history'[t] = r /\ r # None BY <1>1, <1>5, RecordAssumption
      <4>4. Proven(x)' BY <4>1, <4>2, <4>3, <2>2, <1>4, <1>5 DEF Proven
      <4>5. QED BY <4>2, <4>4
    <3>6. checks'[x].token = None
          /\ (checks'[x].attempts >= Attempts => checks'[x].state \in {"exception", "changed"})
      BY <3>2, <1>7
    <3>7. QED BY <3>3, <3>4, <3>5, <3>6 DEF CheckOK
  <2>3. QED BY <2>1, <2>2
<1>17. QED BY <1>13, <1>14, <1>15, <1>16, Assemble

LEMMA PendingCheck ==
    ASSUME NEW s \in Source, NEW t \in Nat
    PROVE  /\ Pending(s, t) \in Check /\ Pending(s, t).token = None /\ Pending(s, t).state = "pending"
           /\ Pending(s, t).attempts = 0
BY Constants DEF Pending, Check, State, Kind

(* A free check that was never worked on is as it should be. *)
LEMMA FreshCheck ==
    ASSUME IInv, TypeOK', Frame, NEW n \in Node, results'[n] = results[n],
           checks'[n].token = None, checks'[n].state = "pending", checks'[n].attempts = 0
    PROVE  CheckOK(n)'
<1>1. CheckOK(n) BY DEF IInv
<1>2. \A i \in 1..Len(results[n]) : results[n][i] <= granted'
  <2>1. granted \in Nat /\ granted' \in Nat /\ granted <= granted'
    BY Constants DEF IInv, TypeOK, Frame
  <2>2. results[n] \in Seq(Token) BY DEF IInv, TypeOK
  <2>3. \A i \in 1..Len(results[n]) : results[n][i] \in Nat BY <2>2, Constants, ElementOfSeq
  <2>4. QED BY <1>1, <2>1, <2>3 DEF CheckOK
<1>3. ~(0 >= Attempts) BY Constants
<1>4. QED BY <1>1, <1>2, <1>3 DEF CheckOK

(* The sweep escalates checks whose leases are over. *)
LEMMA StartStep ==
    ASSUME IInv, NEW w \in Worker, StartNext(w)
    PROVE  IInv'
<1> DEFINE job == worker[w]
           later == now + Ttl["document"]
           Swept(n) == [checks[n] EXCEPT !.state = "exception", !.token = None,
                                         !.due = later, !.until = 0]
<1>1. /\ UNCHANGED <<now, verified, origin, changes, history, granted, results, after, faults>>
      /\ checks' = [n \in Node |-> IF n \in Checked /\ Interrupted(n) THEN Swept(n) ELSE checks[n]]
  BY DEF StartNext, world
<1>2. /\ job \in Local /\ worker \in [Worker -> Local] /\ checks \in [Node -> Check \cup {None}] /\ TypeOK
      /\ now \in Nat /\ now \in 0..MaxTime /\ verified \subseteq Node
  BY Constants DEF IInv, TypeOK
<1>3. PICK j : /\ j \in Local /\ j.pc = "enroll" /\ j.now = now
               /\ worker' = [worker EXCEPT ![w] = j]
  <2> DEFINE ahead == {n \in verified : after = None \/ n > after}
             batch == {n \in ahead : Cardinality({m \in ahead : m < n}) < Batch}
  <2>1. PICK stop \in Node \cup {None} :
          worker' = [worker EXCEPT ![w].pc = "enroll", ![w].now = now,
                                   ![w].todo = batch, ![w].stop = stop]
    BY DEF StartNext
  <2>2. batch \in SUBSET Node BY <1>2
  <2> HIDE DEF batch
  <2> DEFINE j == [job EXCEPT !.pc = "enroll", !.now = now, !.todo = batch, !.stop = stop]
  <2>3. j \in Local /\ j.pc = "enroll" /\ j.now = now BY <1>2, <2>2 DEF Local, Pc
  <2>4. worker' = [worker EXCEPT ![w] = j] BY <2>1, <1>2
  <2>5. QED BY <2>3, <2>4
<1>4. worker' \in [Worker -> Local] /\ worker'[w] = j /\ \A v \in Worker \ {w} : worker'[v] = worker[v]
  BY <1>2, <1>3
<1>5. ASSUME NEW n \in Node, n \in Checked, Interrupted(n)
      PROVE  /\ checks'[n] = Swept(n) /\ Swept(n) \in Check /\ Swept(n).token = None
             /\ Swept(n).state = "exception" /\ checks[n].until <= now
  <2>1. checks[n] \in Check BY <1>5, <1>2 DEF Checked
  <2>2. later \in Nat BY <1>2, TimeAssumption
  <2> HIDE DEF later
  <2>3. Swept(n) \in Check /\ Swept(n).token = None /\ Swept(n).state = "exception"
    BY <2>1, <2>2 DEF Check, State
  <2>4. QED BY <2>3, <1>1, <1>5 DEF Interrupted
<1>6. ASSUME NEW n \in Node, ~(n \in Checked /\ Interrupted(n)) PROVE checks'[n] = checks[n]
  BY <1>1, <1>6
<1> HIDE DEF Swept
<1>7. checks' \in [Node -> Check \cup {None}] BY <1>1, <1>2, <1>5
<1>8. Frame
  <2>1. now <= now' /\ granted <= granted' BY <1>1, Constants DEF IInv, TypeOK
  <2>2. ASSUME NEW n \in Node, checks[n] \in Check PROVE Gentle(n)
    <3>1. CASE n \in Checked /\ Interrupted(n) BY <3>1, <1>5 DEF Gentle
    <3>2. CASE ~(n \in Checked /\ Interrupted(n)) BY <3>2, <2>2, <1>6 DEF Gentle
    <3>3. QED BY <3>1, <3>2
  <2>3. QED BY <2>1, <2>2, <1>1 DEF Frame, Recorded
<1>9. TypeOK' BY <1>1, <1>2, <1>4, <1>7 DEF TypeOK
<1>10. JobOK(worker[w])'
  <2>1. j.now <= now' BY <1>1, <1>2, <1>3
  <2>2. QED BY <2>1, <1>3, <1>4 DEF JobOK, ReadOK, HoldOK, ReportOK, Holding, Reporting
<1>11. ASSUME NEW n \in Node PROVE CheckOK(n)'
  <2>1. CASE n \in Checked /\ Interrupted(n)
    <3>1. checks'[n].token = None /\ checks'[n].state = "exception" BY <2>1, <1>5
    <3>2. CheckOK(n) BY DEF IInv
    <3>3. QED BY <3>1, <3>2, <1>1 DEF CheckOK
  <2>2. CASE ~(n \in Checked /\ Interrupted(n))
    BY <2>2, <1>1, <1>6, <1>8, <1>9, CheckKept
  <2>3. QED BY <2>1, <2>2
<1>12. QED BY <1>4, <1>8, <1>9, <1>10, <1>11, Assemble

LEMMA BindStep ==
    ASSUME IInv, NEW w \in Worker, Bind(w)
    PROVE  IInv'
<1> DEFINE job == worker[w]
           n == job.node
           row == IF checks[n] = None THEN Pending(job.run, job.now) ELSE checks[n]
           j == [job EXCEPT !.pc = "reconcile", !.row = row, !.canonical = n \in verified]
<1>1. /\ UNCHANGED <<now, verified, origin, changes, history, granted, results, after, faults>>
      /\ job.pc = "bind" /\ checks' = [checks EXCEPT ![n] = row]
      /\ worker' = [worker EXCEPT ![w].pc = "reconcile", ![w].row = row, ![w].canonical = n \in verified]
  BY DEF Bind, world
<1>2. job \in Local /\ worker \in [Worker -> Local] /\ checks \in [Node -> Check \cup {None}] /\ TypeOK
  BY DEF IInv, TypeOK
<1>3. n \in Node /\ job.run \in Source /\ job.now <= now /\ job.now \in Nat
  BY <1>1, <1>2, LocalFields, Constants DEF IInv, JobOK, ReadOK
<1>4. row \in Check BY <1>2, <1>3, PendingCheck
<1>5. checks[n] = None => row.token = None /\ row.state = "pending" /\ row.attempts = 0
  BY <1>3, PendingCheck
<1>6. checks[n] # None => row = checks[n] OBVIOUS
<1> HIDE DEF row
<1>7. j \in Local /\ j.pc = "reconcile" /\ j.row = row /\ j.node = n /\ j.run = job.run /\ j.now = job.now
  <2>1. (n \in verified) \in BOOLEAN OBVIOUS
  <2>2. QED BY <2>1, <1>2, <1>4 DEF Local, Pc
<1>8. worker' = [worker EXCEPT ![w] = j] BY <1>1, <1>2
<1> HIDE DEF j
<1>9. worker' \in [Worker -> Local] /\ worker'[w] = j /\ \A v \in Worker \ {w} : worker'[v] = worker[v]
  BY <1>2, <1>7, <1>8
<1>10. /\ checks' \in [Node -> Check \cup {None}] /\ checks'[n] = row
       /\ \A x \in Node \ {n} : checks'[x] = checks[x]
  BY <1>1, <1>2, <1>3, <1>4
<1>11. Frame
  <2>1. now <= now' /\ granted <= granted' BY <1>1, Constants DEF IInv, TypeOK
  <2>2. ASSUME NEW x \in Node, checks[x] \in Check PROVE Gentle(x)
    <3>1. checks'[x] = checks[x] BY <2>2, <1>6, <1>10, RecordAssumption
    <3>2. QED BY <2>2, <3>1 DEF Gentle
  <2>3. QED BY <2>1, <2>2, <1>1 DEF Frame, Recorded
<1>12. TypeOK' BY <1>1, <1>2, <1>9, <1>10 DEF TypeOK
<1>13. JobOK(worker[w])'
  BY <1>1, <1>3, <1>4, <1>7, <1>9, <1>10 DEF JobOK, ReadOK, HoldOK, ReportOK, Holding, Reporting
<1>14. ASSUME NEW x \in Node PROVE CheckOK(x)'
  <2>1. CASE x = n /\ checks[n] = None
    BY <2>1, <1>1, <1>5, <1>10, <1>11, <1>12, FreshCheck
  <2>2. CASE ~(x = n /\ checks[n] = None)
    <3>1. checks'[x] = checks[x] BY <2>2, <1>6, <1>10
    <3>2. QED BY <3>1, <1>1, <1>11, <1>12, CheckKept
  <2>3. QED BY <2>1, <2>2
<1>15. QED BY <1>9, <1>11, <1>12, <1>13, <1>14, Assemble

(* The discovery clears only a check whose lease is over. *)
LEMMA ReconcileStep ==
    ASSUME IInv, NEW w \in Worker, Reconcile(w)
    PROVE  IInv'
<1> DEFINE job == worker[w]
           n == job.node
           c == IF ~StillIdle(w) THEN checks[n]
                ELSE IF Moved(w) THEN Rebound(w)
                ELSE IF Retired(w) /\ checks[n].due = job.row.due
                     THEN [checks[n] EXCEPT !.due = job.now]
                     ELSE checks[n]
           j == [job EXCEPT !.pc = "enroll", !.node = None, !.run = None, !.row = None,
                            !.canonical = FALSE, !.todo = job.todo \ {n}]
<1>1. /\ UNCHANGED <<now, verified, origin, changes, history, granted, results, after, faults>>
      /\ job.pc = "reconcile"
  BY DEF Reconcile, world
<1>2. /\ job \in Local /\ worker \in [Worker -> Local] /\ checks \in [Node -> Check \cup {None}] /\ TypeOK
      /\ now \in Nat
  BY Constants DEF IInv, TypeOK
<1>3. n \in Node /\ job.run \in Source /\ job.now <= now /\ job.now \in Nat /\ checks[n] \in Check
  BY <1>1, <1>2, LocalFields, Constants DEF IInv, JobOK, ReadOK
<1>4. checks' = [checks EXCEPT ![n] = c] /\ worker' = [worker EXCEPT ![w] = j]
  BY <1>2, <1>3 DEF Reconcile
<1>5. \/ /\ c \in Check /\ c.token = None /\ c.state = "pending" /\ c.attempts = 0
         /\ checks[n].until <= now
      \/ /\ c \in Check
         /\ c.token = checks[n].token /\ c.state = checks[n].state
         /\ c.source = checks[n].source /\ c.profile = checks[n].profile
         /\ c.attempts = checks[n].attempts /\ c.last = checks[n].last
         /\ c.checked = checks[n].checked /\ c.until = checks[n].until
  <2>1. CASE StillIdle(w) /\ Moved(w)
    <3>1. c = Pending(job.run, job.now) BY <2>1 DEF Rebound
    <3>2. checks[n].until <= now
      <4>1. checks[n].until <= job.now /\ checks[n].until \in Nat
        BY <2>1, <1>3, CheckFields DEF StillIdle
      <4>2. QED BY <4>1, <1>2, <1>3
    <3>3. QED BY <3>1, <3>2, <1>3, PendingCheck
  <2>2. CASE c = [checks[n] EXCEPT !.due = job.now]
    <3> HIDE DEF c
    <3>1. QED BY <2>2, <1>3 DEF Check
  <2>3. CASE c = checks[n] BY <2>3, <1>3
  <2>4. QED BY <2>1, <2>2, <2>3
<1> HIDE DEF c
<1>6. j \in Local /\ j.pc = "enroll" /\ j.now = job.now
  <2>1. job.todo \ {n} \in SUBSET Node /\ FALSE \in BOOLEAN BY <1>2, LocalFields
  <2>2. QED BY <2>1, <1>2 DEF Local, Pc
<1> HIDE DEF j
<1>7. worker' \in [Worker -> Local] /\ worker'[w] = j /\ \A v \in Worker \ {w} : worker'[v] = worker[v]
  BY <1>2, <1>4, <1>6
<1>8. /\ checks' \in [Node -> Check \cup {None}] /\ checks'[n] = c
      /\ \A x \in Node \ {n} : checks'[x] = checks[x]
  BY <1>2, <1>3, <1>4, <1>5
<1>9. Frame
  <2>1. now <= now' /\ granted <= granted' BY <1>1, Constants DEF IInv, TypeOK
  <2>2. ASSUME NEW x \in Node, checks[x] \in Check PROVE Gentle(x)
    <3>1. CASE x = n BY <3>1, <1>5, <1>8 DEF Gentle
    <3>2. CASE x # n BY <3>2, <2>2, <1>8 DEF Gentle
    <3>3. QED BY <3>1, <3>2
  <2>3. QED BY <2>1, <2>2, <1>1 DEF Frame, Recorded
<1>10. TypeOK' BY <1>1, <1>2, <1>7, <1>8 DEF TypeOK
<1>11. JobOK(worker[w])'
  BY <1>1, <1>3, <1>6, <1>7 DEF JobOK, ReadOK, HoldOK, ReportOK, Holding, Reporting
<1>12. ASSUME NEW x \in Node PROVE CheckOK(x)'
  <2>1. CASE x # n BY <2>1, <1>1, <1>8, <1>9, <1>10, CheckKept
  <2>2. CASE x = n /\ c.token = None /\ c.state = "pending" /\ c.attempts = 0
    BY <2>2, <1>1, <1>8, <1>9, <1>10, FreshCheck
  <2>3. CASE x = n /\ ~(c.token = None /\ c.state = "pending" /\ c.attempts = 0)
    BY <2>3, <1>1, <1>3, <1>5, <1>8, <1>9, <1>10, CheckKept
  <2>4. QED BY <2>1, <2>2, <2>3
<1>13. QED BY <1>7, <1>9, <1>10, <1>11, <1>12, Assemble

-----------------------------------------------------------------------------
(* Time passes, nodes are judged, runs are committed. *)
LEMMA WorldSteps ==
    ASSUME IInv,
           \/ Tick \/ (\E n \in Node : Judge(n) \/ \E s \in Source : Commit(n, s))
           \/ UNCHANGED vars
    PROVE  IInv'
<1>1. UNCHANGED <<worker, checks, history, granted, results, after, faults>>
  BY DEF Tick, Judge, Commit, vars, store, world
<1>2. TypeOK'
  <2>1. TypeOK /\ MaxTime \in Nat /\ MaxChanges \in Nat BY BoundAssumption DEF IInv
  <2>2. now' \in 0..MaxTime
    BY <2>1 DEF Tick, Judge, Commit, vars, store, world, TypeOK
  <2>3. changes' \in 0..MaxChanges
    BY <2>1 DEF Tick, Judge, Commit, vars, store, world, TypeOK
  <2>4. verified' \subseteq Node
    BY <2>1 DEF Tick, Judge, Commit, vars, store, world, TypeOK
  <2>5. origin' \in [Node -> Source]
    BY <2>1 DEF Tick, Judge, Commit, vars, store, world, TypeOK
  <2>6. QED BY <2>1, <2>2, <2>3, <2>4, <2>5, <1>1 DEF TypeOK
<1>3. Frame
  <2>1. now \in Nat /\ granted \in Nat BY Constants DEF IInv, TypeOK
  <2>2. now <= now' BY <2>1 DEF Tick, Judge, Commit, vars, store, world
  <2>3. \A n \in Node : checks[n] \in Check => Gentle(n) BY <1>1 DEF Gentle
  <2>4. QED BY <2>1, <2>2, <2>3, <1>1 DEF Frame, Recorded
<1>4. \A v \in Worker : JobOK(worker[v])' BY <1>1, <1>2, <1>3, OtherKept
<1>5. \A n \in Node : CheckOK(n)' BY <1>1, <1>2, <1>3, CheckKept
<1>6. QED BY <1>2, <1>4, <1>5 DEF IInv

LEMMA InvStep == IInv /\ [Next]_vars => IInv'
<1> SUFFICES ASSUME IInv, [Next]_vars PROVE IInv'
  OBVIOUS
<1>1. ASSUME NEW w \in Worker, NextSteps(w) PROVE IInv'
  BY <1>1, StartStep, FindRunStep, BindStep, ReconcileStep, ScanSteps, GrantStep, ReturnSteps,
     DescribeStep DEF NextSteps
<1>2. ASSUME NEW w \in Worker, CompleteSteps(w) PROVE IInv'
  BY <1>2, ReportStep, ReturnSteps, LogStep, RearmStep, RecordStep, HoldSteps DEF CompleteSteps
<1>3. ASSUME NEW w \in Worker, Fail(w) PROVE IInv'
  BY <1>3, ReturnSteps, HoldSteps DEF Fail, Reporting
<1>4. QED BY <1>1, <1>2, <1>3, WorldSteps DEF Next

LEMMA Inductive == Spec => []IInv
<1>1. Init => IInv BY InitInv
<1>2. IInv /\ [Next]_vars => IInv' BY InvStep
<1>3. QED BY <1>1, <1>2, PTL DEF Spec

-----------------------------------------------------------------------------
THEOREM TypeCorrect == Spec => []TypeOK
<1>1. IInv => TypeOK BY DEF IInv
<1>2. QED BY <1>1, Inductive, PTL

(* next, complete: a lease is exclusive from its claim until it ends or    *)
(* its result is recorded, however old the clocks that others work from.   *)
THEOREM LeasesExclude == Spec => []LeaseExclusive
<1>1. IInv => LeaseExclusive BY DEF IInv, JobOK, HoldOK, LeaseExclusive
<1>2. QED BY <1>1, Inductive, PTL

(* complete: results are recorded in the order of their leases, each once. *)
THEOREM ResultsOrdered == Spec => []RecordedInOrder
<1>1. IInv => RecordedInOrder BY DEF IInv, CheckOK, RecordedInOrder
<1>2. QED BY <1>1, Inductive, PTL

(* evidence_search_pipeline lets through no check without the proof that   *)
(* evidence_current would ask for.                                         *)
THEOREM SearchesProven == Spec => []SearchableIsProven
<1>1. IInv => SearchableIsProven
  BY DEF IInv, TypeOK, CheckOK, SearchableIsProven, Searchable, Checked
<1>2. QED BY <1>1, Inductive, PTL

(* next, complete: a free check that used up its attempts is escalated.    *)
THEOREM Escalated == Spec => []ExhaustedEscalated
<1>1. IInv => ExhaustedEscalated
  BY DEF IInv, TypeOK, CheckOK, ExhaustedEscalated, Checked
<1>2. QED BY <1>1, Inductive, PTL
=============================================================================
