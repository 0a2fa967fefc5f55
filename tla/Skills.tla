-------------------------------- MODULE Skills --------------------------------
(***************************************************************************)
(* The promotion of a skill and its lookup in the memory store (store.cpp: *)
(* store_record_skill_run, store_promote_skill, store_query_skills), round *)
(* trip by round trip.  A promotion reads the origin node, its evidence    *)
(* and its verification runs one after the other, and then upserts the     *)
(* skill by its name; a lookup reads the same again.  Nodes are judged,    *)
(* evidence expires and runs are recorded in between.  One skill name: the *)
(* names have nothing in common.  Node contents and committed runs do not  *)
(* change, so the checks of hash, version and link always come out alike.  *)
(***************************************************************************)
EXTENDS Naturals, FiniteSets, Sequences, SequencesExt

CONSTANTS History,     \* the runs on file at first
          Recorded,    \* profiles of the runs that are recorded
          Origins,     \* origin nodes
          Fixtures, Promoters, None,
          MaxRuns, MaxChanges   \* bounds on the runs recorded, and on what befalls nodes

ASSUME SkillsAssumption == MaxRuns \in Nat /\ MaxChanges \in Nat

(* A profile that cannot promote, one that can, and one that needs a suite. *)
Profiles == {"apply", "desk", "spa"}
SuiteRequired(profile) == profile = "spa"
ApplyOnly(profile) == profile = "apply"

VARIABLES verified,  \* origins whose node is verified
          fresh,     \* origins whose evidence is current
          runs,      \* skill_verification_runs, in the order of created_at
          skill,     \* the row of skills, or None
          promotion, \* of each promoter
          query,     \* the lookup that is under way, or None
          seen,      \* auxiliary: what held at some time since it began
          changes

vars == <<verified, fresh, runs, skill, promotion, query, seen, changes>>
store == <<verified, fresh, runs, changes>>

Run == [origin : Origins, fixture : Fixtures, profile : Profiles, passed : BOOLEAN, id : 1..MaxRuns]
Skill == [origin : Origins, profile : Profiles, run : Run]
Idle == [pc |-> "idle"]
Promotion == [pc : {"evidence", "run", "suite", "again", "suite again", "upsert"},
              origin : Origins, run : Run \cup {None}, absent : BOOLEAN]
Query == [pc : {"node", "evidence", "run", "suite", "listed"}, skill : Skill]

ASSUME HistoryAssumption ==
    History \in Seq(Run) /\ Len(History) <= MaxRuns /\ Recorded \subseteq Profiles

TypeOK ==
    /\ verified \subseteq Origins /\ fresh \subseteq Origins
    /\ runs \in Seq(Run) /\ Len(runs) <= MaxRuns
    /\ skill \in Skill \cup {None}
    /\ promotion \in [Promoters -> Promotion \cup {Idle}]
    /\ query \in Query \cup {None}
    /\ changes \in 0..MaxChanges

Init ==
    /\ verified = Origins /\ fresh = Origins /\ runs = History
    /\ skill = None /\ promotion = [p \in Promoters |-> Idle] /\ query = None /\ seen = {}
    /\ changes = 0

-----------------------------------------------------------------------------
(* Verification runs: of an origin, the latest; of a profile that needs a  *)
(* suite, the latest of each fixture.                                      *)

(* Mutant: the runs of the name, of whatever origin. *)
RunsOfName(rs, origin) == ToSet(rs)

RunsOf(rs, origin) == {r \in ToSet(rs) : r.origin = origin}
RunsUnder(rs, origin, profile) == {r \in RunsOf(rs, origin) : r.profile = profile}

(* The last of rs that is one of the runs S, if there is any. *)
Latest(rs, S) ==
    {rs[i] : i \in {i \in DOMAIN rs : rs[i] \in S /\ \A k \in i + 1..Len(rs) : rs[k] \notin S}}

(* Mutant: every run that passed counts, not every fixture. *)
EveryRun(rs, origin, profile) == Cardinality({r \in RunsUnder(rs, origin, profile) : r.passed})

(* A fixture counts if its latest run passed. *)
PassingFixtures(rs, origin, profile) ==
    LET of(f) == {r \in RunsUnder(rs, origin, profile) : r.fixture = f} IN
    Cardinality({f \in Fixtures : \E r \in Latest(rs, of(f)) : r.passed})

Promotable(run) == run.passed /\ ~ApplyOnly(run.profile)
SuitePasses(rs, origin, profile) == PassingFixtures(rs, origin, profile) >= 2

(* What a lookup asks of a skill. *)
Facts(s) ==
    (IF s.origin \in verified THEN {"verified"} ELSE {})
    \cup (IF s.origin \in fresh THEN {"fresh"} ELSE {})
    \cup (IF \E r \in Latest(runs, RunsOf(runs, s.origin)) : Promotable(r) /\ r.profile = s.profile
          THEN {"passing"} ELSE {})
    \cup (IF SuiteRequired(s.profile) => SuitePasses(runs, s.origin, s.profile) THEN {"suite"} ELSE {})

Watch == seen' = IF query = None THEN {} ELSE seen \cup Facts(query.skill)'

-----------------------------------------------------------------------------
(* What goes on beside promotions and lookups. *)

Judge(origin) ==
    /\ changes < MaxChanges /\ changes' = changes + 1
    /\ verified' = IF origin \in verified THEN verified \ {origin} ELSE verified \cup {origin}
    /\ UNCHANGED <<fresh, runs, skill, promotion, query>> /\ Watch

ChangeEvidence(origin) ==
    /\ changes < MaxChanges /\ changes' = changes + 1
    /\ fresh' = IF origin \in fresh THEN fresh \ {origin} ELSE fresh \cup {origin}
    /\ UNCHANGED <<verified, runs, skill, promotion, query>> /\ Watch

(* record_skill_run takes the time and then inserts: others may come in    *)
(* between.  A run may be recorded of any origin, the node is not read.    *)
RecordSkillRun(origin, fixture, profile, passed) ==
    /\ Len(runs) < MaxRuns
    /\ \E i \in 1..Len(runs) + 1 :
           runs' = InsertAt(runs, i, [origin |-> origin, fixture |-> fixture, profile |-> profile,
                                      passed |-> passed, id |-> Len(runs) + 1])
    /\ UNCHANGED <<verified, fresh, skill, promotion, query, changes>> /\ Watch

-----------------------------------------------------------------------------
(* store_promote_skill. *)

Becomes(p, state) == promotion' = [promotion EXCEPT ![p] = state]
Goto(p, pc) == Becomes(p, [promotion[p] EXCEPT !.pc = pc])

(* An error, or a check that fails: nothing is written. *)
GiveUp(p) ==
    /\ promotion[p] # Idle
    /\ Becomes(p, Idle)
    /\ UNCHANGED <<store, skill, query, seen>>

Promote(p, origin) ==
    /\ promotion[p] = Idle /\ origin \in verified
    /\ Becomes(p, [pc |-> "evidence", origin |-> origin, run |-> None, absent |-> FALSE])
    /\ UNCHANGED <<store, skill, query, seen>>

PromoteEvidence(p) ==
    /\ promotion[p].pc = "evidence" /\ promotion[p].origin \in fresh
    /\ Goto(p, "run")
    /\ UNCHANGED <<store, skill, query, seen>>

(* require_passing_skill_run: the latest run, then the suite.  It is asked *)
(* twice and has to name the same run.                                     *)
FindRun(p) ==
    /\ promotion[p].pc \in {"run", "again"}
    /\ \E r \in Latest(runs, RunsOf(runs, promotion[p].origin)) :
           /\ Promotable(r)
           /\ promotion[p].pc = "again" => r = promotion[p].run
           /\ Becomes(p, [promotion[p] EXCEPT
                            !.pc = IF SuiteRequired(r.profile)
                                   THEN IF @ = "run" THEN "suite" ELSE "suite again"
                                   ELSE IF @ = "run" THEN "again" ELSE "upsert",
                            !.run = r, !.absent = skill = None])
    /\ UNCHANGED <<store, skill, query, seen>>

CountFixtures(p) ==
    /\ promotion[p].pc \in {"suite", "suite again"}
    /\ SuitePasses(runs, promotion[p].origin, promotion[p].run.profile)
    /\ Becomes(p, [promotion[p] EXCEPT !.pc = IF @ = "suite" THEN "again" ELSE "upsert",
                                       !.absent = skill = None])
    /\ UNCHANGED <<store, skill, query, seen>>

Upsert(p) ==
    /\ promotion[p].pc = "upsert"
    /\ skill' = [origin |-> promotion[p].origin, profile |-> promotion[p].run.profile,
                 run |-> promotion[p].run]
    /\ Becomes(p, Idle)
    /\ UNCHANGED <<store, query, seen>>

(* Two upserts insert the name: the one that is refused answers with the   *)
(* row of the other.                                                       *)
UpsertRefused(p) ==
    /\ promotion[p].pc = "upsert" /\ promotion[p].absent /\ skill # None
    /\ Becomes(p, Idle)
    /\ UNCHANGED <<store, skill, query, seen>>

-----------------------------------------------------------------------------
(* store_query_skills, for the row of this skill. *)

Lookup ==
    /\ query = None /\ skill # None
    /\ query' = [pc |-> "node", skill |-> skill] /\ seen' = Facts(skill)
    /\ UNCHANGED <<store, skill, promotion>>

(* Mutant: the node is trusted since its promotion. *)
TrustNode(s) == TRUE

NodeCurrent(s) == s.origin \in verified

Ask(from, holds, to) ==
    /\ query # None /\ query.pc = from
    /\ query' = IF holds THEN [query EXCEPT !.pc = to] ELSE None
    /\ seen' = IF holds THEN seen ELSE {}
    /\ UNCHANGED <<store, skill, promotion>>

LookupNode == query # None /\ Ask("node", NodeCurrent(query.skill), "evidence")

LookupEvidence == query # None /\ Ask("evidence", query.skill.origin \in fresh, "run")

(* The latest run, whichever it is, under the profile of the promotion. *)
LookupRun ==
    /\ query # None
    /\ LET s == query.skill IN
       Ask("run", \E r \in Latest(runs, RunsOf(runs, s.origin)) : Promotable(r) /\ r.profile = s.profile,
           IF SuiteRequired(s.profile) THEN "suite" ELSE "listed")

LookupSuite ==
    query # None /\ Ask("suite", SuitePasses(runs, query.skill.origin, query.skill.profile), "listed")

Answer ==
    /\ query # None /\ query.pc = "listed"
    /\ query' = None /\ seen' = {}
    /\ UNCHANGED <<store, skill, promotion>>

Next ==
    \/ \E o \in Origins : Judge(o) \/ ChangeEvidence(o)
    \/ \E o \in Origins, f \in Fixtures, profile \in Recorded, passed \in BOOLEAN :
           RecordSkillRun(o, f, profile, passed)
    \/ \E p \in Promoters :
           \/ GiveUp(p) \/ PromoteEvidence(p) \/ FindRun(p) \/ CountFixtures(p)
           \/ Upsert(p) \/ UpsertRefused(p)
           \/ \E o \in Origins : Promote(p, o)
    \/ Lookup \/ LookupNode \/ LookupEvidence \/ LookupRun \/ LookupSuite \/ Answer

Spec == Init /\ [][Next]_vars

-----------------------------------------------------------------------------
(* current.md:447-461: a skill that a lookup lists was backed while it was *)
(* looked up: its node was verified, the evidence current, the latest run  *)
(* passed and the suite, too, each at some time since the lookup began.  So*)
(* what was withdrawn before it, and stays so, is not listed, whatever was *)
(* promoted by checks made before.                                         *)
ListedIsBacked ==
    query # None /\ query.pc = "listed" => seen = {"verified", "fresh", "passing", "suite"}

(* Of a skill on file, whoever wrote it last, there is a run that passed,  *)
(* under its profile, of its own origin; and of two fixtures if that takes *)
(* a suite.                                                                *)
PromotedWasProven ==
    skill # None =>
        /\ skill.run \in ToSet(runs) /\ Promotable(skill.run) /\ skill.run.origin = skill.origin
        /\ SuiteRequired(skill.profile) =>
               Cardinality({r.fixture : r \in {r \in RunsUnder(runs, skill.origin, skill.profile) :
                                                r.passed}}) >= 2
=============================================================================
