----------------------------- MODULE SkillsProofs -----------------------------
(* Theorems about Skills, for every value of its constants. *)
EXTENDS Skills, FiniteSetTheorems, TLAPS

(* The checks that a lookup has behind it, in the order it makes them. *)
Behind(pc) ==
    CASE pc = "node" -> {}
      [] pc = "evidence" -> {"verified"}
      [] pc = "run" -> {"verified", "fresh"}
      [] pc = "suite" -> {"verified", "fresh", "passing"}
      [] pc = "listed" -> {"verified", "fresh", "passing", "suite"}

(* All that holds now has been seen, and so has what was checked before. *)
Seen ==
    query # None =>
        /\ query.pc \in {"node", "evidence", "run", "suite", "listed"}
        /\ query = [pc |-> query.pc, skill |-> query.skill]
        /\ Facts(query.skill) \subseteq seen
        /\ Behind(query.pc) \subseteq seen
        /\ seen \subseteq {"verified", "fresh", "passing", "suite"}

LEMMA FactsNamed == \A s : Facts(s) \subseteq {"verified", "fresh", "passing", "suite"}
  BY DEF Facts

(* What happens beside a lookup is watched. *)
LEMMA WatchedSeen ==
  ASSUME Seen, UNCHANGED query, Watch
  PROVE  Seen'
<1>. SUFFICES ASSUME query' # None
              PROVE  /\ Facts(query.skill)' \subseteq seen' /\ seen \subseteq seen'
                     /\ seen' \subseteq {"verified", "fresh", "passing", "suite"}
  BY DEF Seen
<1>1. Facts(query.skill)' \subseteq {"verified", "fresh", "passing", "suite"}
  BY DEF Facts
<1>2. seen' = seen \cup Facts(query.skill)'
  BY DEF Watch
<1>. QED BY <1>1, <1>2 DEF Seen

(* The facts as a function of what a lookup reads of the store. *)
FactsIn(s, nodes, evidence, rs) ==
    (IF s.origin \in nodes THEN {"verified"} ELSE {})
    \cup (IF s.origin \in evidence THEN {"fresh"} ELSE {})
    \cup (IF \E r \in Latest(rs, RunsOf(rs, s.origin)) : Promotable(r) /\ r.profile = s.profile
          THEN {"passing"} ELSE {})
    \cup (IF SuiteRequired(s.profile) => SuitePasses(rs, s.origin, s.profile) THEN {"suite"} ELSE {})

LEMMA FactsSame ==
  ASSUME UNCHANGED store, query'.skill = query.skill
  PROVE  Facts(query.skill)' = Facts(query.skill)
<1>1. /\ Facts(query.skill) = FactsIn(query.skill, verified, fresh, runs)
      /\ Facts(query.skill)' = FactsIn(query'.skill, verified', fresh', runs')
  BY DEF Facts, FactsIn
<1>. QED BY <1>1 DEF store

(* What changes neither the store nor the lookup shows nothing new. *)
LEMMA StoreSame ==
  ASSUME Seen, UNCHANGED <<store, query, seen>>
  PROVE  Seen'
<1>1. ASSUME query # None PROVE Facts(query.skill)' = Facts(query.skill)
  BY FactsSame DEF store
<1>. QED BY <1>1 DEF Seen

(* A lookup goes on if the check holds, which is then a fact. *)
LEMMA AskSeen ==
  ASSUME Seen, query # None, NEW from, NEW holds, NEW to, Ask(from, holds, to),
         to \in {"evidence", "run", "suite", "listed"},
         holds => Behind(to) \subseteq Behind(from) \cup Facts(query.skill)
  PROVE  Seen'
<1>1. CASE ~holds
  BY <1>1 DEF Ask, Seen
<1>2. CASE holds
  <2>1. query' = [pc |-> to, skill |-> query.skill] /\ seen' = seen
    BY <1>2 DEF Ask, Seen
  <2>2. Facts(query.skill)' = Facts(query.skill)
    BY <2>1, FactsSame DEF Ask
  <2>3. query.pc = from
    BY DEF Ask
  <2>. QED BY <1>2, <2>1, <2>2, <2>3 DEF Seen
<1>. QED BY <1>1, <1>2

LEMMA SeenStep == Seen /\ [Next]_vars => Seen'
<1>. SUFFICES ASSUME Seen, [Next]_vars PROVE Seen'
  OBVIOUS
<1>1. CASE UNCHANGED vars
  BY <1>1, StoreSame DEF vars, store
<1>2. ASSUME NEW o, Judge(o) \/ ChangeEvidence(o) PROVE Seen'
  BY <1>2, WatchedSeen DEF Judge, ChangeEvidence
<1>3. ASSUME NEW o, NEW f, NEW profile, NEW passed, RecordSkillRun(o, f, profile, passed)
      PROVE  Seen'
  BY <1>3, WatchedSeen DEF RecordSkillRun
<1>4. ASSUME NEW p, GiveUp(p) \/ PromoteEvidence(p) \/ FindRun(p) \/ CountFixtures(p) \/ UpsertRefused(p)
      PROVE  Seen'
  BY <1>4, StoreSame DEF GiveUp, PromoteEvidence, FindRun, CountFixtures, UpsertRefused
<1>5. ASSUME NEW p, Upsert(p) PROVE Seen'
  BY <1>5, StoreSame DEF Upsert
<1>6. ASSUME NEW p, NEW o, Promote(p, o) PROVE Seen'
  BY <1>6, StoreSame DEF Promote
<1>7. CASE Lookup
  <2>1. query' = [pc |-> "node", skill |-> skill] /\ seen' = Facts(skill)
    BY <1>7 DEF Lookup
  <2>2. Facts(query.skill)' = Facts(skill)
    <3>1. /\ Facts(skill) = FactsIn(skill, verified, fresh, runs)
          /\ Facts(query.skill)' = FactsIn(query'.skill, verified', fresh', runs')
      BY DEF Facts, FactsIn
    <3>. QED BY <1>7, <2>1, <3>1 DEF Lookup, store
  <2>. QED BY <2>1, <2>2, FactsNamed DEF Seen, Behind
<1>8. CASE LookupNode
  BY <1>8, AskSeen DEF LookupNode, NodeCurrent, Facts, Behind
<1>9. CASE LookupEvidence
  BY <1>9, AskSeen DEF LookupEvidence, Facts, Behind
<1>10. CASE LookupRun
  <2>. DEFINE next == IF SuiteRequired(query.skill.profile) THEN "suite" ELSE "listed"
              passing == \E r \in Latest(runs, RunsOf(runs, query.skill.origin)) :
                             Promotable(r) /\ r.profile = query.skill.profile
  <2>1. query # None /\ Ask("run", passing, next)
    BY <1>10 DEF LookupRun
  <2>2. passing => Behind(next) \subseteq Behind("run") \cup Facts(query.skill)
    BY DEF Behind, Facts
  <2>. QED BY <2>1, <2>2, AskSeen
<1>11. CASE LookupSuite
  BY <1>11, AskSeen DEF LookupSuite, Facts, Behind
<1>12. CASE Answer
  BY <1>12 DEF Answer, Seen
<1>. QED BY <1>1, <1>2, <1>3, <1>4, <1>5, <1>6, <1>7, <1>8, <1>9, <1>10, <1>11, <1>12 DEF Next

(* store_query_skills lists a skill only if node, evidence, run and suite  *)
(* were as they should be, each at some time since the lookup began: for   *)
(* every history of runs and every number of promoters.                    *)
THEOREM LookupBacked == Spec => []ListedIsBacked
<1>1. Init => Seen
  BY DEF Init, Seen
<1>2. Seen => ListedIsBacked
  BY DEF Seen, ListedIsBacked, Behind
<1>. QED BY <1>1, <1>2, SeenStep, PTL DEF Spec

-----------------------------------------------------------------------------
(* Promotions: what a check has found in the runs stays true of them. *)

(* The fixtures on which an origin has a run that passed, under a profile. *)
Passed(rs, origin, profile) ==
    {r.fixture : r \in {r \in RunsUnder(rs, origin, profile) : r.passed}}

Proven(rs, run) ==
    /\ run \in ToSet(rs) /\ Promotable(run)

TwoPassed(rs, run) ==
    SuiteRequired(run.profile) => Cardinality(Passed(rs, run.origin, run.profile)) >= 2

(* The run a promotion goes by is proven from the moment it was found, and *)
(* its suite from the moment it was counted.                               *)
PromotionOK(p) ==
    /\ promotion[p].pc \in {"suite", "again", "suite again", "upsert"} =>
           /\ promotion[p].run \in Run /\ promotion[p].run.origin = promotion[p].origin
           /\ Proven(runs, promotion[p].run)
    /\ promotion[p].pc \in {"again", "suite again", "upsert"} => TwoPassed(runs, promotion[p].run)

SkillOK ==
    skill # None => /\ skill.run \in Run /\ Proven(runs, skill.run)
                    /\ skill.run.origin = skill.origin /\ skill.run.profile = skill.profile
                    /\ TwoPassed(runs, skill.run)

PInv == TypeOK /\ SkillOK /\ \A p \in Promoters : PromotionOK(p)

LEMMA Inserted ==
    ASSUME NEW s \in Seq(Run), NEW i \in 1..Len(s) + 1, NEW r \in Run
    PROVE  /\ InsertAt(s, i, r) \in Seq(Run)
           /\ Len(InsertAt(s, i, r)) = Len(s) + 1
           /\ ToSet(s) \subseteq ToSet(InsertAt(s, i, r))
<1> DEFINE front == SubSeq(s, 1, i - 1)
           back == SubSeq(s, i, Len(s))
           t == InsertAt(s, i, r)
<1>1. /\ front \in Seq(Run) /\ Len(front) = i - 1 /\ \A k \in 1..i - 1 : front[k] = s[k]
      /\ back \in Seq(Run) /\ Len(back) = Len(s) - i + 1
      /\ \A k \in 1..Len(s) - i + 1 : back[k] = s[i + k - 1]
  OBVIOUS
<1>2. t = (front \o <<r>>) \o back BY DEF InsertAt
<1> HIDE DEF front, back, t
<1>3. /\ t \in Seq(Run) /\ Len(t) = Len(s) + 1
      /\ \A k \in 1..i - 1 : t[k] = front[k]
      /\ \A k \in 1..Len(s) - i + 1 : t[i + k] = back[k]
  <2>1. front \o <<r>> \in Seq(Run) /\ Len(front \o <<r>>) = i BY <1>1
  <2>2. \A k \in 1..i - 1 : (front \o <<r>>)[k] = front[k] BY <1>1
  <2>3. QED BY <1>1, <1>2, <2>1, <2>2
<1>4. ASSUME NEW k \in 1..Len(s) PROVE s[k] \in ToSet(t)
  <2>1. CASE k < i
    <3>1. k \in 1..Len(t) /\ t[k] = s[k] BY <1>1, <1>3, <2>1
    <3>2. QED BY <1>3, <3>1 DEF ToSet
  <2>2. CASE k >= i
    <3>1. k - i + 1 \in 1..Len(s) - i + 1 /\ k + 1 \in 1..Len(t) BY <1>3, <2>2
    <3>2. t[i + (k - i + 1)] = back[k - i + 1] /\ back[k - i + 1] = s[i + (k - i + 1) - 1]
      BY <1>1, <1>3, <3>1
    <3>3. i + (k - i + 1) = k + 1 /\ i + (k - i + 1) - 1 = k BY <2>2
    <3>4. t[k + 1] = s[k] BY <3>2, <3>3
    <3>5. QED BY <1>3, <3>1, <3>4 DEF ToSet
  <2>3. QED BY <2>1, <2>2
<1>5. QED BY <1>3, <1>4 DEF ToSet, t

(* A sequence has finitely many elements. *)
LEMMA FinitelyMany ==
    ASSUME NEW s \in Seq(Run) PROVE IsFiniteSet(ToSet(s))
<1>1. IsFiniteSet(1..Len(s)) BY FS_Interval
<1>2. s \in Surjection(1..Len(s), ToSet(s)) BY DEF Surjection, ToSet
<1>3. QED BY <1>1, <1>2, FS_Surjection

LEMMA PassedFinite ==
    ASSUME NEW s \in Seq(Run), NEW o, NEW profile
    PROVE  IsFiniteSet(Passed(s, o, profile)) /\ Cardinality(Passed(s, o, profile)) \in Nat
<1> DEFINE R == {r \in RunsUnder(s, o, profile) : r.passed}
<1>1. IsFiniteSet(R) BY FinitelyMany, FS_Subset DEF RunsUnder, RunsOf
<1>2. [r \in R |-> r.fixture] \in Surjection(R, Passed(s, o, profile)) BY DEF Surjection, Passed
<1>3. IsFiniteSet(Passed(s, o, profile)) BY <1>1, <1>2, FS_Surjection
<1>4. QED BY <1>3, FS_CardinalityType

(* What was proven stays so while runs are added. *)
LEMMA StaysProven ==
    ASSUME NEW s \in Seq(Run), NEW t \in Seq(Run), ToSet(s) \subseteq ToSet(t), NEW run
    PROVE  (Proven(s, run) => Proven(t, run)) /\ (TwoPassed(s, run) => TwoPassed(t, run))
<1> DEFINE S == Passed(s, run.origin, run.profile)
           T == Passed(t, run.origin, run.profile)
<1>1. S \subseteq T BY DEF Passed, RunsUnder, RunsOf
<1>2. IsFiniteSet(T) /\ Cardinality(S) \in Nat /\ Cardinality(T) \in Nat BY PassedFinite
<1>3. Cardinality(S) <= Cardinality(T) BY <1>1, <1>2, FS_Subset
<1>4. QED BY <1>2, <1>3 DEF Proven, TwoPassed

(* A fixture that counts has a run that passed. *)
LEMMA SuiteProves ==
    ASSUME NEW s \in Seq(Run), NEW run, SuitePasses(s, run.origin, run.profile)
    PROVE  TwoPassed(s, run)
<1> DEFINE of(f) == {r \in RunsUnder(s, run.origin, run.profile) : r.fixture = f}
           F == {f \in Fixtures : \E r \in Latest(s, of(f)) : r.passed}
           T == Passed(s, run.origin, run.profile)
<1>1. \A f : Latest(s, of(f)) \subseteq of(f) BY DEF Latest
<1>2. F \subseteq T BY <1>1 DEF Passed
<1>3. IsFiniteSet(T) /\ Cardinality(T) \in Nat BY PassedFinite
<1>4. Cardinality(F) <= Cardinality(T) /\ Cardinality(F) \in Nat
  BY <1>2, <1>3, FS_Subset, FS_CardinalityType
<1>5. Cardinality(F) >= 2 BY DEF SuitePasses, PassingFixtures
<1>6. QED BY <1>3, <1>4, <1>5 DEF TwoPassed

(* A promotion under way. *)
LEMMA Busy ==
    ASSUME PInv, NEW p \in Promoters, promotion[p].pc # "idle" PROVE promotion[p] \in Promotion
<1>1. promotion[p] \in Promotion \cup {Idle} BY DEF PInv, TypeOK
<1>2. Idle.pc = "idle" BY DEF Idle
<1>3. QED BY <1>1, <1>2

(* What leaves the runs alone, and a promotion or the skill as it was. *)
LEMMA PromotionStep ==
    ASSUME PInv, NEW p \in Promoters,
           GiveUp(p) \/ PromoteEvidence(p) \/ FindRun(p) \/ CountFixtures(p)
           \/ Upsert(p) \/ UpsertRefused(p) \/ \E o \in Origins : Promote(p, o)
    PROVE  PInv'
<1>0. TypeOK /\ SkillOK /\ PromotionOK(p) /\ promotion \in [Promoters -> Promotion \cup {Idle}]
  BY DEF PInv, TypeOK
<1>1. UNCHANGED <<verified, fresh, runs, changes, query, seen>>
  BY DEF GiveUp, PromoteEvidence, FindRun, CountFixtures, Upsert, UpsertRefused, Promote, store
<1>2. ASSUME NEW s \in Promotion \cup {Idle}, promotion' = [promotion EXCEPT ![p] = s],
             PromotionOK(p)', skill' \in Skill \cup {None}, SkillOK'
      PROVE  PInv'
  <2>1. TypeOK' BY <1>0, <1>1, <1>2 DEF TypeOK, store
  <2>2. ASSUME NEW q \in Promoters, q # p PROVE PromotionOK(q)'
    <3>1. promotion'[q] = promotion[q] BY <1>0, <1>2, <2>2
    <3>2. PromotionOK(q) BY DEF PInv
    <3>3. QED BY <1>1, <3>1, <3>2 DEF PromotionOK, store
  <2>3. QED BY <1>2, <2>1, <2>2 DEF PInv
<1>3. UNCHANGED skill => skill' \in Skill \cup {None} /\ SkillOK'
  BY <1>0, <1>1 DEF TypeOK, SkillOK, store
<1>4. Becomes(p, Idle) => promotion' = [promotion EXCEPT ![p] = Idle] /\ PromotionOK(p)'
  <2> SUFFICES ASSUME Becomes(p, Idle)
               PROVE  promotion' = [promotion EXCEPT ![p] = Idle] /\ PromotionOK(p)'
    OBVIOUS
  <2>1. promotion' = [promotion EXCEPT ![p] = Idle] BY DEF Becomes
  <2>2. promotion'[p].pc = "idle" BY <1>0, <2>1 DEF Idle
  <2>3. QED BY <2>1, <2>2 DEF PromotionOK
<1>5. CASE GiveUp(p) \/ UpsertRefused(p)
  BY <1>2, <1>3, <1>4, <1>5 DEF GiveUp, UpsertRefused
<1>6. CASE PromoteEvidence(p)
  <2>1. promotion[p] \in Promotion BY <1>6, Busy DEF PromoteEvidence
  <2>2. [promotion[p] EXCEPT !.pc = "run"] \in Promotion BY <2>1 DEF Promotion
  <2>3. promotion' = [promotion EXCEPT ![p] = [promotion[p] EXCEPT !.pc = "run"]]
    BY <1>6 DEF PromoteEvidence, Goto, Becomes
  <2>4. PromotionOK(p)' BY <1>0, <2>1, <2>3 DEF PromotionOK, Promotion
  <2>5. QED BY <1>2, <1>3, <1>6, <2>2, <2>3, <2>4 DEF PromoteEvidence
<1>7. CASE FindRun(p)
  <2> DEFINE next(r) == [promotion[p] EXCEPT
               !.pc = IF SuiteRequired(r.profile)
                      THEN IF @ = "run" THEN "suite" ELSE "suite again"
                      ELSE IF @ = "run" THEN "again" ELSE "upsert",
               !.run = r, !.absent = skill = None]
  <2>1. PICK r \in Latest(runs, RunsOf(runs, promotion[p].origin)) :
          /\ Promotable(r)
          /\ promotion[p].pc = "again" => r = promotion[p].run
          /\ promotion' = [promotion EXCEPT ![p] = next(r)]
    BY <1>7 DEF FindRun, Becomes
  <2>2. promotion[p] \in Promotion /\ promotion[p].pc \in {"run", "again"}
    <3>1. promotion[p].pc \in {"run", "again"} BY <1>7 DEF FindRun
    <3>2. QED BY <3>1, Busy
  <2>3. r \in ToSet(runs) /\ r.origin = promotion[p].origin BY DEF Latest, RunsOf
  <2>4. r \in Run BY <1>0, <2>3 DEF TypeOK, ToSet
  <2>5. next(r) \in Promotion BY <2>2, <2>4 DEF Promotion
  <2>6. /\ next(r).run = r /\ next(r).origin = promotion[p].origin
        /\ next(r).pc \in {"again", "suite again", "upsert"} =>
               ~SuiteRequired(r.profile) \/ promotion[p].pc = "again"
    BY <2>2 DEF Promotion
  <2>7. promotion[p].pc = "again" => TwoPassed(runs, r) BY <1>0, <2>1 DEF PromotionOK
  <2>8. next(r).pc \in {"again", "suite again", "upsert"} => TwoPassed(runs, r)
    BY <2>6, <2>7 DEF TwoPassed
  <2>9. promotion'[p] = next(r) BY <1>0, <2>1
  <2> HIDE DEF next
  <2>10. PromotionOK(p)' BY <1>1, <2>1, <2>3, <2>4, <2>6, <2>8, <2>9 DEF PromotionOK, Proven, store
  <2>11. QED BY <1>2, <1>3, <1>7, <2>1, <2>5, <2>10 DEF FindRun
<1>8. CASE CountFixtures(p)
  <2> DEFINE next == [promotion[p] EXCEPT !.pc = IF @ = "suite" THEN "again" ELSE "upsert",
                                          !.absent = skill = None]
  <2>1. promotion' = [promotion EXCEPT ![p] = next] /\ promotion[p].pc \in {"suite", "suite again"}
        /\ SuitePasses(runs, promotion[p].origin, promotion[p].run.profile)
    BY <1>8 DEF CountFixtures, Becomes
  <2>2. promotion[p] \in Promotion BY <2>1, Busy
  <2>3. next \in Promotion /\ next.run = promotion[p].run /\ next.origin = promotion[p].origin
    BY <2>2 DEF Promotion
  <2>4. promotion[p].run.origin = promotion[p].origin /\ promotion[p].run \in Run
        /\ Proven(runs, promotion[p].run)
    BY <1>0, <2>1 DEF PromotionOK
  <2>5. runs \in Seq(Run) BY <1>0 DEF TypeOK
  <2>6. TwoPassed(runs, promotion[p].run) BY <2>1, <2>4, <2>5, SuiteProves
  <2>7. promotion'[p] = next BY <1>0, <2>1
  <2> HIDE DEF next
  <2>8. PromotionOK(p)' BY <1>1, <2>3, <2>4, <2>6, <2>7 DEF PromotionOK, store
  <2>9. QED BY <1>2, <1>3, <1>8, <2>1, <2>3, <2>8 DEF CountFixtures
<1>9. CASE Upsert(p)
  <2>1. promotion[p].pc = "upsert" /\ Becomes(p, Idle)
        /\ skill' = [origin |-> promotion[p].origin, profile |-> promotion[p].run.profile,
                     run |-> promotion[p].run]
    BY <1>9 DEF Upsert
  <2>2. promotion[p] \in Promotion BY <2>1, Busy
  <2>3. promotion[p].run \in Run /\ promotion[p].run.origin = promotion[p].origin
        /\ Proven(runs, promotion[p].run) /\ TwoPassed(runs, promotion[p].run)
    BY <1>0, <2>1 DEF PromotionOK
  <2>4. skill' \in Skill BY <2>1, <2>2, <2>3 DEF Skill, Promotion, Run
  <2>5. SkillOK' BY <1>1, <2>1, <2>3 DEF SkillOK, store
  <2>6. QED BY <1>2, <1>4, <2>1, <2>4, <2>5
<1>10. CASE \E o \in Origins : Promote(p, o)
  <2>1. PICK o \in Origins : Promote(p, o) BY <1>10
  <2> DEFINE next == [pc |-> "evidence", origin |-> o, run |-> None, absent |-> FALSE]
  <2>2. next \in Promotion BY DEF Promotion
  <2>3. promotion' = [promotion EXCEPT ![p] = next] BY <2>1 DEF Promote, Becomes
  <2>4. PromotionOK(p)' BY <1>0, <2>3 DEF PromotionOK
  <2>5. QED BY <1>2, <1>3, <2>1, <2>2, <2>3, <2>4 DEF Promote
<1>11. QED BY <1>5, <1>6, <1>7, <1>8, <1>9, <1>10

LEMMA PInvStep == PInv /\ [Next]_vars => PInv'
<1> SUFFICES ASSUME PInv, [Next]_vars PROVE PInv' OBVIOUS
<1>0. TypeOK BY DEF PInv
<1>1. ASSUME UNCHANGED <<runs, skill, promotion>>, TypeOK' PROVE PInv'
  BY <1>1 DEF PInv, SkillOK, PromotionOK
<1>2. CASE UNCHANGED vars
  <2>1. TypeOK' BY <1>0, <1>2 DEF vars, TypeOK
  <2>2. QED BY <1>1, <1>2, <2>1 DEF vars
<1>3. ASSUME NEW o \in Origins, Judge(o) \/ ChangeEvidence(o) PROVE PInv'
  <2>1. TypeOK' BY <1>0, <1>3, SkillsAssumption DEF TypeOK, Judge, ChangeEvidence
  <2>2. QED BY <1>1, <1>3, <2>1 DEF Judge, ChangeEvidence
<1>4. ASSUME NEW o \in Origins, NEW f \in Fixtures, NEW profile \in Recorded, NEW passed \in BOOLEAN,
             RecordSkillRun(o, f, profile, passed)
      PROVE  PInv'
  <2> DEFINE r == [origin |-> o, fixture |-> f, profile |-> profile, passed |-> passed,
                   id |-> Len(runs) + 1]
  <2>1. PICK i \in 1..Len(runs) + 1 : runs' = InsertAt(runs, i, r) BY <1>4 DEF RecordSkillRun
  <2>2. runs \in Seq(Run) /\ Len(runs) \in Nat /\ Len(runs) < MaxRuns
    BY <1>0, <1>4 DEF TypeOK, RecordSkillRun
  <2>3. r \in Run BY <2>2, HistoryAssumption, SkillsAssumption DEF Run
  <2>4. runs' \in Seq(Run) /\ Len(runs') = Len(runs) + 1 /\ ToSet(runs) \subseteq ToSet(runs')
    <3> HIDE DEF r
    <3>1. QED BY <2>1, <2>2, <2>3, Inserted
  <2>5. UNCHANGED <<verified, fresh, skill, promotion, query, changes>> BY <1>4 DEF RecordSkillRun
  <2>6. TypeOK' BY <1>0, <2>2, <2>4, <2>5, SkillsAssumption DEF TypeOK
  <2>7. \A run : (Proven(runs, run) => Proven(runs', run)) /\ (TwoPassed(runs, run) => TwoPassed(runs', run))
    BY <2>2, <2>4, StaysProven
  <2>8. SkillOK' BY <2>5, <2>7 DEF PInv, SkillOK
  <2>9. ASSUME NEW p \in Promoters PROVE PromotionOK(p)'
    BY <2>5, <2>7 DEF PInv, PromotionOK
  <2>10. QED BY <2>6, <2>8, <2>9 DEF PInv
<1>5. ASSUME NEW p \in Promoters,
             GiveUp(p) \/ PromoteEvidence(p) \/ FindRun(p) \/ CountFixtures(p)
             \/ Upsert(p) \/ UpsertRefused(p) \/ \E o \in Origins : Promote(p, o)
      PROVE  PInv'
  BY <1>5, PromotionStep
<1>6. CASE Lookup
  <2>1. query' = [pc |-> "node", skill |-> skill] /\ skill \in Skill
        /\ UNCHANGED <<verified, fresh, runs, changes, skill, promotion>>
    BY <1>0, <1>6 DEF Lookup, TypeOK, store
  <2>2. query' \in Query BY <2>1 DEF Query
  <2>3. TypeOK' BY <1>0, <2>1, <2>2 DEF TypeOK
  <2>4. QED BY <1>1, <2>1, <2>3
<1>7. ASSUME NEW from, NEW holds, NEW to \in {"evidence", "run", "suite", "listed"},
             query # None, Ask(from, holds, to)
      PROVE  PInv'
  <2>1. query' = None \/ query' = [query EXCEPT !.pc = to] BY <1>7 DEF Ask
  <2>2. query \in Query BY <1>0, <1>7 DEF TypeOK
  <2>3. query' \in Query \cup {None} BY <2>1, <2>2 DEF Query
  <2>4. TypeOK' BY <1>0, <1>7, <2>3 DEF TypeOK, Ask, store
  <2>5. QED BY <1>1, <1>7, <2>4 DEF Ask, store
<1>8. CASE LookupNode BY <1>7, <1>8 DEF LookupNode
<1>9. CASE LookupEvidence BY <1>7, <1>9 DEF LookupEvidence
<1>10. CASE LookupRun
  <2>. DEFINE next == IF SuiteRequired(query.skill.profile) THEN "suite" ELSE "listed"
              passing == \E r \in Latest(runs, RunsOf(runs, query.skill.origin)) :
                             Promotable(r) /\ r.profile = query.skill.profile
  <2>1. query # None /\ Ask("run", passing, next) BY <1>10 DEF LookupRun
  <2>2. next \in {"evidence", "run", "suite", "listed"} OBVIOUS
  <2> HIDE DEF next, passing
  <2>3. QED BY <1>7, <2>1, <2>2
<1>11. CASE LookupSuite BY <1>7, <1>11 DEF LookupSuite
<1>12. CASE Answer
  <2>1. TypeOK' BY <1>0, <1>12 DEF Answer, TypeOK, store
  <2>2. QED BY <1>1, <1>12, <2>1 DEF Answer, store
<1>13. QED
  BY <1>2, <1>3, <1>4, <1>5, <1>6, <1>8, <1>9, <1>10, <1>11, <1>12 DEF Next

LEMMA PInductive == Spec => []PInv
<1>1. Init => PInv
  <2> SUFFICES ASSUME Init PROVE PInv OBVIOUS
  <2>1. TypeOK BY SkillsAssumption, HistoryAssumption DEF Init, TypeOK
  <2>2. \A p \in Promoters : promotion[p].pc = "idle" BY DEF Init, Idle
  <2>3. QED BY <2>1, <2>2 DEF Init, PInv, SkillOK, PromotionOK
<1>2. QED BY <1>1, PInvStep, PTL DEF Spec

(* Promotions and lookups keep their types, whatever they interleave with  *)
(* (store_promote_skill, store_query_skills).                              *)
THEOREM TypeCorrect == Spec => []TypeOK
<1>1. PInv => TypeOK BY DEF PInv
<1>2. QED BY <1>1, PInductive, PTL

(* A skill on file has a run of its own origin that passed, and two        *)
(* fixtures if its profile needs a suite, although the promotion reads the *)
(* runs one query at a time and others write the same name                 *)
(* (require_passing_skill_run, store_promote_skill).                       *)
THEOREM PromotionProven == Spec => []PromotedWasProven
<1>1. PInv => PromotedWasProven
  BY DEF PInv, SkillOK, Proven, TwoPassed, Passed, PromotedWasProven
<1>2. QED BY <1>1, PInductive, PTL
=============================================================================
