----------------------------- MODULE PaperProofs -----------------------------
(* Theorems about Paper, for every value of its constants. *)
EXTENDS Paper, SequenceTheorems, WellFoundedInduction, TLAPS

(* The calls that a phase may still make. *)
Latches(reasons) == [call : {"latch"}, reason : reasons, day : Days]
Rollovers == [call : {"rollover"}, day : Days]
Pnls == [call : {"pnl"}, event : Events, day : Days, amount : Int]
Saves == [call : {"save"}, position : Position]
Merges == [call : {"merge"}, index : Nat]
Calls(ph, o) ==
    CASE ph = "starting" -> Rollovers \cup Latches({"operator", "reconciliation_failure"}) \cup {Reconcile}
      [] ph = "opening" -> Rollovers \cup Latches({"operator"})
      [] ph = "settled" -> Merges \cup Pnls
      [] ph \in {"gate", "closing"} -> Latches({"daily_loss"}) \cup {Reconcile}
      [] ph = "claiming" -> {Claim(o)}
      [] ph = "cycle" -> Saves \cup Pnls \cup Latches({"non_atomic_leg_failure"}) \cup {Complete(o)}
      [] ph = "aborting" -> Latches({"reconciliation_failure"})
      [] OTHER -> {}

Claims == {Claim(o) : o \in Opps}
Completes == {Complete(o) : o \in Opps}
AllCalls == Rollovers \cup Latches(Reasons) \cup {Reconcile} \cup Merges \cup Pnls \cup Saves
              \cup Claims \cup Completes

Resting == {"down", "idle", "settling", "market", "fills"}

Typed == /\ todo \in Seq(Calls(phase, opp))
         /\ phase \in Resting => todo = <<>>

(* A latch that no new day lifts. *)
ForGood(k) == k # None /\ k.reason # "daily_loss"

(* The file never has such a latch that the memory lacks. *)
Latched == ForGood(disk.kill) /\ mem # None => mem.kill = disk.kill

(* What was begun is claimed, in memory and in the file. *)
Claimed ==
    \A o \in Opps :
        /\ begun[o] <= 1
        /\ begun[o] = 1 => o \in disk.claimed /\ (mem # None => o \in mem.claimed)
        /\ begun[o] = 1 /\ mem # None /\ o \in mem.pending => o \in disk.pending

(* A claim is made before its cycle begins, with the switch unlatched. *)
Claiming ==
    phase = "claiming" =>
        /\ begun[opp] = 0
        /\ todo = <<Claim(opp)>> \/ (todo = <<>> /\ opp \in mem.pending /\ mem = disk)

(* An interrupted cycle is latched, or will be before the node goes on. *)
Halted ==
    /\ Interrupted # {} => disk.kill = None \/ ForGood(disk.kill)
    /\ phase \in {"market", "claiming"} => mem.kill = None /\ Interrupted = {}
    /\ phase \in {"idle", "opening", "settling", "settled", "gate", "closing"} /\ Interrupted # {} =>
           ForGood(mem.kill)
    /\ phase \in {"fills", "cycle", "aborting"} => mem.kill = None \/ ForGood(mem.kill)
    /\ phase \in {"fills", "cycle"} => Interrupted \subseteq {opp}
    /\ phase = "cycle" => IF todo = <<>> THEN opp \notin disk.pending
                                         ELSE todo[Len(todo)] = Complete(opp)
    /\ phase = "aborting" => todo # <<>> \/ ForGood(mem.kill)
    /\ phase = "starting" /\ Interrupted # {} =>
           /\ mem.kill = None \/ ForGood(mem.kill)
           /\ ForGood(mem.kill) \/ \E i \in DOMAIN todo : todo[i].call = "latch"

Inv == TypeOK /\ Typed /\ Latched /\ Claimed /\ Claiming /\ Halted

-----------------------------------------------------------------------------
(* Sequences and shares. *)

LEMMA IfSeq ==
  ASSUME NEW S, NEW calls \in Seq(S), NEW condition \in BOOLEAN
  PROVE  If(condition, calls) \in Seq(S)
  BY EmptySeq DEF If

LEMMA OneCall ==
  ASSUME NEW S, NEW x \in S
  PROVE  <<x>> \in Seq(S) /\ <<x>> # <<>> /\ Head(<<x>>) = x /\ Tail(<<x>>) = <<>>
         /\ Len(<<x>>) = 1
  OBVIOUS

LEMMA InTheMiddle ==
  ASSUME NEW S, NEW f \in Seq(S), NEW x \in S, NEW e \in Seq(S)
  PROVE  LET z == Append(f, x) \o e IN Len(f) + 1 \in DOMAIN z /\ z[Len(f) + 1] = x
<1>. DEFINE g == Append(f, x)
<1>1. Len(f) \in Nat /\ Len(e) \in Nat
  BY LenProperties
<1>2. g \in Seq(S) /\ Len(g) = Len(f) + 1 /\ g[Len(f) + 1] = x
  BY <1>1, AppendProperties
<1>. HIDE DEF g
<1>3. g \o e \in Seq(S) /\ Len(g \o e) = Len(g) + Len(e)
      /\ \A i \in 1..Len(g) + Len(e) : (g \o e)[i] = IF i <= Len(g) THEN g[i] ELSE e[i - Len(g)]
  BY <1>2, ConcatProperties
<1>4. DOMAIN (g \o e) = 1..Len(g \o e)
  BY <1>3, LenProperties
<1>5. Len(f) + 1 \in DOMAIN (g \o e) /\ (g \o e)[Len(f) + 1] = x
  BY <1>1, <1>2, <1>3, <1>4
<1>. QED BY <1>5 DEF g

LEMMA NoCalls ==
  ASSUME NEW s \in Seq({})
  PROVE  s = <<>>
<1>1. Len(s) = 0
  BY LenProperties, ElementOfSeq
<1>. QED BY <1>1, EmptySeq, LenProperties

(* A part of a total, rounded up, is at most the total. *)
LEMMA Prorated ==
  ASSUME NEW total \in Nat, NEW whole \in Nat \ {0}, NEW part \in 0..whole
  PROVE  ProrateUp(total, part, whole) \in 0..total
<1>. DEFINE x == total * part + whole - 1
            q == x \div whole
<1>1. total * part \in Nat /\ total * part <= total * whole
  OBVIOUS
<1>2. x \in Nat /\ total * whole \in Nat /\ x < total * whole + whole
  BY <1>1
<1>3. q \in Nat /\ whole * q <= x
  BY <1>2
<1>4. whole * q < whole * (total + 1)
  BY <1>2, <1>3
<1>5. q < total + 1
  BY <1>3, <1>4
<1>. QED BY <1>3, <1>5 DEF ProrateUp

-----------------------------------------------------------------------------
(* The calls of the repository. *)

LEMMA KillThere ==
  ASSUME NEW r \in Reasons, NEW d \in Days
  PROVE  [reason |-> r, day |-> d] \in Kill /\ [reason |-> r, day |-> d] # None
  BY NoneAssumption DEF Kill

LEMMA CallsTyped ==
  ASSUME NEW o \in Opps \cup {None}, NEW ph \in Phases,
         ph \in {"claiming", "fills", "cycle"} => o \in Opps
  PROVE  Calls(ph, o) \subseteq AllCalls
  BY DEF Calls, AllCalls, Reasons, Latches, Claims, Completes

(* What a call changes, and what it keeps. *)
LEMMA ApplyTyped ==
  ASSUME NEW s \in Snapshot, NEW op \in AllCalls
  PROVE  Apply(op, s) \in Snapshot
<1>1. CASE op \in Rollovers
  <2>1. Apply(op, s) = s \/ Apply(op, s) = [s EXCEPT !.kill = None]
    BY <1>1 DEF Apply, Rollovers
  <2>. QED BY <2>1 DEF Snapshot
<1>7. CASE op = Reconcile
  BY <1>7 DEF Apply, Reconcile
<1>2. CASE op \in Latches(Reasons)
  BY <1>2, KillThere DEF Apply, Persists, Snapshot, Latches
<1>3. CASE op \in Pnls
  <2>1. op.event \in Events /\ op.day \in Days /\ op.amount \in Int /\ op.call = "pnl"
    BY <1>3 DEF Pnls
  <2>. DEFINE b == s.booked \cup {op.event}
              m == [s.pnl EXCEPT ![op.day] = @ + op.amount]
  <2>2. b \in SUBSET Events /\ m \in [Days -> Int]
    BY <2>1 DEF Snapshot
  <2>3. Apply(op, s) = s \/ Apply(op, s) = [s EXCEPT !.booked = b, !.pnl = m]
    BY <2>1 DEF Apply, Snapshot
  <2>. HIDE DEF b, m
  <2>. QED BY <2>2, <2>3 DEF Snapshot
<1>4. CASE op \in Merges
  <2>1. s.positions \in Seq(Position) /\ op.call = "merge"
    BY <1>4 DEF Snapshot, Merges
  <2>. DEFINE ps == [s.positions EXCEPT ![op.index].state = "merged"]
  <2>2. ps \in Seq(Position)
    <3>1. Len(s.positions) \in Nat /\ s.positions \in [1..Len(s.positions) -> Position]
      BY <2>1, LenProperties
    <3>2. ps \in [1..Len(s.positions) -> Position]
      BY <3>1 DEF Position, PositionStates
    <3>. QED BY <3>1, <3>2, SeqDef
  <2>3. Apply(op, s) = [s EXCEPT !.positions = ps]
    BY <2>1 DEF Apply, Persists, Snapshot
  <2>. HIDE DEF ps
  <2>. QED BY <2>2, <2>3 DEF Snapshot
<1>5. CASE op \in Saves
  <2>1. Append(s.positions, op.position) \in Seq(Position)
    BY <1>5, AppendProperties DEF Saves, Snapshot
  <2>. QED BY <1>5, <2>1 DEF Apply, Persists, Snapshot, Saves
<1>8. CASE op \in Claims
  <2>1. op.opp \in Opps /\ op.call = "claim"
    BY <1>8 DEF Claims, Claim
  <2>. DEFINE c == s.claimed \cup {op.opp}
              q == s.pending \cup {op.opp}
  <2>2. c \in SUBSET Opps /\ q \in SUBSET Opps
    BY <2>1 DEF Snapshot
  <2>3. Apply(op, s) = [s EXCEPT !.claimed = c, !.pending = q]
    BY <2>1 DEF Apply, Persists
  <2>. HIDE DEF c, q
  <2>. QED BY <2>2, <2>3 DEF Snapshot
<1>6. CASE op \in Completes
  <2>1. op.opp \in Opps /\ op.call = "complete"
    BY <1>6 DEF Completes, Complete
  <2>2. Apply(op, s) = [s EXCEPT !.pending = @ \ {op.opp}]
    BY <2>1 DEF Apply, Persists
  <2>. QED BY <2>1, <2>2 DEF Snapshot
<1>. QED BY <1>1, <1>2, <1>3, <1>4, <1>5, <1>8, <1>6, <1>7 DEF AllCalls

LEMMA Applied ==
  ASSUME NEW s \in Snapshot, NEW op \in AllCalls
  PROVE  LET r == Apply(op, s) IN
         /\ ~Persists(op, s) => r = s
         /\ op.call # "claim" => r.claimed = s.claimed
         /\ op.call \notin {"claim", "complete"} => r.pending = s.pending
         /\ op.call = "claim" => op.opp \in Opps /\ Persists(op, s)
                /\ r.claimed = s.claimed \cup {op.opp} /\ r.pending = s.pending \cup {op.opp}
         /\ op.call = "complete" => op.opp \in Opps /\ Persists(op, s) /\ r.pending = s.pending \ {op.opp}
         /\ op.call \notin {"latch", "rollover"} => r.kill = s.kill
         /\ op.call = "latch" => op.reason \in Reasons
                /\ (s.kill # None => r = s)
                /\ (s.kill = None => r.kill # None /\ r.kill.reason = op.reason)
         /\ op.call = "rollover" => r.kill \in {s.kill, None}
         /\ ForGood(s.kill) => r.kill = s.kill
<1>1. CASE op \in Rollovers
  BY <1>1 DEF Apply, Persists, Snapshot, Rollovers, IsRollover, ForGood
<1>2. CASE op \in Latches(Reasons)
  <2>1. op.reason \in Reasons /\ op.day \in Days /\ op.call = "latch"
    BY <1>2 DEF Latches
  <2>2. [reason |-> op.reason, day |-> op.day] # None
    BY <2>1, KillThere
  <2>. QED BY <2>1, <2>2 DEF Apply, Persists, Snapshot, ForGood
<1>3. CASE op \in Pnls \cup Merges \cup Saves \cup {Reconcile}
  BY <1>3 DEF Apply, Persists, Snapshot, Pnls, Merges, Saves, Reconcile
<1>4. CASE op \in Claims \cup Completes
  BY <1>4 DEF Apply, Persists, Snapshot, Claims, Completes, Claim, Complete
<1>. QED BY <1>1, <1>2, <1>3, <1>4 DEF AllCalls

(* Which phase makes which call. *)
LEMMA CallKinds ==
  ASSUME NEW o, NEW ph \in Phases, NEW op \in Calls(ph, o)
  PROVE  /\ ph \notin Resting
         /\ op.call = "claim" => ph = "claiming" /\ op.opp = o
         /\ op.call = "complete" => ph = "cycle" /\ op.opp = o
         /\ op.call = "latch" /\ op.reason = "daily_loss" => ph \in {"gate", "closing"}
         /\ ph = "aborting" => op.call = "latch"
         /\ ph = "claiming" => op.call = "claim"
  BY DEF Calls, Resting, Phases, Rollovers, Latches, Pnls, Saves, Merges, Claim, Complete, Reconcile

(* The next call. *)
LEMMA NextCall ==
  ASSUME Inv, todo # <<>>
  PROVE  /\ Head(todo) \in Calls(phase, opp) /\ Head(todo) \in AllCalls
         /\ Tail(todo) \in Seq(Calls(phase, opp))
         /\ mem # None /\ mem \in Snapshot /\ phase \notin Resting
<1>1. Head(todo) \in Calls(phase, opp) /\ Tail(todo) \in Seq(Calls(phase, opp))
  BY HeadTailProperties DEF Inv, Typed
<1>2. phase \in Phases /\ opp \in Opps \cup {None}
      /\ (phase \in {"claiming", "fills", "cycle"} => opp \in Opps)
  BY DEF Inv, TypeOK
<1>3. phase \notin Resting
  BY DEF Inv, Typed
<1>. QED BY <1>1, <1>2, <1>3, CallsTyped DEF Inv, TypeOK, IsSnapshot, Resting

(* The memory after the next call, and a file that is as it was or as the  *)
(* memory is.                                                              *)
LEMMA HeadApplied ==
  ASSUME Inv, todo # <<>>, disk' \in {disk, Apply(Head(todo), mem)}
  PROVE  LET m == Apply(Head(todo), mem)
             d == disk'
         IN
         /\ m # None /\ IsSnapshot(m) /\ IsSnapshot(d)
         /\ \A o \in Opps : begun[o] = 1 => o \in d.claimed /\ o \in m.claimed
                                           /\ (o \in m.pending => o \in d.pending)
         /\ \A o \in Opps : begun[o] > 0 /\ o \in d.pending => o \in Interrupted
         /\ ForGood(d.kill) => m.kill = d.kill
         /\ ForGood(disk.kill) => d.kill = disk.kill
         /\ ForGood(mem.kill) => m.kill = mem.kill
         /\ Interrupted # {} => d.kill = None \/ ForGood(d.kill)
         /\ Interrupted # {} /\ phase \notin {"fills", "cycle", "aborting", "starting"} => ForGood(m.kill)
         /\ phase \in {"fills", "cycle", "aborting"} => m.kill = None \/ ForGood(m.kill)
         /\ phase = "starting" /\ Interrupted # {} => m.kill = None \/ ForGood(m.kill)
         /\ phase = "aborting" => ForGood(m.kill)
         /\ phase = "claiming" => m.kill = None /\ opp \in m.pending
<1>. DEFINE op == Head(todo)
            m == Apply(op, mem)
            d == disk'
<1>. HIDE DEF m, d
<1>0. m = Apply(op, mem) /\ d \in {disk, m}
  BY DEF m, d
<1>1. /\ op \in Calls(phase, opp) /\ op \in AllCalls
      /\ mem # None /\ mem \in Snapshot /\ phase \notin Resting
  BY NextCall
<1>2. /\ disk \in Snapshot /\ disk.pending \subseteq disk.claimed
      /\ mem.pending \subseteq mem.claimed /\ phase \in Phases /\ opp \in Opps \cup {None}
      /\ begun \in [Opps -> Nat]
      /\ phase = "claiming" => opp \in Opps
  BY <1>1 DEF Inv, TypeOK, IsSnapshot
<1>3. m \in Snapshot /\ m # None
  BY <1>0, <1>1, ApplyTyped, NoneAssumption
<1>4. /\ op.call # "claim" => m.claimed = mem.claimed
      /\ op.call \notin {"claim", "complete"} => m.pending = mem.pending
      /\ op.call = "claim" => m.claimed = mem.claimed \cup {op.opp} /\ m.pending = mem.pending \cup {op.opp}
      /\ op.call = "complete" => m.pending = mem.pending \ {op.opp}
      /\ op.call \notin {"latch", "rollover"} => m.kill = mem.kill
      /\ op.call = "latch" => (mem.kill # None => m.kill = mem.kill)
             /\ (mem.kill = None => m.kill # None /\ m.kill.reason = op.reason)
      /\ op.call = "rollover" => m.kill \in {mem.kill, None}
      /\ ForGood(mem.kill) => m.kill = mem.kill
  BY <1>0, <1>1, Applied
<1>5. /\ op.call = "claim" => phase = "claiming" /\ op.opp = opp
      /\ op.call = "complete" => phase = "cycle" /\ op.opp = opp
      /\ op.call = "latch" /\ op.reason = "daily_loss" => phase \in {"gate", "closing"}
      /\ phase = "aborting" => op.call = "latch"
      /\ phase = "claiming" => op.call = "claim"
  BY <1>1, <1>2, CallKinds
<1>. HIDE DEF op
<1>6. IsSnapshot(m) /\ IsSnapshot(d)
  BY <1>0, <1>2, <1>3, <1>4 DEF IsSnapshot
<1>7. op.call = "claim" => begun[opp] = 0
  BY <1>5 DEF Inv, Claiming
<1>8. \A o \in Opps : begun[o] = 1 => o \in d.claimed /\ o \in m.claimed
                                    /\ (o \in m.pending => o \in d.pending)
  BY <1>0, <1>1, <1>2, <1>4, <1>5, <1>7 DEF Inv, Claimed
<1>9. \A o \in Opps : begun[o] > 0 /\ o \in d.pending => o \in Interrupted
  <2>1. SUFFICES ASSUME NEW o \in Opps, begun[o] > 0, o \in d.pending
                 PROVE  o \in disk.pending
    BY DEF Interrupted
  <2>2. begun[o] = 1
    BY <2>1, <1>2 DEF Inv, Claimed
  <2>3. CASE d = disk
    BY <2>1, <2>3
  <2>4. CASE d = m
    BY <2>1, <2>2, <2>4, <1>1, <1>4, <1>5, <1>7 DEF Inv, Claimed
  <2>. QED BY <1>0, <2>3, <2>4
<1>10. ForGood(disk.kill) => mem.kill = disk.kill
  BY <1>1 DEF Inv, Latched
<1>11. /\ Interrupted # {} /\ phase \notin {"fills", "cycle", "aborting", "starting"} => ForGood(mem.kill)
       /\ phase \in {"fills", "cycle", "aborting"} => mem.kill = None \/ ForGood(mem.kill)
       /\ phase = "starting" /\ Interrupted # {} => mem.kill = None \/ ForGood(mem.kill)
       /\ phase = "claiming" => mem.kill = None /\ Interrupted = {}
       /\ Interrupted # {} => disk.kill = None \/ ForGood(disk.kill)
  BY <1>1, <1>2 DEF Inv, Halted, Phases, Resting
<1>12. phase \in {"fills", "cycle", "aborting", "starting"} /\ (mem.kill = None \/ ForGood(mem.kill)) =>
           m.kill = None \/ ForGood(m.kill)
  BY <1>4, <1>5 DEF ForGood
<1>13. phase = "aborting" => ForGood(m.kill)
  BY <1>4, <1>5, <1>11 DEF ForGood
<1>14. phase = "claiming" => m.kill = None /\ opp \in m.pending
  BY <1>4, <1>5, <1>11
<1>15. ForGood(d.kill) => m.kill = d.kill
  BY <1>0, <1>4, <1>10
<1>16. ForGood(disk.kill) => d.kill = disk.kill
  BY <1>0, <1>4, <1>10
<1>17. Interrupted # {} => d.kill = None \/ ForGood(d.kill)
  BY <1>0, <1>2, <1>4, <1>11, <1>12, <1>13 DEF Phases
<1>18. Interrupted # {} /\ phase \notin {"fills", "cycle", "aborting", "starting"} => ForGood(m.kill)
  BY <1>4, <1>11
<1>19. /\ phase \in {"fills", "cycle", "aborting"} => m.kill = None \/ ForGood(m.kill)
       /\ phase = "starting" /\ Interrupted # {} => m.kill = None \/ ForGood(m.kill)
  BY <1>11, <1>12
<1>. QED BY <1>3, <1>4, <1>6, <1>8, <1>9, <1>13, <1>14, <1>15, <1>16, <1>17, <1>18, <1>19 DEF m, d, op

(* The same of a step that makes the call. *)
LEMMA HeadMade ==
  ASSUME Inv, todo # <<>>, mem' = Apply(Head(todo), mem), disk' \in {disk, mem'}
  PROVE  /\ mem' # None /\ IsSnapshot(mem') /\ IsSnapshot(disk')
         /\ \A o \in Opps : begun[o] = 1 => o \in disk'.claimed /\ o \in mem'.claimed
                                           /\ (o \in mem'.pending => o \in disk'.pending)
         /\ \A o \in Opps : begun[o] > 0 /\ o \in disk'.pending => o \in Interrupted
         /\ ForGood(disk'.kill) => mem'.kill = disk'.kill
         /\ ForGood(disk.kill) => disk'.kill = disk.kill
         /\ ForGood(mem.kill) => mem'.kill = mem.kill
         /\ Interrupted # {} => disk'.kill = None \/ ForGood(disk'.kill)
         /\ Interrupted # {} /\ phase \notin {"fills", "cycle", "aborting", "starting"} => ForGood(mem'.kill)
         /\ phase \in {"fills", "cycle", "aborting"} => mem'.kill = None \/ ForGood(mem'.kill)
         /\ phase = "starting" /\ Interrupted # {} => mem'.kill = None \/ ForGood(mem'.kill)
         /\ phase = "aborting" => ForGood(mem'.kill)
         /\ phase = "claiming" => mem'.kill = None /\ opp \in mem'.pending
  BY HeadApplied

-----------------------------------------------------------------------------
(* Steps that change no snapshot.  What they have to show is about the new *)
(* phase and its calls.                                                    *)
Turned ==
    /\ UNCHANGED <<mem, disk, begun, today>>
    /\ phase' \in Phases \ {"down"}
    /\ opp' \in Opps \cup {None}
    /\ phase' \in {"claiming", "fills", "cycle"} => opp' # None
    /\ todo' \in Seq(Calls(phase', opp'))
    /\ phase' \in Resting => todo' = <<>>
    /\ spent' \in [Opps -> Nat]
    /\ faults' \in 0..MaxFaults
    /\ UNCHANGED <<killFile, ripe, fileChanges>> /\ sawFile' \in BOOLEAN

LEMMA TurnSafe ==
  ASSUME Inv, mem # None, Turned, Claiming', Halted'
  PROVE  Inv'
<1>1. TypeOK'
  BY DEF Inv, TypeOK, Turned, IsSnapshot
<1>2. Typed'
  BY DEF Typed, Turned
<1>3. Latched' /\ Claimed'
  BY DEF Inv, Latched, Claimed, Turned
<1>. QED BY <1>1, <1>2, <1>3 DEF Inv

(* Into a phase without a latch, and out of one that is over. *)
LEMMA TurnHalted ==
  ASSUME Inv, mem # None, UNCHANGED <<mem, disk, begun>>,
         phase' \in {"idle", "settling", "settled", "gate", "opening", "closing"},
         Interrupted # {} => ForGood(mem.kill)
  PROVE  Claiming' /\ Halted'
<1>1. Interrupted' = Interrupted
  BY DEF Interrupted
<1>. QED BY <1>1 DEF Inv, Claiming, Halted

LEMMA InterruptedLatched ==
  ASSUME Inv, phase \in {"idle", "opening", "settling", "settled", "gate", "closing"}, Interrupted # {}
  PROVE  ForGood(mem.kill)
  BY DEF Inv, Halted

(* The parts of the type that the steps use. *)
LEMMA Parts ==
  ASSUME Inv
  PROVE  /\ phase \in Phases /\ (phase = "down") = (mem = None)
         /\ opp \in Opps \cup {None} /\ None \notin Opps
         /\ phase \in {"claiming", "fills", "cycle"} => opp \in Opps
         /\ today \in Days /\ killFile \in BOOLEAN /\ sawFile \in BOOLEAN
         /\ begun \in [Opps -> Nat] /\ spent \in [Opps -> Nat]
         /\ faults \in 0..MaxFaults
         /\ mem # None => mem \in Snapshot
  BY PaperAssumption DEF Inv, TypeOK, IsSnapshot

LEMMA EmptyTodo ==
  ASSUME NEW ph, NEW o
  PROVE  <<>> \in Seq(Calls(ph, o))
  BY EmptySeq

(* The calls, as the phases make them. *)
LEMMA CallsMade ==
  ASSUME NEW d \in Days, NEW o
  PROVE  /\ Rollover(d) \in Calls("starting", o) /\ Rollover(d) \in Calls("opening", o)
         /\ Latch("operator", d) \in Calls("starting", o) /\ Latch("operator", d) \in Calls("opening", o)
         /\ Latch("reconciliation_failure", d) \in Calls("starting", o)
         /\ Latch("reconciliation_failure", d) \in Calls("aborting", o)
         /\ Reconcile \in Calls("starting", o) /\ Reconcile \in Calls("closing", o)
         /\ Latch("daily_loss", d) \in Calls("gate", o) /\ Latch("daily_loss", d) \in Calls("closing", o)
         /\ Claim(o) \in Calls("claiming", o) /\ Complete(o) \in Calls("cycle", o)
         /\ Latch("non_atomic_leg_failure", d) \in Calls("cycle", o)
<1>1. Rollover(d) \in Rollovers
  BY DEF Rollover, Rollovers
<1>2. \A r, rs : r \in rs => Latch(r, d) \in Latches(rs)
  BY DEF Latch, Latches
<1>. QED BY <1>1, <1>2 DEF Calls

LEMMA StartSafe ==
  ASSUME Inv, Start
  PROVE  Inv'
<1>. DEFINE S == Calls("starting", opp)
<1>1. PICK startupKill \in BOOLEAN : todo' = StartCalls(disk, startupKill \/ killFile)
  BY DEF Start, Go
<1>. DEFINE stop == startupKill \/ killFile
            a == <<Rollover(today)>>
            b == If(stop, <<Latch("operator", today)>>)
            c == If(disk.pending # {}, <<Latch("reconciliation_failure", today)>>)
            e == <<Reconcile>>
<1>2. stop \in BOOLEAN /\ (disk.pending # {}) \in BOOLEAN
  BY Parts
<1>3. a \in Seq(S) /\ b \in Seq(S) /\ c \in Seq(S) /\ e \in Seq(S)
  <2>1. today \in Days
    BY Parts
  <2>2. a \in Seq(S) /\ e \in Seq(S) /\ <<Latch("operator", today)>> \in Seq(S)
        /\ <<Latch("reconciliation_failure", today)>> \in Seq(S)
    BY <2>1, CallsMade, OneCall
  <2>. QED BY <2>2, <1>2, IfSeq
<1>4. todo' = a \o b \o c \o e
  BY <1>1 DEF StartCalls
<1>. HIDE DEF S
<1>5. a \o b \in Seq(S) /\ a \o b \o c \in Seq(S) /\ todo' \in Seq(S)
  BY <1>3, <1>4, ConcatProperties
<1>6. disk.pending # {} => \E i \in DOMAIN todo' : todo'[i].call = "latch"
  <2>1. SUFFICES ASSUME disk.pending # {} PROVE \E i \in DOMAIN todo' : todo'[i].call = "latch"
    OBVIOUS
  <2>2. c = <<Latch("reconciliation_failure", today)>>
    BY <2>1 DEF If
  <2>3. Latch("reconciliation_failure", today) \in S
    <3>1. today \in Days
      BY Parts
    <3>. QED BY <3>1, CallsMade DEF S
  <2>4. a \o b \in Seq(S) /\ e \in Seq(S)
    BY <1>3, <1>5
  <2>. DEFINE l == Latch("reconciliation_failure", today)
              f == a \o b
  <2>. HIDE DEF a, b, c, e, f, l
  <2>5. l \in S /\ f \in Seq(S) /\ e \in Seq(S)
    BY <2>3, <2>4 DEF f, l
  <2>6. todo' = Append(f, l) \o e
    <3>1. todo' = f \o <<l>> \o e
      BY <1>4, <2>2 DEF f, l
    <3>. QED BY <3>1, <2>5, AppendIsConcat
  <2>7. \E i \in DOMAIN todo' : todo'[i] = l
    BY <2>5, <2>6, InTheMiddle
  <2>. QED BY <2>7 DEF l, Latch
<1>7. /\ mem' = disk /\ phase' = "starting" /\ phase = "down"
      /\ UNCHANGED <<disk, sawFile, opp, begun, spent, today, killFile, ripe, faults, fileChanges>>
  BY DEF Start, Go, cycles, environment
<1>. HIDE DEF stop, a, b, c, e
<1>8. TypeOK'
  BY <1>7, NoneAssumption DEF Inv, TypeOK, IsSnapshot, Phases
<1>9. Typed'
  BY <1>5, <1>7 DEF Typed, S, Resting, Calls
<1>10. Interrupted' = Interrupted /\ (Interrupted # {} => disk.pending # {})
  BY <1>7 DEF Interrupted
<1>11. Latched' /\ Claimed' /\ Claiming'
  BY <1>7 DEF Inv, Latched, Claimed, Claiming
<1>12. Halted'
  BY <1>6, <1>7, <1>10 DEF Inv, Halted
<1>. QED BY <1>8, <1>9, <1>11, <1>12 DEF Inv

LEMMA ScanSafe ==
  ASSUME Inv, Scan
  PROVE  Inv'
<1>1. /\ phase = "idle" /\ phase' = "opening" /\ sawFile' = killFile
      /\ todo' = If(killFile, <<Latch("operator", today)>>) \o <<Rollover(today)>>
      /\ UNCHANGED <<mem, disk, opp, begun, spent, today, killFile, ripe, faults, fileChanges>>
  BY DEF Scan, Go, cycles, environment
<1>2. today \in Days /\ killFile \in BOOLEAN /\ mem # None
  BY <1>1, Parts
<1>3. todo' \in Seq(Calls("opening", opp))
  <2>1. <<Latch("operator", today)>> \in Seq(Calls("opening", opp))
        /\ <<Rollover(today)>> \in Seq(Calls("opening", opp))
    BY <1>2, CallsMade, OneCall
  <2>2. If(killFile, <<Latch("operator", today)>>) \in Seq(Calls("opening", opp))
    BY <2>1, <1>2, IfSeq
  <2>. QED BY <1>1, <2>1, <2>2, ConcatProperties
<1>4. Turned
  BY <1>1, <1>2, <1>3, Parts DEF Turned, Phases, Resting
<1>5. Claiming' /\ Halted'
  BY <1>1, <1>2, InterruptedLatched, TurnHalted
<1>. QED BY <1>2, <1>4, <1>5, TurnSafe

LEMMA OpenedSafe ==
  ASSUME Inv, Opened
  PROVE  Inv'
<1>1. /\ phase = "opening" /\ phase' = "settling" /\ todo' = <<>>
      /\ UNCHANGED <<mem, disk, sawFile, opp, begun, spent, today, killFile, ripe, faults, fileChanges>>
  BY DEF Opened, Done, Go, cycles, environment
<1>2. Turned /\ mem # None
  BY <1>1, Parts, EmptyTodo DEF Turned, Phases, Resting
<1>3. Claiming' /\ Halted'
  BY <1>1, <1>2, InterruptedLatched, TurnHalted
<1>. QED BY <1>2, <1>3, TurnSafe

LEMMA SettleSafe ==
  ASSUME Inv, Settle
  PROVE  Inv'
<1>1. /\ phase = "settling"
      /\ UNCHANGED <<mem, disk, sawFile, opp, begun, spent, today, killFile, ripe, faults, fileChanges>>
      /\ \/ phase' = "gate" /\ todo' = <<>>
         \/ \E i \in Due(mem) : phase' = "settled" /\ todo' = SettleCalls(i)
  BY DEF Settle, Done, Go, cycles, environment
<1>2. mem # None /\ mem \in Snapshot /\ today \in Days
  BY <1>1, Parts
<1>3. ASSUME NEW i \in Due(mem)
      PROVE  SettleCalls(i) \in Seq(Calls("settled", opp))
  <2>. DEFINE p == mem.positions[i]
  <2>1. i \in Nat /\ p \in Position
    <3>1. mem.positions \in Seq(Position) /\ i \in DOMAIN mem.positions
      BY <1>2, <1>3 DEF Due, Snapshot
    <3>. QED BY <3>1, LenProperties, ElementOfSeq
  <2>2. p.id \in Events /\ p.shares \in Nat /\ p.cost \in Nat /\ Share \in Nat
    BY <2>1, PaperAssumption DEF Position, Events
  <2>3. MergePnl(p) \in Int
    BY <2>2 DEF MergePnl
  <2>. HIDE DEF p
  <2>4. Merge(i) \in Merges /\ Pnl(p.id, today, MergePnl(p)) \in Pnls
    BY <2>1, <2>2, <2>3, <1>2 DEF Merge, Merges, Pnl, Pnls
  <2>5. Merge(i) \in Calls("settled", opp) /\ Pnl(p.id, today, MergePnl(p)) \in Calls("settled", opp)
    BY <2>4 DEF Calls
  <2>6. SettleCalls(i) = <<Merge(i), Pnl(p.id, today, MergePnl(p))>>
    BY DEF SettleCalls, p
  <2>. QED BY <2>5, <2>6
<1>4. Turned
  <2>1. todo' \in Seq(Calls(phase', opp')) /\ phase' \in {"gate", "settled"}
        /\ (phase' \in Resting => todo' = <<>>)
    BY <1>1, <1>3, EmptyTodo DEF Resting
  <2>. QED BY <1>1, <1>2, <2>1, Parts DEF Turned, Phases
<1>5. Claiming' /\ Halted'
  BY <1>1, <1>2, InterruptedLatched, TurnHalted
<1>. QED BY <1>2, <1>4, <1>5, TurnSafe

LEMMA SettledSafe ==
  ASSUME Inv, Settled
  PROVE  Inv'
<1>1. /\ phase = "settled"
      /\ UNCHANGED <<mem, disk, sawFile, opp, begun, spent, today, killFile, ripe, faults, fileChanges>>
      /\ \/ phase' = "gate" /\ todo' = <<Latch("daily_loss", today)>>
         \/ phase' = "settling" /\ todo' = <<>>
  BY DEF Settled, Done, Go, cycles, environment
<1>2. mem # None /\ today \in Days
  BY <1>1, Parts
<1>3. <<Latch("daily_loss", today)>> \in Seq(Calls("gate", opp))
  BY <1>2, CallsMade, OneCall
<1>4. Turned
  <2>1. todo' \in Seq(Calls(phase', opp')) /\ phase' \in {"gate", "settling"}
        /\ (phase' \in Resting => todo' = <<>>)
    BY <1>1, <1>3, EmptyTodo DEF Resting
  <2>. QED BY <1>1, <1>2, <2>1, Parts DEF Turned, Phases
<1>5. Claiming' /\ Halted'
  BY <1>1, <1>2, InterruptedLatched, TurnHalted
<1>. QED BY <1>2, <1>4, <1>5, TurnSafe

LEMMA GateSafe ==
  ASSUME Inv, Gate
  PROVE  Inv'
<1>1. /\ phase = "gate"
      /\ UNCHANGED <<mem, disk, sawFile, opp, begun, spent, today, killFile, ripe, faults, fileChanges>>
      /\ \/ phase' = "idle" /\ todo' = <<>>
         \/ phase' = "closing" /\ todo' = <<Latch("daily_loss", today)>>
         \/ mem.kill = None /\ phase' = "market" /\ todo' = <<>>
  BY DEF Gate, Done, Go, cycles, environment
<1>2. mem # None /\ today \in Days
  BY <1>1, Parts
<1>3. <<Latch("daily_loss", today)>> \in Seq(Calls("closing", opp))
  BY <1>2, CallsMade, OneCall
<1>4. Turned
  <2>1. todo' \in Seq(Calls(phase', opp')) /\ phase' \in {"idle", "closing", "market"}
        /\ (phase' \in Resting => todo' = <<>>)
    BY <1>1, <1>3, EmptyTodo DEF Resting
  <2>. QED BY <1>1, <1>2, <2>1, Parts DEF Turned, Phases
<1>5. Claiming' /\ Halted'
  <2>1. CASE phase' \in {"idle", "closing"}
    BY <1>1, <1>2, <2>1, InterruptedLatched, TurnHalted
  <2>2. CASE phase' = "market"
    <3>1. mem'.kill = None /\ Interrupted = {}
      BY <1>1, <2>2, InterruptedLatched DEF ForGood
    <3>2. Interrupted' = Interrupted
      BY <1>1 DEF Interrupted
    <3>. QED BY <2>2, <3>1, <3>2 DEF Claiming, Halted
  <2>. QED BY <1>1, <2>1, <2>2
<1>. QED BY <1>2, <1>4, <1>5, TurnSafe

LEMMA TakeSafe ==
  ASSUME Inv, NEW o \in Opps, TakeOpportunity(o)
  PROVE  Inv'
<1>1. /\ phase = "market" /\ phase' = "claiming" /\ todo' = <<Claim(o)>> /\ opp' = o
      /\ o \notin mem.claimed
      /\ UNCHANGED <<mem, disk, sawFile, begun, spent, today, killFile, ripe, faults, fileChanges>>
  BY DEF TakeOpportunity, NewClaim, Done, Go, environment
<1>2. mem # None /\ today \in Days
  BY <1>1, Parts
<1>3. <<Claim(o)>> \in Seq(Calls("claiming", o))
  BY <1>2, CallsMade, OneCall
<1>4. Turned
  BY <1>1, <1>2, <1>3, Parts DEF Turned, Phases, Resting
<1>5. Claiming'
  <2>1. begun[o] = 0
    BY <1>1, <1>2, Parts DEF Inv, Claimed
  <2>. QED BY <1>1, <2>1 DEF Claiming
<1>6. Halted'
  <2>1. Interrupted' = Interrupted
    BY <1>1 DEF Interrupted
  <2>. QED BY <1>1, <2>1 DEF Inv, Halted
<1>. QED BY <1>2, <1>4, <1>5, <1>6, TurnSafe

LEMMA NoOpportunitySafe ==
  ASSUME Inv, NoOpportunity
  PROVE  Inv'
<1>1. /\ phase = "market" /\ phase' = "closing" /\ todo' = <<Reconcile>>
      /\ UNCHANGED <<mem, disk, sawFile, opp, begun, spent, today, killFile, ripe, faults, fileChanges>>
  BY DEF NoOpportunity, Done, Go, cycles, environment
<1>2. mem # None /\ today \in Days
  BY <1>1, Parts
<1>3. <<Reconcile>> \in Seq(Calls("closing", opp))
  BY <1>2, CallsMade, OneCall
<1>4. Turned
  BY <1>1, <1>2, <1>3, Parts DEF Turned, Phases, Resting
<1>5. Interrupted = {}
  BY <1>1 DEF Inv, Halted
<1>6. Claiming' /\ Halted'
  BY <1>1, <1>2, <1>5, TurnHalted
<1>. QED BY <1>2, <1>4, <1>6, TurnSafe

(* The cycle is counted, and stays pending until it is completed. *)
LEMMA BeginSafe ==
  ASSUME Inv, Begin
  PROVE  Inv'
<1>1. /\ phase = "claiming" /\ todo = <<>> /\ phase' = "fills" /\ todo' = <<>>
      /\ begun' = [begun EXCEPT ![opp] = @ + 1]
      /\ UNCHANGED <<mem, disk, sawFile, opp, spent, today, killFile, ripe, faults, fileChanges>>
  BY DEF Begin, Done, Go, environment
<1>2. /\ opp \in Opps /\ begun[opp] = 0 /\ opp \in mem.pending /\ mem = disk /\ mem # None
      /\ begun \in [Opps -> Nat] /\ disk.pending \subseteq disk.claimed
  BY <1>1, Parts DEF Inv, Claiming, TypeOK, IsSnapshot
<1>3. begun' \in [Opps -> Nat] /\ begun'[opp] = 1 /\ \A o \in Opps \ {opp} : begun'[o] = begun[o]
  BY <1>1, <1>2
<1>4. TypeOK'
  BY <1>1, <1>2, <1>3 DEF Inv, TypeOK, IsSnapshot, Phases
<1>5. Typed' /\ Latched' /\ Claiming'
  BY <1>1, EmptyTodo DEF Inv, Typed, Latched, Claiming
<1>6. Claimed'
  BY <1>1, <1>2, <1>3 DEF Inv, Claimed
<1>7. Halted'
  <2>1. Interrupted = {} /\ mem.kill = None
    BY <1>1 DEF Inv, Halted
  <2>2. Interrupted' \subseteq {opp}
    BY <1>1, <1>3, <2>1 DEF Interrupted
  <2>. QED BY <1>1, <1>2, <2>1, <2>2 DEF Halted
<1>. QED BY <1>4, <1>5, <1>6, <1>7 DEF Inv

-----------------------------------------------------------------------------
(* The cycle: what the fills lead to is a list of calls that ends with the *)
(* completion of the claim.                                                *)
LEMMA CycleSafe ==
  ASSUME Inv, phase = "fills", NEW calls \in Seq(Calls("cycle", opp)), NEW cost \in Nat,
         Cycle(calls, cost)
  PROVE  Inv'
<1>1. /\ phase' = "cycle" /\ todo' = Append(calls, Complete(opp))
      /\ spent' = [spent EXCEPT ![opp] = cost]
      /\ UNCHANGED <<mem, disk, sawFile, opp, begun, today, killFile, ripe, faults, fileChanges>>
  BY DEF Cycle, Go, environment
<1>2. mem # None /\ opp \in Opps /\ spent \in [Opps -> Nat]
  BY Parts
<1>3. /\ todo' \in Seq(Calls("cycle", opp)) /\ todo' # <<>>
      /\ todo'[Len(todo')] = Complete(opp)
  <2>1. Complete(opp) \in Calls("cycle", opp)
    BY Parts, CallsMade
  <2>. QED BY <1>1, <2>1, AppendProperties
<1>4. spent' \in [Opps -> Nat]
  BY <1>1, <1>2
<1>5. Turned
  BY <1>1, <1>2, <1>3, <1>4, Parts DEF Turned, Phases, Resting
<1>6. Claiming' /\ Halted'
  <2>1. Interrupted' = Interrupted /\ Interrupted \subseteq {opp}
        /\ (mem.kill = None \/ ForGood(mem.kill))
        /\ (Interrupted # {} => disk.kill = None \/ ForGood(disk.kill))
    BY <1>1 DEF Interrupted, Inv, Halted
  <2>. QED BY <1>1, <1>3, <2>1 DEF Claiming, Halted
<1>. QED BY <1>2, <1>5, <1>6, TurnSafe

LEMMA CycleCalls ==
  ASSUME NEW o \in Opps, NEW d \in Days
  PROVE  /\ \A kind \in Kinds, shares \in 1..Quantity, cost \in Nat, state \in PositionStates :
                Save(<<o, kind>>, shares, cost, state) \in Calls("cycle", o)
         /\ \A event \in Recoveries, amount \in Int :
                Pnl(<<o, event>>, d, amount) \in Calls("cycle", o)
         /\ <<Latch("non_atomic_leg_failure", d)>> \in Seq(Calls("cycle", o))
<1>1. \A kind \in Kinds, shares \in 1..Quantity, cost \in Nat, state \in PositionStates :
          Save(<<o, kind>>, shares, cost, state) \in Saves
  BY DEF Save, Saves, Position, Ids
<1>2. \A event \in Recoveries, amount \in Int : Pnl(<<o, event>>, d, amount) \in Pnls
  BY DEF Pnl, Pnls, Events
<1>3. Calls("cycle", o) = Saves \cup Pnls \cup Latches({"non_atomic_leg_failure"}) \cup {Complete(o)}
  BY DEF Calls
<1>4. <<Latch("non_atomic_leg_failure", d)>> \in Seq(Calls("cycle", o))
  BY CallsMade, OneCall
<1>. QED BY <1>1, <1>2, <1>3, <1>4

LEMMA Recovered ==
  ASSUME NEW n \in 1..Quantity, NEW cost \in Nat, NEW sale \in Sales(n)
  PROVE  RecoveredCost(n, cost, sale) \in 0..cost /\ sale.shares \in 0..n /\ sale.got \in Nat
<1>1. Quantity \in Nat /\ Proceeds \subseteq Nat
  BY PaperAssumption
<1>2. n \in Nat \ {0} /\ sale.shares \in 0..n /\ sale.got \in Nat
  <2>1. CASE sale = [shares |-> 0, got |-> 0]
    BY <1>1, <2>1
  <2>2. CASE sale \in [shares : 1..n, got : Proceeds]
    <3>1. sale.shares \in 1..n /\ sale.got \in Proceeds
      BY <2>2
    <3>2. sale.got \in Nat
      BY <3>1, <1>1
    <3>3. n \in Nat \ {0}
      BY <1>1
    <3>. QED BY <3>1, <3>2, <3>3
  <2>. QED BY <2>1, <2>2 DEF Sales
<1>. QED BY <1>2, Prorated DEF RecoveredCost

LEMMA RecoveryTyped ==
  ASSUME NEW o \in Opps, opp = o, today \in Days, NEW event \in Recoveries, NEW kind \in Kinds,
         NEW n \in 1..Quantity, NEW cost \in Nat, NEW sale \in Sales(n)
  PROVE  RecoveryCalls(event, kind, n, cost, sale) \in Seq(Calls("cycle", o))
<1>. DEFINE recovered == RecoveredCost(n, cost, sale)
            S == Calls("cycle", o)
            a == Pnl(<<opp, event>>, today, sale.got - recovered)
            b == Save(<<opp, kind>>, n - sale.shares, cost - recovered, "stranded")
<1>1. recovered \in 0..cost /\ sale.shares \in 0..n /\ sale.got \in Nat /\ Quantity \in Nat
  BY Recovered, PaperAssumption
<1>2. sale.got - recovered \in Int /\ cost - recovered \in Nat
      /\ (sale.shares < n => n - sale.shares \in 1..Quantity)
  BY <1>1
<1>3. a \in S /\ (sale.shares < n => b \in S)
  <2>1. "stranded" \in PositionStates
    BY DEF PositionStates
  <2>. HIDE DEF recovered
  <2>. QED BY <1>2, <2>1, CycleCalls
<1>4. RecoveryCalls(event, kind, n, cost, sale) = If(sale.shares > 0, <<a>>) \o If(sale.shares < n, <<b>>)
  BY DEF RecoveryCalls
<1>. HIDE DEF recovered, S, a, b
<1>5. If(sale.shares > 0, <<a>>) \in Seq(S)
  BY <1>3, OneCall, EmptySeq DEF If
<1>6. If(sale.shares < n, <<b>>) \in Seq(S)
  BY <1>3, OneCall, EmptySeq DEF If
<1>. QED BY <1>4, <1>5, <1>6, ConcatProperties DEF S

LEMMA FillsTyped ==
  /\ \A fill \in Fills : fill.shares \in 0..Quantity /\ fill.cost \in Nat
  /\ \A yes \in Fills \ {NoFill} : yes.shares \in 1..Quantity
  /\ \A yes, fill : SecondLeg(yes, fill) \in {fill, NoFill}
  /\ Quantity \in Nat \ {0} /\ Quantity \in 1..Quantity
<1>1. Quantity \in Nat \ {0} /\ LegCosts \subseteq Nat
  BY PaperAssumption
<1>2. \A fill \in Fills : fill.shares \in 0..Quantity /\ fill.cost \in Nat
  <2>1. ASSUME NEW fill \in [shares : 1..Quantity, cost : LegCosts]
        PROVE  fill.shares \in 0..Quantity /\ fill.cost \in Nat
    <3>1. fill.shares \in 1..Quantity /\ fill.cost \in LegCosts
      OBVIOUS
    <3>2. fill.cost \in Nat
      BY <3>1, <1>1
    <3>. QED BY <3>1, <3>2, <1>1
  <2>2. NoFill.shares \in 0..Quantity /\ NoFill.cost \in Nat
    BY <1>1 DEF NoFill
  <2>. QED BY <2>1, <2>2 DEF Fills
<1>3. \A yes \in Fills \ {NoFill} : yes.shares \in 1..Quantity
  BY DEF Fills
<1>4. \A yes, fill : SecondLeg(yes, fill) \in {fill, NoFill}
  BY DEF SecondLeg
<1>. QED BY <1>1, <1>2, <1>3, <1>4

LEMMA FirstLegRejectedSafe ==
  ASSUME Inv, FirstLegRejected
  PROVE  Inv'
  BY CycleSafe, EmptyTodo DEF FirstLegRejected, Done

LEMMA FirstLegShortSafe ==
  ASSUME Inv, FirstLegShort
  PROVE  Inv'
<1>. PICK yes \in Fills \ {NoFill} :
         \E sale \in Sales(yes.shares) :
             Cycle(RecoveryCalls("first-leg-recovery", "stranded-first", yes.shares, yes.cost, sale)
                     \o NonAtomic,
                   yes.cost - RecoveredCost(yes.shares, yes.cost, sale))
  BY DEF FirstLegShort
<1>1. PICK sale \in Sales(yes.shares) :
          Cycle(RecoveryCalls("first-leg-recovery", "stranded-first", yes.shares, yes.cost, sale)
                  \o NonAtomic,
                yes.cost - RecoveredCost(yes.shares, yes.cost, sale))
  OBVIOUS
<1>. DEFINE r == RecoveryCalls("first-leg-recovery", "stranded-first", yes.shares, yes.cost, sale)
            c == RecoveredCost(yes.shares, yes.cost, sale)
<1>2. phase = "fills" /\ opp \in Opps /\ today \in Days
  BY Parts DEF FirstLegShort, Done
<1>3. yes.shares \in 1..Quantity /\ yes.cost \in Nat
  BY FillsTyped
<1>4. r \in Seq(Calls("cycle", opp))
  BY <1>2, <1>3, RecoveryTyped DEF Recoveries, Kinds
<1>5. NonAtomic \in Seq(Calls("cycle", opp))
  BY <1>2, CycleCalls DEF NonAtomic
<1>6. c \in 0..yes.cost
  BY <1>3, Recovered
<1>. HIDE DEF r, c
<1>7. r \o NonAtomic \in Seq(Calls("cycle", opp)) /\ yes.cost - c \in Nat
  BY <1>3, <1>4, <1>5, <1>6, ConcatProperties
<1>. QED BY <1>1, <1>2, <1>7, CycleSafe DEF r, c

LEMMA SecondLegShortSafe ==
  ASSUME Inv, SecondLegShort
  PROVE  Inv'
<1>1. PICK yes \in [shares : {Quantity}, cost : LegCosts], fill \in Fills :
          LET no == SecondLeg(yes, fill)
              matchedCost == ProrateUp(yes.cost, no.shares, Quantity)
              excess == Quantity - no.shares
          IN  /\ excess > 0
              /\ \E sale \in Sales(excess) :
                     Cycle(If(no.shares > 0, <<Save(<<opp, "paired-partial">>, no.shares,
                                                    matchedCost + no.cost, "paired")>>)
                           \o RecoveryCalls("recovery", "stranded", excess, yes.cost - matchedCost, sale)
                           \o NonAtomic,
                           yes.cost + no.cost - RecoveredCost(excess, yes.cost - matchedCost, sale))
  BY DEF SecondLegShort
<1>. DEFINE no == SecondLeg(yes, fill)
            matchedCost == ProrateUp(yes.cost, no.shares, Quantity)
            excess == Quantity - no.shares
            source == yes.cost - matchedCost
            p == Save(<<opp, "paired-partial">>, no.shares, matchedCost + no.cost, "paired")
<1>2. phase = "fills" /\ opp \in Opps /\ today \in Days
  BY Parts DEF SecondLegShort, Done
<1>3. /\ yes.cost \in Nat /\ no.shares \in 0..Quantity /\ no.cost \in Nat /\ Quantity \in Nat \ {0}
  <2>1. LegCosts \subseteq Nat /\ NoFill \in Fills
    BY PaperAssumption DEF Fills
  <2>. QED BY <2>1, FillsTyped
<1>4. matchedCost \in 0..yes.cost
  BY <1>3, Prorated
<1>5. excess \in 1..Quantity
  BY <1>1, <1>3
<1>6. PICK sale \in Sales(excess) :
          Cycle(If(no.shares > 0, <<p>>) \o RecoveryCalls("recovery", "stranded", excess, source, sale)
                  \o NonAtomic,
                yes.cost + no.cost - RecoveredCost(excess, source, sale))
  BY <1>1
<1>. DEFINE r == RecoveryCalls("recovery", "stranded", excess, source, sale)
            c == RecoveredCost(excess, source, sale)
            S == Calls("cycle", opp)
<1>7. If(no.shares > 0, <<p>>) \in Seq(S)
  <2>1. no.shares > 0 => p \in S
    <3>. HIDE DEF no, matchedCost
    <3>1. matchedCost + no.cost \in Nat /\ (no.shares > 0 => no.shares \in 1..Quantity)
      BY <1>3, <1>4
    <3>. QED BY <3>1, <1>2, CycleCalls DEF Kinds, PositionStates
  <2>. HIDE DEF no, p, S
  <2>. QED BY <2>1, OneCall, EmptySeq DEF If
<1>8. source \in Nat
  <2>. HIDE DEF matchedCost
  <2>. QED BY <1>3, <1>4
<1>. HIDE DEF no, matchedCost, excess, source, p
<1>9. r \in Seq(S) /\ NonAtomic \in Seq(S) /\ c \in 0..source
  <2>1. r \in Seq(S)
    BY <1>2, <1>5, <1>8, RecoveryTyped DEF Recoveries, Kinds
  <2>2. NonAtomic \in Seq(S)
    BY <1>2, CycleCalls DEF NonAtomic
  <2>3. c \in 0..source
    BY <1>5, <1>8, Recovered
  <2>. QED BY <2>1, <2>2, <2>3
<1>10. yes.cost + no.cost - c \in Nat
  <2>1. source <= yes.cost
    BY <1>3, <1>4 DEF source
  <2>. HIDE DEF c
  <2>. QED BY <2>1, <1>3, <1>8, <1>9
<1>11. If(no.shares > 0, <<p>>) \o r \o NonAtomic \in Seq(S)
  <2>. HIDE DEF r, S
  <2>1. If(no.shares > 0, <<p>>) \o r \in Seq(S)
    BY <1>7, <1>9, ConcatProperties
  <2>. QED BY <2>1, <1>9, ConcatProperties
<1>. QED BY <1>2, <1>6, <1>10, <1>11, CycleSafe

LEMMA BothLegsSafe ==
  ASSUME Inv, BothLegs
  PROVE  Inv'
<1>1. PICK yes, fill \in [shares : {Quantity}, cost : LegCosts] :
          Cycle(<<Save(<<opp, "paired">>, Quantity, yes.cost + SecondLeg(yes, fill).cost, "paired")>>,
                yes.cost + SecondLeg(yes, fill).cost)
  BY DEF BothLegs
<1>. DEFINE cost == yes.cost + SecondLeg(yes, fill).cost
<1>2. phase = "fills" /\ opp \in Opps /\ today \in Days
  BY Parts DEF BothLegs, Done
<1>3. cost \in Nat
  <2>1. LegCosts \subseteq Nat /\ SecondLeg(yes, fill) \in {fill, NoFill}
    BY PaperAssumption, FillsTyped
  <2>. QED BY <2>1 DEF NoFill
<1>. HIDE DEF cost
<1>4. Save(<<opp, "paired">>, Quantity, cost, "paired") \in Calls("cycle", opp)
  BY <1>2, <1>3, CycleCalls, FillsTyped DEF Kinds, PositionStates
<1>5. <<Save(<<opp, "paired">>, Quantity, cost, "paired")>> \in Seq(Calls("cycle", opp))
  BY <1>4, OneCall
<1>. QED BY <1>1, <1>2, <1>3, <1>5, CycleSafe DEF cost

LEMMA CycleDoneSafe ==
  ASSUME Inv, CycleDone
  PROVE  Inv'
<1>1. /\ phase = "cycle" /\ todo = <<>> /\ phase' = "closing" /\ todo' = <<Reconcile>> /\ opp' = None
      /\ UNCHANGED <<mem, disk, sawFile, begun, spent, today, killFile, ripe, faults, fileChanges>>
  BY DEF CycleDone, Done, Go, environment
<1>2. mem # None /\ today \in Days
  BY <1>1, Parts
<1>3. <<Reconcile>> \in Seq(Calls("closing", None))
  BY <1>2, CallsMade, OneCall
<1>4. Turned
  BY <1>1, <1>2, <1>3, Parts DEF Turned, Phases, Resting
<1>5. Interrupted = {}
  BY <1>1 DEF Inv, Halted, Interrupted
<1>6. Claiming' /\ Halted'
  BY <1>1, <1>2, <1>5, TurnHalted
<1>. QED BY <1>2, <1>4, <1>6, TurnSafe

LEMMA CloseSafe ==
  ASSUME Inv, Close
  PROVE  Inv'
<1>1. /\ phase \in {"closing", "starting", "aborting"} /\ todo = <<>>
      /\ phase' = "idle" /\ todo' = <<>> /\ opp' = None
      /\ UNCHANGED <<mem, disk, sawFile, begun, spent, today, killFile, ripe, faults, fileChanges>>
  BY DEF Close, Go, environment
<1>2. mem # None /\ today \in Days
  BY <1>1, Parts
<1>3. Turned
  BY <1>1, <1>2, Parts, EmptyTodo DEF Turned, Phases, Resting
<1>4. Interrupted # {} => ForGood(mem.kill)
  BY <1>1 DEF Inv, Halted
<1>5. Claiming' /\ Halted'
  BY <1>1, <1>2, <1>4, TurnHalted
<1>. QED BY <1>2, <1>3, <1>5, TurnSafe

-----------------------------------------------------------------------------
(* A call that is made, and what an exception leaves. *)
LEMMA WriteSafe ==
  ASSUME Inv, Write
  PROVE  Inv'
<1>. DEFINE op == Head(todo)
<1>1. /\ todo # <<>> /\ mem' = Apply(op, mem) /\ disk' \in {disk, mem'} /\ todo' = Tail(todo)
      /\ (disk' = mem' \/ ~Persists(op, mem))
      /\ UNCHANGED <<phase, opp, sawFile, begun, spent, today, killFile, ripe, faults, fileChanges>>
  BY DEF Write, environment
<1>2. /\ op \in Calls(phase, opp) /\ op \in AllCalls /\ todo' \in Seq(Calls(phase, opp))
      /\ mem # None /\ mem \in Snapshot /\ phase \notin Resting
      /\ phase \in Phases
  BY <1>1, NextCall, Parts
<1>3. /\ op.call = "complete" => phase = "cycle" /\ op.opp = opp
      /\ op.call = "latch" /\ op.reason = "daily_loss" => phase \in {"gate", "closing"}
      /\ phase = "aborting" => op.call = "latch"
      /\ phase = "claiming" => op.call = "claim"
  BY <1>2, CallKinds
<1>4. /\ mem' # None /\ IsSnapshot(mem') /\ IsSnapshot(disk')
      /\ \A o \in Opps : begun[o] = 1 => o \in disk'.claimed /\ o \in mem'.claimed
                                         /\ (o \in mem'.pending => o \in disk'.pending)
      /\ \A o \in Opps : begun[o] > 0 /\ o \in disk'.pending => o \in Interrupted
      /\ ForGood(disk'.kill) => mem'.kill = disk'.kill
      /\ Interrupted # {} => disk'.kill = None \/ ForGood(disk'.kill)
      /\ Interrupted # {} /\ phase \notin {"fills", "cycle", "aborting", "starting"} => ForGood(mem'.kill)
      /\ phase \in {"fills", "cycle", "aborting"} => mem'.kill = None \/ ForGood(mem'.kill)
      /\ phase = "starting" /\ Interrupted # {} => mem'.kill = None \/ ForGood(mem'.kill)
      /\ phase = "aborting" => ForGood(mem'.kill)
      /\ phase = "claiming" => mem'.kill = None /\ opp \in mem'.pending
  BY <1>1, HeadMade
<1>5. /\ op.call = "claim" => Persists(op, mem)
      /\ op.call = "complete" => Persists(op, mem) /\ mem'.pending = mem.pending \ {op.opp}
      /\ op.call = "latch" => /\ mem.kill # None => mem' = mem
                              /\ mem.kill = None => mem'.kill # None /\ mem'.kill.reason = op.reason
      /\ ForGood(mem.kill) => mem'.kill = mem.kill
  BY <1>1, <1>2, Applied
<1>6. /\ Len(todo) \in Nat \ {0} /\ Len(todo') = Len(todo) - 1 /\ op = todo[1]
      /\ \A i \in 1..Len(todo') : todo'[i] = todo[i + 1]
      /\ (todo' = <<>>) = (Len(todo') = 0)
      /\ DOMAIN todo = 1..Len(todo) /\ DOMAIN todo' = 1..Len(todo')
  <2>1. todo \in Seq(Calls(phase, opp))
    BY DEF Inv, Typed
  <2>2. Len(todo) \in Nat \ {0} /\ Len(todo') = Len(todo) - 1 /\ \A i \in 1..Len(todo') : todo'[i] = todo[i + 1]
    BY <1>1, <2>1, HeadTailProperties, LenProperties, EmptySeq
  <2>3. op = todo[1]
    BY <1>1, <2>1
  <2>4. (todo' = <<>>) = (Len(todo') = 0)
    BY <1>2, EmptySeq
  <2>. QED BY <2>1, <2>2, <2>3, <2>4, <1>2, LenProperties
<1>. HIDE DEF op
<1>7. TypeOK'
  BY <1>1, <1>2, <1>4 DEF Inv, TypeOK, Resting
<1>8. Typed'
  BY <1>1, <1>2 DEF Typed
<1>9. Latched' /\ Claimed'
  BY <1>1, <1>4 DEF Inv, Latched, Claimed
<1>10. Claiming'
  <2>1. SUFFICES ASSUME phase = "claiming"
                 PROVE  begun[opp] = 0 /\ todo' = <<>> /\ opp \in mem'.pending /\ mem' = disk'
    BY <1>1 DEF Claiming
  <2>2. begun[opp] = 0 /\ todo = <<Claim(opp)>>
    BY <2>1, <1>1 DEF Inv, Claiming
  <2>3. todo' = <<>>
    BY <2>2, <1>1
  <2>. QED BY <2>1, <2>2, <2>3, <1>1, <1>3, <1>4, <1>5
<1>11. Interrupted' \subseteq Interrupted
  BY <1>1, <1>4 DEF Interrupted
<1>12. phase = "cycle" => IF todo' = <<>> THEN opp \notin disk'.pending
                                          ELSE todo'[Len(todo')] = Complete(opp)
  <2>1. SUFFICES ASSUME phase = "cycle"
                 PROVE  IF todo' = <<>> THEN opp \notin disk'.pending
                                        ELSE todo'[Len(todo')] = Complete(opp)
    OBVIOUS
  <2>2. todo[Len(todo)] = Complete(opp)
    BY <1>1, <2>1 DEF Inv, Halted
  <2>3. CASE todo' = <<>>
    <3>1. op = Complete(opp)
      BY <1>6, <2>2, <2>3
    <3>2. op.call = "complete" /\ op.opp = opp
      BY <3>1 DEF Complete
    <3>. QED BY <3>2, <1>1, <1>5, <2>3
  <2>4. CASE todo' # <<>>
    <3>1. Len(todo') \in 1..Len(todo') /\ Len(todo') + 1 = Len(todo)
      BY <1>6, <2>4
    <3>. QED BY <3>1, <1>6, <2>2, <2>4
  <2>. QED BY <2>3, <2>4
<1>13. phase = "starting" /\ Interrupted' # {} =>
           ForGood(mem'.kill) \/ \E i \in DOMAIN todo' : todo'[i].call = "latch"
  <2>1. SUFFICES ASSUME phase = "starting", Interrupted # {}, ~ForGood(mem'.kill)
                 PROVE  \E i \in DOMAIN todo' : todo'[i].call = "latch"
    BY <1>11
  <2>2. ~ForGood(mem.kill) /\ mem.kill = None
    BY <2>1, <1>5 DEF Inv, Halted
  <2>3. PICK i \in DOMAIN todo : todo[i].call = "latch"
    BY <2>1, <2>2 DEF Inv, Halted
  <2>4. op.call # "latch"
    BY <2>1, <2>2, <1>3, <1>5 DEF ForGood
  <2>5. i - 1 \in DOMAIN todo' /\ todo'[i - 1] = todo[i]
    BY <2>3, <2>4, <1>6
  <2>. QED BY <2>3, <2>5
<1>14. Halted'
  <2>1. phase \in {"market", "claiming"} => mem'.kill = None /\ Interrupted' = {}
    BY <1>2, <1>4, <1>11 DEF Inv, Halted, Resting
  <2>2. phase \in {"fills", "cycle"} => Interrupted' \subseteq {opp}
    BY <1>11 DEF Inv, Halted
  <2>. QED BY <1>1, <1>4, <1>11, <1>12, <1>13, <2>1, <2>2 DEF Halted
<1>. QED BY <1>7, <1>8, <1>9, <1>10, <1>14 DEF Inv

LEMMA ThrowSafe ==
  ASSUME Inv, Throw
  PROVE  Inv'
<1>1. /\ phase \notin {"down", "idle"} /\ mem # None /\ mem \in Snapshot
      /\ faults' \in 0..MaxFaults
      /\ UNCHANGED <<sawFile, opp, begun, spent, today, killFile, ripe, fileChanges>>
      /\ \/ phase \in {"fills", "cycle"} /\ phase' = "aborting"
            /\ todo' = <<Latch("reconciliation_failure", today)>>
         \/ phase \notin {"fills", "cycle", "starting"} /\ phase' = "idle" /\ todo' = <<>>
      /\ \/ phase # "aborting" /\ mem' = mem /\ disk' = disk
         \/ todo # <<>> /\ mem' = Apply(Head(todo), mem) /\ disk' \in {disk, mem'}
  BY Parts, PaperAssumption DEF Throw, Thrown, Go, cycles
<1>2. /\ mem' # None /\ IsSnapshot(mem') /\ IsSnapshot(disk')
      /\ \A o \in Opps : begun[o] = 1 => o \in disk'.claimed /\ o \in mem'.claimed
                                         /\ (o \in mem'.pending => o \in disk'.pending)
      /\ \A o \in Opps : begun[o] > 0 /\ o \in disk'.pending => o \in Interrupted
      /\ ForGood(disk'.kill) => mem'.kill = disk'.kill
      /\ Interrupted # {} => disk'.kill = None \/ ForGood(disk'.kill)
      /\ phase \in {"fills", "cycle"} => mem'.kill = None \/ ForGood(mem'.kill)
      /\ Interrupted # {} /\ phase \notin {"fills", "cycle", "starting"} => ForGood(mem'.kill)
  <2>1. CASE phase # "aborting" /\ mem' = mem /\ disk' = disk
    <3>1. TypeOK /\ Latched /\ Claimed /\ Halted /\ phase \in Phases
      BY Parts DEF Inv
    <3>. QED BY <1>1, <2>1, <3>1 DEF TypeOK, Latched, Claimed, Halted, Interrupted, Phases
  <2>2. CASE todo # <<>> /\ mem' = Apply(Head(todo), mem) /\ disk' \in {disk, mem'}
    BY <2>2, HeadMade
  <2>. QED BY <1>1, <2>1, <2>2
<1>3. Interrupted' \subseteq Interrupted
  BY <1>1, <1>2 DEF Interrupted
<1>4. today \in Days /\ <<Latch("reconciliation_failure", today)>> \in Seq(Calls("aborting", opp))
  BY Parts, CallsMade, OneCall
<1>5. TypeOK'
  BY <1>1, <1>2 DEF Inv, TypeOK, Phases
<1>6. Typed'
  <2>1. CASE phase' = "aborting"
    BY <1>1, <1>4, <2>1 DEF Typed, Resting
  <2>2. CASE phase' = "idle"
    BY <1>1, <2>2, EmptyTodo DEF Typed
  <2>. QED BY <1>1, <2>1, <2>2
<1>7. Latched' /\ Claimed'
  BY <1>1, <1>2 DEF Inv, Latched, Claimed
<1>8. Claiming' /\ Halted'
  <2>1. CASE phase' = "aborting"
    BY <1>1, <1>2, <1>3, <2>1 DEF Claiming, Halted
  <2>2. CASE phase' = "idle"
    BY <1>1, <1>2, <1>3, <2>2 DEF Claiming, Halted
  <2>. QED BY <1>1, <2>1, <2>2
<1>. QED BY <1>5, <1>6, <1>7, <1>8 DEF Inv

(* The process ends, and leaves the file. *)
LEMMA Ended ==
  ASSUME Inv, mem' = None, phase' = "down", todo' = <<>>, opp' \in Opps \cup {None},
         IsSnapshot(disk'),
         \A o \in Opps : begun[o] = 1 => o \in disk'.claimed,
         \A o \in Opps : begun[o] > 0 /\ o \in disk'.pending => o \in Interrupted,
         Interrupted # {} => disk'.kill = None \/ ForGood(disk'.kill),
         faults' \in 0..MaxFaults,
         UNCHANGED <<sawFile, begun, spent, today, killFile, ripe, fileChanges>>
  PROVE  Inv'
<1>1. Interrupted' \subseteq Interrupted
  BY DEF Interrupted
<1>2. TypeOK' /\ Typed'
  BY EmptyTodo DEF Inv, TypeOK, Typed, Phases
<1>3. Latched' /\ Claimed' /\ Claiming'
  BY DEF Inv, Latched, Claimed, Claiming
<1>4. Halted'
  BY <1>1 DEF Halted
<1>. QED BY <1>2, <1>3, <1>4 DEF Inv

LEMMA FileKept ==
  ASSUME Inv, disk' = disk
  PROVE  /\ IsSnapshot(disk')
         /\ \A o \in Opps : begun[o] = 1 => o \in disk'.claimed
         /\ \A o \in Opps : begun[o] > 0 /\ o \in disk'.pending => o \in Interrupted
         /\ Interrupted # {} => disk'.kill = None \/ ForGood(disk'.kill)
  BY DEF Inv, TypeOK, Claimed, Halted, Interrupted

LEMMA StopSafe ==
  ASSUME Inv, Stop
  PROVE  Inv'
<1>1. /\ mem' = None /\ phase' = "down" /\ todo' = <<>> /\ disk' = disk
      /\ UNCHANGED <<sawFile, opp, begun, spent, today, killFile, ripe, faults, fileChanges>>
  BY DEF Stop, Go, cycles, environment
<1>2. opp' \in Opps \cup {None} /\ faults' \in 0..MaxFaults
  BY <1>1, Parts
<1>. QED BY <1>1, <1>2, FileKept, Ended

LEMMA FaultCounted ==
  ASSUME Inv, faults < MaxFaults, faults' = faults + 1
  PROVE  faults' \in 0..MaxFaults
  BY Parts, PaperAssumption

LEMMA CrashSafe ==
  ASSUME Inv, Crash
  PROVE  Inv'
<1>1. /\ mem' = None /\ phase' = "down" /\ todo' = <<>> /\ opp' = None /\ disk' = disk
      /\ faults < MaxFaults /\ faults' = faults + 1
      /\ UNCHANGED <<sawFile, begun, spent, today, killFile, ripe, fileChanges>>
  BY DEF Crash, Die, Go
<1>. QED BY <1>1, FaultCounted, FileKept, Ended

LEMMA FailedStartSafe ==
  ASSUME Inv, FailedStart
  PROVE  Inv'
<1>1. /\ mem' = None /\ phase' = "down" /\ todo' = <<>> /\ opp' = None
      /\ todo # <<>> /\ disk' \in {disk, Apply(Head(todo), mem)}
      /\ faults < MaxFaults /\ faults' = faults + 1
      /\ UNCHANGED <<sawFile, begun, spent, today, killFile, ripe, fileChanges>>
  BY DEF FailedStart, Die, Go
<1>2. /\ IsSnapshot(disk')
      /\ \A o \in Opps : begun[o] = 1 => o \in disk'.claimed
      /\ \A o \in Opps : begun[o] > 0 /\ o \in disk'.pending => o \in Interrupted
      /\ Interrupted # {} => disk'.kill = None \/ ForGood(disk'.kill)
  BY <1>1, HeadApplied
<1>. QED BY <1>1, <1>2, FaultCounted, Ended

(* The world between the scans changes no snapshot. *)
LEMMA WorldSafe ==
  ASSUME Inv, UNCHANGED <<mem, disk, phase, todo, sawFile, cycles, faults>>,
         phase \in {"down", "idle"}, today' \in Days, killFile' \in BOOLEAN,
         ripe' \subseteq Ids, fileChanges' \in 0..MaxFileChanges
  PROVE  Inv'
<1>1. UNCHANGED <<opp, begun, spent>>
  BY DEF cycles
<1>2. Interrupted' = Interrupted
  BY <1>1 DEF Interrupted
<1>3. TypeOK' /\ Typed'
  BY <1>1 DEF Inv, TypeOK, Typed
<1>4. Latched' /\ Claimed' /\ Claiming' /\ Halted'
  BY <1>1, <1>2 DEF Inv, Latched, Claimed, Claiming, Halted
<1>. QED BY <1>3, <1>4 DEF Inv

LEMMA NextDaySafe ==
  ASSUME Inv, NextDay
  PROVE  Inv'
<1>1. today' \in Days
  BY Parts, PaperAssumption DEF NextDay, Days
<1>. QED BY <1>1, WorldSafe DEF NextDay, Between, Inv, TypeOK

LEMMA ToggleSafe ==
  ASSUME Inv, ToggleKillFile
  PROVE  Inv'
<1>1. killFile' \in BOOLEAN /\ fileChanges' \in 0..MaxFileChanges
  BY PaperAssumption DEF ToggleKillFile, Inv, TypeOK
<1>. QED BY <1>1, WorldSafe DEF ToggleKillFile, Between, Inv, TypeOK

LEMMA RipenSafe ==
  ASSUME Inv, Ripen
  PROVE  Inv'
<1>. DEFINE s == IF mem = None THEN disk ELSE mem
<1>1. PICK p \in ToSet(s.positions) : ripe' = ripe \cup {p.id}
  BY DEF Ripen
<1>2. s \in Snapshot
  BY DEF Inv, TypeOK, IsSnapshot
<1>. HIDE DEF s
<1>3. p \in Position
  <2>1. s.positions \in Seq(Position)
    BY <1>2 DEF Snapshot
  <2>2. PICK i \in DOMAIN s.positions : p = s.positions[i]
    BY <1>1 DEF ToSet
  <2>. QED BY <2>1, <2>2, LenProperties, ElementOfSeq
<1>4. ripe' \subseteq Ids
  BY <1>1, <1>3 DEF Inv, TypeOK, Position
<1>. QED BY <1>4, WorldSafe DEF Ripen, Between, Inv, TypeOK

-----------------------------------------------------------------------------
LEMMA InitInv == Init => Inv
<1>. SUFFICES ASSUME Init PROVE Inv
  OBVIOUS
<1>1. Empty \in Snapshot /\ Empty.pending = {} /\ Empty.claimed = {} /\ Empty.kill = None
  <2>1. [d \in Days |-> 0] \in [Days -> Int] /\ <<>> \in Seq(Position)
    BY EmptySeq
  <2>. QED BY <2>1 DEF Empty, Snapshot
<1>2. 1 \in Days /\ 0 \in 0..MaxFaults /\ 0 \in 0..MaxFileChanges
  BY PaperAssumption DEF Days
<1>3. TypeOK
  BY <1>1, <1>2 DEF Init, TypeOK, IsSnapshot, Phases
<1>4. Typed /\ Latched /\ Claimed /\ Claiming
  BY <1>1, EmptyTodo DEF Init, Typed, Latched, Claimed, Claiming, ForGood
<1>5. Halted
  BY <1>1 DEF Init, Halted, Interrupted
<1>. QED BY <1>3, <1>4, <1>5 DEF Inv

LEMMA StutterSafe ==
  ASSUME Inv, UNCHANGED vars
  PROVE  Inv'
<1>1. UNCHANGED <<mem, disk, phase, todo, opp, today, killFile, sawFile, ripe, begun, spent,
                  faults, fileChanges>>
  BY DEF vars
<1>2. Interrupted' = Interrupted
  BY <1>1 DEF Interrupted
<1>. QED BY <1>1, <1>2 DEF Inv, TypeOK, Typed, Latched, Claimed, Claiming, Halted

LEMMA NextInv == Inv /\ [Next]_vars => Inv'
<1>. SUFFICES ASSUME Inv, [Next]_vars PROVE Inv'
  OBVIOUS
<1>1. CASE Engine
  BY <1>1, StartSafe, ScanSafe, WriteSafe, OpenedSafe, SettleSafe, SettledSafe, GateSafe,
     TakeSafe, NoOpportunitySafe, BeginSafe, FirstLegRejectedSafe, FirstLegShortSafe,
     SecondLegShortSafe, BothLegsSafe, CycleDoneSafe, CloseSafe DEF Engine
<1>2. CASE Stop \/ Throw \/ FailedStart \/ Crash
  BY <1>2, StopSafe, ThrowSafe, FailedStartSafe, CrashSafe
<1>3. CASE NextDay \/ ToggleKillFile \/ Ripen
  BY <1>3, NextDaySafe, ToggleSafe, RipenSafe
<1>4. CASE UNCHANGED vars
  BY <1>4, StutterSafe
<1>. QED BY <1>1, <1>2, <1>3, <1>4 DEF Next

(* Every reachable state of the node has its type: snapshots of the right  *)
(* form in memory and in the file, over faults, days and fills.            *)
THEOREM TypeCorrect == Spec => []TypeOK
<1>1. Inv => TypeOK
  BY DEF Inv
<1>. QED BY InitInv, NextInv, <1>1, PTL DEF Spec

(* No cycle is simulated twice, over any number of exceptions, lost writes *)
(* and restarts: what was begun is claimed in the file.                    *)
THEOREM CycleOnce == Spec => []SimulatedOnce
<1>1. Inv => SimulatedOnce
  BY DEF Inv, Claimed, SimulatedOnce
<1>. QED BY InitInv, NextInv, <1>1, PTL DEF Spec

(* A cycle that was begun and is not completed in the file keeps the node  *)
(* latched whenever it might trade, however often it failed or restarted.  *)
THEOREM InterruptionLatched == Spec => []InterruptedIsLatched
<1>1. Inv => InterruptedIsLatched
  BY DEF Inv, Halted, ForGood, InterruptedIsLatched
<1>. QED BY InitInv, NextInv, <1>1, PTL DEF Spec

(* Nothing but a new day after a daily loss takes a latch out of the file. *)
LEMMA LatchStep ==
  ASSUME Inv, [Next]_vars, ForGood(disk.kill)
  PROVE  disk'.kill = disk.kill
<1>1. CASE UNCHANGED disk
  BY <1>1
<1>2. CASE todo # <<>> /\ disk' \in {disk, Apply(Head(todo), mem)}
  BY <1>2, HeadApplied
<1>3. \/ UNCHANGED disk
      \/ todo # <<>> /\ disk' \in {disk, Apply(Head(todo), mem)}
  BY DEF Next, Engine, Start, Scan, Write, Opened, Settle, Settled, Gate, TakeOpportunity,
         NoOpportunity, Begin, FirstLegRejected, FirstLegShort, SecondLegShort, BothLegs, Cycle,
         CycleDone, Close, Stop, Throw, Thrown, FailedStart, Crash, NextDay, ToggleKillFile,
         Ripen, vars
<1>. QED BY <1>1, <1>2, <1>3

THEOREM LatchKept == Spec => LatchSticks
<1>1. Inv /\ [Next]_vars => [disk.kill # None /\ disk.kill.reason # "daily_loss" =>
                                disk'.kill = disk.kill]_vars
  BY LatchStep DEF ForGood
<1>. QED BY InitInv, NextInv, <1>1, PTL DEF Spec, LatchSticks

-----------------------------------------------------------------------------
(* Sums.  Induction is over sets of numbers, which need no operator. *)

LEMMA Smallest ==
  ASSUME NEW S \in SUBSET Nat, S # {}
  PROVE  \E n \in S : \A k \in S : n <= k
<1>1. IsWellFoundedOn(OpToRel(<, Nat), Nat)
  BY NatLessThanWellFounded
<1>2. \E n \in S : \A k \in S : ~(<<k, n>> \in OpToRel(<, Nat))
  BY <1>1, WFMin
<1>3. \A k, n \in Nat : k < n => <<k, n>> \in OpToRel(<, Nat)
  BY Zenon DEF OpToRel
<1>4. PICK n \in S : \A k \in S : ~(<<k, n>> \in OpToRel(<, Nat))
  BY <1>2
<1>5. ASSUME NEW k \in S PROVE n <= k
  <2>1. ~(k < n)
    BY <1>3, <1>4
  <2>2. k \in Nat /\ n \in Nat
    OBVIOUS
  <2>. QED BY <2>1, <2>2
<1>. QED BY <1>5

LEMMA SetInduction ==
  ASSUME NEW S, 0 \in S, \A n \in Nat : n \in S => n + 1 \in S
  PROVE  Nat \subseteq S
<1>. SUFFICES ASSUME Nat \ S # {} PROVE FALSE
  OBVIOUS
<1>1. PICK n \in Nat \ S : \A k \in Nat \ S : n <= k
  BY Smallest
<1>2. n # 0 /\ n - 1 \in Nat /\ n - 1 \in S
  BY <1>1
<1>3. n - 1 + 1 \in S
  BY <1>2
<1>. QED BY <1>1, <1>3

(* sum runs through the sums of the first numbers of s. *)
Sums(sum, s) ==
    /\ sum = [i \in 0..Len(s) |-> sum[i]] /\ sum[0] = 0
    /\ \A i \in 1..Len(s) : sum[i] = sum[i - 1] + s[i]

LEMMA SumsExist ==
  ASSUME NEW s \in Seq(Int)
  PROVE  \E sum : Sums(sum, s)
<1>. DEFINE Upto(n) == [0..n -> Int]
            Good(sum, n) == sum[0] = 0 /\ \A i \in 1..n : i <= Len(s) => sum[i] = sum[i - 1] + s[i]
            S == {n \in Nat : \E sum \in Upto(n) : Good(sum, n)}
<1>1. 0 \in S
  <2>1. [i \in 0..0 |-> 0] \in Upto(0) /\ Good([i \in 0..0 |-> 0], 0)
    OBVIOUS
  <2>. QED BY <2>1
<1>2. ASSUME NEW n \in Nat, n \in S PROVE n + 1 \in S
  <2>1. PICK sum \in Upto(n) : Good(sum, n)
    BY <1>2
  <2>. DEFINE x == IF n + 1 <= Len(s) THEN s[n + 1] ELSE 0
              next == [i \in 0..n + 1 |-> IF i = n + 1 THEN sum[n] + x ELSE sum[i]]
  <2>2. x \in Int /\ sum[n] \in Int
    BY <2>1
  <2>3. next \in Upto(n + 1)
    <3>. HIDE DEF x
    <3>. QED BY <2>1, <2>2
  <2>4. Good(next, n + 1)
    <3>1. next[0] = 0 BY <2>1
    <3>2. ASSUME NEW i \in 1..n + 1, i <= Len(s) PROVE next[i] = next[i - 1] + s[i]
      <4>1. CASE i = n + 1
        <5>1. next[i] = sum[n] + s[i] /\ next[i - 1] = sum[n] BY <4>1, <3>2, <2>2
        <5>. QED BY <5>1
      <4>2. CASE i # n + 1
        <5>1. i \in 1..n /\ i - 1 \in 0..n /\ next[i] = sum[i] /\ next[i - 1] = sum[i - 1] BY <4>2
        <5>. QED BY <2>1, <3>2, <5>1
      <4>. QED BY <4>1, <4>2
    <3>. HIDE DEF next, x
    <3>3. \A i \in 1..n + 1 : i <= Len(s) => next[i] = next[i - 1] + s[i]
      BY <3>2
    <3>. QED BY <3>1, <3>3, Zenon
  <2>. HIDE DEF next, Upto, Good
  <2>5. n + 1 \in Nat /\ \E f \in Upto(n + 1) : Good(f, n + 1)
    BY <2>3, <2>4
  <2>. QED BY <2>5, Zenon
<1>. HIDE DEF S
<1>3. Nat \subseteq S
  BY <1>1, <1>2, SetInduction
<1>4. Len(s) \in S
  BY <1>3, LenProperties
<1>. USE DEF S
<1>5. PICK sum \in Upto(Len(s)) : Good(sum, Len(s))
  BY <1>4
<1>. QED BY <1>5 DEF Sums

LEMMA SumsEqual ==
  ASSUME NEW s \in Seq(Int), NEW t, NEW u, Sums(t, s), Sums(u, s)
  PROVE  t = u
<1>. DEFINE S == {n \in Nat : n <= Len(s) => t[n] = u[n]}
<1>1. 0 \in S
  BY DEF Sums
<1>2. ASSUME NEW n \in Nat, n \in S PROVE n + 1 \in S
  <2>. SUFFICES ASSUME n + 1 <= Len(s) PROVE t[n + 1] = u[n + 1]
    OBVIOUS
  <2>1. n + 1 \in 1..Len(s) /\ n + 1 - 1 = n /\ n <= Len(s)
    BY LenProperties
  <2>2. t[n + 1] = t[n] + s[n + 1] /\ u[n + 1] = u[n] + s[n + 1]
    <3>1. /\ \A i \in 1..Len(s) : t[i] = t[i - 1] + s[i]
          /\ \A i \in 1..Len(s) : u[i] = u[i - 1] + s[i]
      BY DEF Sums
    <3>2. PICK k \in 1..Len(s) : k = n + 1 /\ k - 1 = n
      BY <2>1
    <3>3. t[k] = t[k - 1] + s[k] /\ u[k] = u[k - 1] + s[k]
      BY <3>1
    <3>4. t[k] = t[n] + s[k] /\ u[k] = u[n] + s[k]
      BY <3>2, <3>3, Zenon
    <3>. QED BY <3>2, <3>4, Zenon
  <2>3. t[n] = u[n]
    BY <1>2, <2>1
  <2>. QED BY <2>2, <2>3
<1>. HIDE DEF S
<1>3. Nat \subseteq S
  BY <1>1, <1>2, SetInduction
<1>. USE DEF S
<1>4. \A n \in 0..Len(s) : t[n] = u[n]
  BY <1>3
<1>. QED BY <1>4 DEF Sums

(* Whatever runs through the sums ends in the total. *)
LEMMA TotalIs ==
  ASSUME NEW s \in Seq(Int), NEW u, Sums(u, s)
  PROVE  Total(s) = u[Len(s)]
<1>. DEFINE Is(t) == t = [i \in 0..Len(s) |-> IF i = 0 THEN 0 ELSE t[i - 1] + s[i]]
            sum == CHOOSE t : Is(t)
<1>1. \A t : Is(t) <=> Sums(t, s)
  <2>1. ASSUME NEW t, Is(t) PROVE Sums(t, s)
    <3>1. /\ t[0] = 0 /\ \A i \in 1..Len(s) : t[i] = t[i - 1] + s[i]
      <4>1. 0 \in 0..Len(s) BY LenProperties
      <4>2. \A i \in 0..Len(s) : t[i] = IF i = 0 THEN 0 ELSE t[i - 1] + s[i]
        BY <2>1
      <4>3. \A i \in 1..Len(s) : i \in 0..Len(s) /\ i # 0
        OBVIOUS
      <4>. QED BY <4>1, <4>2, <4>3
    <3>2. t = [i \in 0..Len(s) |-> t[i]]
      BY <2>1, Zenon
    <3>. QED BY <3>1, <3>2 DEF Sums
  <2>2. ASSUME NEW t, Sums(t, s) PROVE Is(t)
    <3>1. \A i \in 0..Len(s) : t[i] = IF i = 0 THEN 0 ELSE t[i - 1] + s[i]
      <4>1. \A i \in 0..Len(s) : i # 0 => i \in 1..Len(s)
        OBVIOUS
      <4>. QED BY <2>2, <4>1 DEF Sums
    <3>2. t = [i \in 0..Len(s) |-> t[i]]
      BY <2>2 DEF Sums
    <3>. QED BY <3>1, <3>2
  <2>. QED BY <2>1, <2>2
<1>2. Is(u)
  BY <1>1
<1>. HIDE DEF Is
<1>3. Is(sum)
  BY <1>2
<1>4. sum = u
  BY <1>1, <1>3, SumsEqual
<1>5. Total(s) = sum[Len(s)]
  BY DEF Total, Is
<1>. QED BY <1>4, <1>5

LEMMA TotalEmpty == Total(<<>>) = 0
<1>. DEFINE u == [i \in 0..0 |-> 0]
<1>1. Sums(u, <<>>) /\ u[Len(<<>>)] = 0 /\ <<>> \in Seq(Int)
  BY DEF Sums
<1>. QED BY <1>1, TotalIs

(* The partial sums are integers; of naturals, naturals. *)
LEMMA SumsTyped ==
  ASSUME NEW s \in Seq(Int), NEW u, Sums(u, s)
  PROVE  /\ \A n \in 0..Len(s) : u[n] \in Int
         /\ s \in Seq(Nat) => \A n \in 0..Len(s) : u[n] \in Nat
<1>1. ASSUME NEW T, T \in {Int, Nat}, s \in Seq(T), NEW n \in 0..Len(s)
      PROVE  u[n] \in T
  <2>. DEFINE S == {k \in Nat : k <= Len(s) => u[k] \in T}
  <2>1. 0 \in S
    BY <1>1 DEF Sums
  <2>2. ASSUME NEW k \in Nat, k \in S PROVE k + 1 \in S
    <3>. SUFFICES ASSUME k + 1 <= Len(s) PROVE u[k + 1] \in T
      OBVIOUS
    <3>1. u[k] \in T /\ s[k + 1] \in T
      BY <1>1, <2>2, LenProperties, ElementOfSeq
    <3>2. PICK m \in 1..Len(s) : m = k + 1 /\ m - 1 = k
      BY LenProperties
    <3>3. u[m] = u[m - 1] + s[m]
      BY DEF Sums
    <3>4. u[k + 1] = u[k] + s[k + 1]
      BY <3>2, <3>3, Zenon
    <3>5. CASE T = Int
      <4>1. u[k] \in Int /\ s[k + 1] \in Int /\ u[k] + s[k + 1] \in Int
        BY <3>1, <3>5
      <4>. QED BY <3>4, <3>5, <4>1, Zenon
    <3>6. CASE T = Nat
      <4>1. u[k] \in Nat /\ s[k + 1] \in Nat /\ u[k] + s[k + 1] \in Nat
        BY <3>1, <3>6
      <4>. QED BY <3>4, <3>6, <4>1, Zenon
    <3>. QED BY <1>1, <3>5, <3>6
  <2>. HIDE DEF S
  <2>3. Nat \subseteq S
    BY <2>1, <2>2, SetInduction
  <2>4. n \in S
    BY <2>3
  <2>. QED BY <2>4, LenProperties DEF S
<1>2. Int \in {Int, Nat} /\ Nat \in {Int, Nat}
  OBVIOUS
<1>3. \A n \in 0..Len(s) : u[n] \in Int
  BY <1>1, <1>2, Zenon
<1>4. s \in Seq(Nat) => \A n \in 0..Len(s) : u[n] \in Nat
  BY <1>1, <1>2, Zenon
<1>. QED BY <1>3, <1>4, Zenon

LEMMA TotalTyped ==
  ASSUME NEW s \in Seq(Int)
  PROVE  Total(s) \in Int /\ (s \in Seq(Nat) => Total(s) \in Nat)
<1>1. PICK u : Sums(u, s)
  BY SumsExist
<1>2. Total(s) = u[Len(s)] /\ Len(s) \in 0..Len(s)
  BY <1>1, TotalIs, LenProperties
<1>. QED BY <1>1, <1>2, SumsTyped

LEMMA TotalSplit ==
  ASSUME NEW a \in Seq(Int), NEW b \in Seq(Int)
  PROVE  Total(a \o b) = Total(a) + Total(b)
<1>1. PICK u : Sums(u, a) BY SumsExist
<1>2. PICK w : Sums(w, b) BY SumsExist
<1>. DEFINE m == Len(a)
            n == Len(b)
            c == a \o b
            v == [i \in 0..m + n |-> IF i <= m THEN u[i] ELSE u[m] + w[i - m]]
<1>3. /\ m \in Nat /\ n \in Nat /\ c \in Seq(Int) /\ Len(c) = m + n
      /\ \A i \in 1..m + n : c[i] = IF i <= m THEN a[i] ELSE b[i - m]
  BY ConcatProperties, LenProperties
<1>4. /\ u[0] = 0 /\ \A i \in 1..m : u[i] = u[i - 1] + a[i]
      /\ w[0] = 0 /\ \A i \in 1..n : w[i] = w[i - 1] + b[i]
  BY <1>1, <1>2 DEF Sums
<1>5. /\ \A i \in 0..m : u[i] \in Int
      /\ \A i \in 0..n : w[i] \in Int
      /\ \A i \in 1..n : b[i] \in Int
  BY <1>1, <1>2, SumsTyped, ElementOfSeq
<1>. HIDE DEF m, n, c
<1>6. ASSUME NEW i \in 1..m + n PROVE v[i] = v[i - 1] + c[i]
  <2>1. CASE i <= m
    <3>1. m \in Nat /\ n \in Nat
      BY <1>3
    <3>2. i \in 1..m /\ i \in 0..m + n /\ i - 1 \in 0..m + n /\ i - 1 <= m
      BY <2>1, <3>1
    <3>3. v[i] = u[i] /\ v[i - 1] = u[i - 1]
      BY <2>1, <3>2
    <3>4. c[i] = a[i]
      BY <1>3, <2>1
    <3>5. u[i] = u[i - 1] + a[i]
      BY <1>4, <3>2
    <3>. QED BY <3>3, <3>4, <3>5, Zenon
  <2>2. CASE i = m + 1
    <3>1. m \in Nat /\ n \in Nat /\ 1 <= n
      BY <1>3, <2>2
    <3>2. i - m = 1 /\ i - 1 = m /\ ~(i <= m)
      BY <2>2, <3>1
    <3>3. 1 \in 1..n /\ i \in 0..m + n /\ m \in 0..m + n
      BY <3>1
    <3>4. v[i] = u[m] + w[i - m] /\ v[m] = u[m] /\ c[i] = b[i - m]
      BY <1>3, <3>1, <3>2, <3>3
    <3>5. v[i] = u[m] + w[1] /\ v[i - 1] = u[m] /\ c[i] = b[1]
      BY <3>2, <3>4, Zenon
    <3>6. w[1] = b[1]
      <4>1. PICK k \in 1..n : k = 1 /\ k - 1 = 0
        BY <3>3
      <4>2. w[k] = w[k - 1] + b[k]
        BY <1>4
      <4>3. w[1] = w[0] + b[1]
        BY <4>1, <4>2, Zenon
      <4>. QED BY <1>4, <1>5, <3>3, <4>3
    <3>. QED BY <3>5, <3>6
  <2>3. CASE i > m + 1
    <3>1. PICK k \in 1..n : k = i - m /\ k - 1 \in 0..n /\ k - 1 # 0
      BY <1>3, <2>3
    <3>2. /\ i \in 0..m + n /\ i - 1 \in 0..m + n /\ ~(i <= m) /\ ~(i - 1 <= m)
          /\ i - m = k /\ i - 1 - m = k - 1
      BY <1>3, <2>3, <3>1
    <3>3. v[i] = u[m] + w[i - m] /\ v[i - 1] = u[m] + w[i - 1 - m] /\ c[i] = b[i - m]
      BY <1>3, <3>2
    <3>4. v[i] = u[m] + w[k] /\ v[i - 1] = u[m] + w[k - 1] /\ c[i] = b[k]
      BY <3>2, <3>3, Zenon
    <3>5. w[k] = w[k - 1] + b[k]
      BY <1>4
    <3>6. u[m] \in Int /\ w[k - 1] \in Int /\ b[k] \in Int
      BY <1>3, <1>5, <3>1
    <3>. QED BY <3>4, <3>5, <3>6
  <2>. QED BY <1>3, <2>1, <2>2, <2>3
<1>7. v[0] = 0 BY <1>3, <1>4
<1>8. Sums(v, c) BY <1>3, <1>6, <1>7 DEF Sums
<1>9. Total(c) = v[m + n] /\ Total(a) = u[m] /\ Total(b) = w[n]
  BY <1>1, <1>2, <1>3, <1>8, TotalIs DEF m, n
<1>10. CASE n = 0
  <2>1. v[m + n] = u[m] /\ w[n] = 0 BY <1>3, <1>4, <1>10
  <2>. QED BY <1>3, <1>5, <1>9, <2>1 DEF c
<1>11. CASE n # 0
  <2>1. v[m + n] = u[m] + w[n] BY <1>3, <1>11
  <2>. QED BY <1>9, <2>1 DEF c
<1>. QED BY <1>10, <1>11

LEMMA TotalOne ==
  ASSUME NEW x \in Int
  PROVE  Total(<<x>>) = x
<1>. DEFINE u == [i \in 0..1 |-> IF i = 0 THEN 0 ELSE x]
<1>1. <<x>> \in Seq(Int) /\ Len(<<x>>) = 1 /\ <<x>>[1] = x
  BY OneCall
<1>2. ASSUME NEW i \in 1..1 PROVE u[i] = u[i - 1] + <<x>>[i]
  <2>1. i = 1 OBVIOUS
  <2>. QED BY <2>1
<1>3. Sums(u, <<x>>)
  BY <1>1, <1>2 DEF Sums
<1>. QED BY <1>1, <1>3, TotalIs

(* One number replaced. *)
LEMMA TotalPut ==
  ASSUME NEW s \in Seq(Int), NEW t \in Seq(Int), Len(t) = Len(s), NEW k \in 1..Len(s),
         \A i \in 1..Len(s) : i # k => t[i] = s[i]
  PROVE  Total(t) = Total(s) - s[k] + t[k]
<1>1. PICK u : Sums(u, s) BY SumsExist
<1>. DEFINE n == Len(s)
            d == t[k] - s[k]
            v == [i \in 0..n |-> IF i < k THEN u[i] ELSE u[i] + d]
<1>2. n \in Nat /\ d \in Int /\ s[k] \in Int /\ t[k] \in Int
  <2>1. s[k] \in Int /\ t[k] \in Int BY ElementOfSeq
  <2>. QED BY <2>1, LenProperties
<1>3. u[0] = 0 /\ (\A i \in 1..n : u[i] = u[i - 1] + s[i]) /\ (\A i \in 0..n : u[i] \in Int)
  BY <1>1, SumsTyped DEF Sums
<1>. HIDE DEF n, d
<1>4. ASSUME NEW i \in 1..n PROVE v[i] = v[i - 1] + t[i]
  <2>1. u[i] = u[i - 1] + s[i] /\ i - 1 \in 0..n /\ i \in 0..n /\ u[i - 1] \in Int
    BY <1>2, <1>3
  <2>2. s[i] \in Int /\ t[i] \in Int BY ElementOfSeq DEF n
  <2>3. CASE i < k
    <3>1. v[i] = u[i] /\ v[i - 1] = u[i - 1] /\ t[i] = s[i] BY <2>1, <2>3 DEF n
    <3>. QED BY <2>1, <3>1
  <2>4. CASE i = k
    <3>1. v[i] = u[i] + d /\ v[i - 1] = u[i - 1] BY <2>1, <2>4
    <3>. QED BY <1>2, <2>1, <2>2, <2>4, <3>1 DEF d
  <2>5. CASE i > k
    <3>1. t[i] = s[i] BY <2>5 DEF n
    <3>2. ~(i < k) /\ ~(i - 1 < k) BY <2>5
    <3>3. v[i] = u[i] + d /\ v[i - 1] = u[i - 1] + d BY <2>1, <3>2
    <3>4. u[i] + d = u[i - 1] + d + s[i] BY <1>2, <2>1, <2>2
    <3>. QED BY <3>1, <3>3, <3>4, Zenon
  <2>. QED BY <2>3, <2>4, <2>5
<1>5. v[0] = 0 BY <1>2, <1>3
<1>6. Sums(v, t) BY <1>4, <1>5 DEF Sums, n
<1>7. Total(t) = v[n] /\ Total(s) = u[n] BY <1>1, <1>6, TotalIs DEF n
<1>8. v[n] = u[n] + d /\ u[n] \in Int BY <1>2, <1>3 DEF n
<1>. QED BY <1>2, <1>7, <1>8 DEF d

LEMMA TotalZero ==
  ASSUME NEW s \in Seq(Int), \A i \in 1..Len(s) : s[i] = 0
  PROVE  Total(s) = 0
<1>. DEFINE v == [i \in 0..Len(s) |-> 0]
<1>1. Sums(v, s) BY LenProperties DEF Sums
<1>. QED BY <1>1, TotalIs, LenProperties

-----------------------------------------------------------------------------
(* Money.  A snapshot is worth the result of the day less what is at risk. *)

Floor == -(MaxDailyLoss + MaxTotalExposure)
Worth(s, day) == s.pnl[day] - Exposure(s)
Cost(o, s) == Total(CostsOf(o, s))

(* What a call adds to the positions, and what it books as a loss. *)
SavedBy(op) == IF op.call = "save" THEN op.position.cost ELSE 0
LostBy(op) == IF op.call = "pnl" /\ op.amount < 0 THEN -op.amount ELSE 0
Costs(calls) == [i \in DOMAIN calls |-> SavedBy(calls[i])]
Losses(calls) == [i \in DOMAIN calls |-> LostBy(calls[i])]
Saved(calls) == Total(Costs(calls))
Lost(calls) == Total(Losses(calls))

(* The books of a snapshot, on a day, for what was begun and was spent. *)
Books(s, day, beg, spt) ==
    /\ Exposure(s) <= MaxTotalExposure /\ Worth(s, day) > Floor
    /\ \A d \in Days : d > day => s.pnl[d] = 0
    /\ \A i \in DOMAIN s.positions : beg[s.positions[i].id[1]] = 1
    /\ \A o \in Opps \ s.pending : beg[o] = 1 => Cost(o, s) = spt[o]

(* The calls of a cycle before its completion. *)
OwnCalls(o, day) ==
    {op \in Saves : op.position.id[1] = o} \cup {op \in Pnls : op.day = day}
        \cup Latches({"non_atomic_leg_failure"})

(* What the cycle of o still saves and loses is within the means of s. *)
Means(s, saved, lost, o, day, spt) ==
    /\ Exposure(s) + saved <= MaxTotalExposure
    /\ Worth(s, day) - saved - lost > Floor
    /\ Cost(o, s) + saved = spt[o]

CycleOK ==
    phase = "cycle" =>
        /\ begun[opp] = 1
        /\ \/ todo = <<>>
           \/ \E calls \in Seq(OwnCalls(opp, today)) :
                  /\ todo = Append(calls, Complete(opp)) /\ opp \in mem.pending
                  /\ Means(mem, Saved(calls), Lost(calls), opp, today, spent)

FillsOK ==
    /\ phase \in {"market", "claiming", "fills"} => BelowDailyLoss(mem)
    /\ phase = "fills" => begun[opp] = 1 /\ opp \in mem.pending /\ Cost(opp, mem) = 0

SettledOK ==
    phase = "settled" =>
        \/ todo = <<>>
        \/ \E i \in DOMAIN mem.positions :
               mem.positions[i].state = "paired" /\ todo = SettleCalls(i)
        \/ \E e \in Events, amount \in Int :
               todo = <<Pnl(e, today, amount)>> /\ Worth(mem, today) + amount > Floor

Money ==
    /\ Books(disk, today, begun, spent)
    /\ mem # None => Books(mem, today, begun, spent)
    /\ CycleOK /\ FillsOK /\ SettledOK

-----------------------------------------------------------------------------
LEMMA Listed ==
  ASSUME NEW T, NEW n \in Nat, NEW f \in [1..n -> T]
  PROVE  f \in Seq(T) /\ Len(f) = n /\ DOMAIN f = 1..n
  BY SeqDef, LenProperties

LEMMA PositionsAre ==
  ASSUME NEW s \in Snapshot
  PROVE  /\ s.positions \in Seq(Position) /\ Len(s.positions) \in Nat
         /\ DOMAIN s.positions = 1..Len(s.positions)
         /\ \A i \in 1..Len(s.positions) :
                /\ s.positions[i] \in Position /\ s.positions[i].cost \in Nat
                /\ s.positions[i].id \in Ids /\ s.positions[i].id[1] \in Opps
<1>1. s.positions \in Seq(Position)
  BY DEF Snapshot
<1>2. \A i \in 1..Len(s.positions) : s.positions[i] \in Position
  BY <1>1, ElementOfSeq
<1>3. \A p \in Position : p.cost \in Nat /\ p.id \in Ids /\ p.id[1] \in Opps
  BY DEF Position, Ids
<1>. QED BY <1>1, <1>2, <1>3, LenProperties

LEMMA CostsAre ==
  ASSUME NEW s \in Snapshot
  PROVE  /\ OpenCosts(s) \in Seq(Int) /\ OpenCosts(s) \in Seq(Nat) /\ Len(OpenCosts(s)) = Len(s.positions)
         /\ \A o : CostsOf(o, s) \in Seq(Int) /\ CostsOf(o, s) \in Seq(Nat)
                   /\ Len(CostsOf(o, s)) = Len(s.positions)
<1>. DEFINE n == Len(s.positions)
<1>1. n \in Nat /\ DOMAIN s.positions = 1..n /\ \A i \in 1..n : s.positions[i].cost \in Nat
  BY PositionsAre
<1>. HIDE DEF n
<1>2. OpenCosts(s) \in [1..n -> Nat] /\ OpenCosts(s) \in [1..n -> Int]
  BY <1>1 DEF OpenCosts
<1>3. \A o : CostsOf(o, s) \in [1..n -> Nat] /\ CostsOf(o, s) \in [1..n -> Int]
  BY <1>1 DEF CostsOf
<1>. QED BY <1>1, <1>2, <1>3, Listed DEF n

LEMMA MoneyTyped ==
  ASSUME NEW s \in Snapshot
  PROVE  /\ Exposure(s) \in Nat /\ \A o : Cost(o, s) \in Nat
         /\ \A day \in Days : s.pnl[day] \in Int /\ Worth(s, day) \in Int
<1>1. Exposure(s) \in Nat /\ \A o : Cost(o, s) \in Nat
  BY CostsAre, TotalTyped DEF Exposure, Cost
<1>2. \A day \in Days : s.pnl[day] \in Int
  BY DEF Snapshot
<1>. QED BY <1>1, <1>2 DEF Worth

LEMMA Bounds ==
  /\ MaxTotalExposure \in Nat \ {0} /\ MaxDailyLoss \in Nat \ {0} /\ MaxPairGross \in Nat \ {0}
  /\ Floor \in Int /\ Floor = -(MaxDailyLoss + MaxTotalExposure)
<1>1. MaxTotalExposure \in Nat \ {0} /\ MaxDailyLoss \in Nat \ {0} /\ MaxPairGross \in Nat \ {0}
  BY PaperAssumption
<1>. QED BY <1>1 DEF Floor

(* The same positions and results are worth the same. *)
LEMMA SameMoney ==
  ASSUME NEW s, NEW r, r.positions = s.positions
  PROVE  /\ Exposure(r) = Exposure(s) /\ \A o : Cost(o, r) = Cost(o, s)
         /\ \A day : r.pnl = s.pnl => Worth(r, day) = Worth(s, day)
<1>1. OpenCosts(r) = OpenCosts(s) /\ \A o : CostsOf(o, r) = CostsOf(o, s)
  BY DEF OpenCosts, CostsOf
<1>. QED BY <1>1 DEF Exposure, Cost, Worth

(* A position more. *)
LEMMA SaveMoney ==
  ASSUME NEW s \in Snapshot, NEW op \in Saves
  PROVE  LET r == Apply(op, s)
             cost == op.position.cost
         IN
         /\ r.positions = Append(s.positions, op.position) /\ r.pnl = s.pnl /\ r.pending = s.pending
         /\ cost \in Nat
         /\ Exposure(r) <= Exposure(s) + cost
         /\ \A o : Cost(o, r) = Cost(o, s) + IF op.position.id[1] = o THEN cost ELSE 0
<1>. DEFINE r == Apply(op, s)
            p == op.position
            cost == p.cost
            ps == s.positions
            n == Len(ps)
<1>1. p \in Position /\ cost \in Nat /\ op.call = "save"
  BY DEF Saves, Position
<1>2. r = [s EXCEPT !.positions = Append(ps, p)]
  BY <1>1 DEF Apply, Persists
<1>3. r.positions = Append(ps, p) /\ r.pnl = s.pnl /\ r.pending = s.pending
  BY <1>2 DEF Snapshot
<1>4. r \in Snapshot
  BY ApplyTyped DEF AllCalls
<1>. HIDE DEF r, p, cost
<1>5. /\ ps \in Seq(Position) /\ n \in Nat /\ DOMAIN ps = 1..n
      /\ Append(ps, p) \in Seq(Position) /\ Len(Append(ps, p)) = n + 1
      /\ DOMAIN Append(ps, p) = 1..n + 1
      /\ \A i \in 1..n : Append(ps, p)[i] = ps[i]
      /\ Append(ps, p)[n + 1] = p
  BY <1>1, PositionsAre, AppendProperties, LenProperties
<1>. HIDE DEF n, ps
<1>6. /\ OpenCosts(s) \in Seq(Int) /\ OpenCosts(r) \in Seq(Int)
      /\ \A o : CostsOf(o, s) \in Seq(Int) /\ CostsOf(o, r) \in Seq(Int)
      /\ Len(OpenCosts(s)) = n /\ \A o : Len(CostsOf(o, s)) = n
  BY <1>4, CostsAre DEF n, ps
<1>. DEFINE c == IF p.state = "merged" THEN 0 ELSE cost
            d(o) == IF p.id[1] = o THEN cost ELSE 0
<1>7. c \in Int /\ c <= cost /\ \A o : d(o) \in Int
  BY <1>1
<1>8. OpenCosts(r) = Append(OpenCosts(s), c)
  <2>1. OpenCosts(r) = [i \in 1..n + 1 |-> IF i = n + 1 THEN c ELSE OpenCosts(s)[i]]
    BY <1>3, <1>5 DEF OpenCosts, cost, ps
  <2>2. Append(OpenCosts(s), c) = [i \in 1..n + 1 |-> IF i = n + 1 THEN c ELSE OpenCosts(s)[i]]
    BY <1>5, <1>6
  <2>. QED BY <2>1, <2>2, Zenon
<1>9. ASSUME NEW o PROVE CostsOf(o, r) = Append(CostsOf(o, s), d(o))
  <2>1. CostsOf(o, r) = [i \in 1..n + 1 |-> IF i = n + 1 THEN d(o) ELSE CostsOf(o, s)[i]]
    BY <1>3, <1>5 DEF CostsOf, cost, ps
  <2>2. Append(CostsOf(o, s), d(o)) = [i \in 1..n + 1 |-> IF i = n + 1 THEN d(o) ELSE CostsOf(o, s)[i]]
    BY <1>5, <1>6
  <2>. QED BY <2>1, <2>2, Zenon
<1>10. ASSUME NEW t \in Seq(Int), NEW x \in Int PROVE Total(Append(t, x)) = Total(t) + x
  <2>1. Append(t, x) = t \o <<x>> /\ <<x>> \in Seq(Int)
    BY AppendIsConcat, OneCall
  <2>. QED BY <2>1, TotalSplit, TotalOne
<1>. HIDE DEF c
<1>11. Exposure(r) = Exposure(s) + c
  BY <1>6, <1>7, <1>8, <1>10 DEF Exposure
<1>12. \A o : Cost(o, r) = Cost(o, s) + d(o)
  <2>. HIDE DEF d
  <2>. QED BY <1>6, <1>7, <1>9, <1>10 DEF Cost
<1>13. Exposure(r) <= Exposure(s) + cost
  BY <1>1, <1>7, <1>11, MoneyTyped
<1>. QED BY <1>1, <1>3, <1>12, <1>13 DEF r, p, cost, ps

(* A position is merged. *)
LEMMA MergeMoney ==
  ASSUME NEW s \in Snapshot, NEW i \in DOMAIN s.positions, s.positions[i].state # "merged"
  PROVE  LET r == Apply(Merge(i), s) IN
         /\ r.pnl = s.pnl /\ r.pending = s.pending
         /\ DOMAIN r.positions = DOMAIN s.positions
         /\ \A j \in DOMAIN s.positions : r.positions[j].id = s.positions[j].id
         /\ Exposure(r) = Exposure(s) - s.positions[i].cost
         /\ \A o : Cost(o, r) = Cost(o, s)
<1>. DEFINE r == Apply(Merge(i), s)
            ps == s.positions
            n == Len(ps)
            qs == [ps EXCEPT ![i].state = "merged"]
<1>1. r = [s EXCEPT !.positions = qs]
  BY DEF Apply, Persists, Merge
<1>2. r.positions = qs /\ r.pnl = s.pnl /\ r.pending = s.pending
  BY <1>1 DEF Snapshot
<1>3. n \in Nat /\ DOMAIN ps = 1..n /\ i \in 1..n /\ \A j \in 1..n : ps[j] \in Position
  BY PositionsAre
<1>4. r \in Snapshot
  BY <1>3, ApplyTyped DEF AllCalls, Merge, Merges
<1>. HIDE DEF r
<1>5. /\ DOMAIN qs = 1..n
      /\ \A j \in 1..n : qs[j].id = ps[j].id /\ qs[j].cost = ps[j].cost
      /\ \A j \in 1..n : j # i => qs[j] = ps[j]
      /\ qs[i].state = "merged"
  BY <1>3 DEF Position
<1>6. \A o : CostsOf(o, r) = CostsOf(o, s)
  BY <1>2, <1>3, <1>5 DEF CostsOf
<1>7. /\ OpenCosts(s) \in Seq(Int) /\ OpenCosts(r) \in Seq(Int)
      /\ Len(OpenCosts(s)) = n /\ Len(OpenCosts(r)) = n
  <2>1. Len(r.positions) = n
    <3>1. DOMAIN r.positions = 1..Len(r.positions) /\ Len(r.positions) \in Nat
      BY <1>4, PositionsAre
    <3>. QED BY <3>1, <1>2, <1>3, <1>5
  <2>. QED BY <2>1, <1>4, CostsAre
<1>8. /\ OpenCosts(s)[i] = ps[i].cost /\ OpenCosts(r)[i] = 0
      /\ \A j \in 1..n : j # i => OpenCosts(r)[j] = OpenCosts(s)[j]
  BY <1>2, <1>3, <1>5 DEF OpenCosts
<1>. HIDE DEF ps, n, qs
<1>9. Total(OpenCosts(r)) = Total(OpenCosts(s)) - OpenCosts(s)[i] + OpenCosts(r)[i]
  BY <1>3, <1>7, <1>8, TotalPut
<1>10. Exposure(r) = Exposure(s) - ps[i].cost
  <2>1. Exposure(s) \in Int /\ ps[i].cost \in Int
    BY <1>3, MoneyTyped DEF Position
  <2>. QED BY <2>1, <1>8, <1>9 DEF Exposure
<1>. QED BY <1>2, <1>3, <1>5, <1>6, <1>10, Zenon DEF Cost, r, ps

(* A result is booked once. *)
LEMMA PnlMoney ==
  ASSUME NEW s \in Snapshot, NEW op \in Pnls
  PROVE  LET r == Apply(op, s) IN
         /\ r.positions = s.positions /\ r.pending = s.pending
         /\ op.amount \in Int /\ op.day \in Days
         /\ \A day \in Days \ {op.day} : r.pnl[day] = s.pnl[day]
         /\ r.pnl[op.day] \in {s.pnl[op.day], s.pnl[op.day] + op.amount}
  BY DEF Apply, Persists, Snapshot, Pnls

(* The other calls are not about money. *)
LEMMA NoMoney ==
  ASSUME NEW s \in Snapshot, NEW op \in AllCalls, op.call \notin {"save", "merge", "pnl"}
  PROVE  Apply(op, s).positions = s.positions /\ Apply(op, s).pnl = s.pnl
<1>1. CASE op \in Rollovers
  <2>1. Apply(op, s) = s \/ Apply(op, s) = [s EXCEPT !.kill = None]
    BY <1>1 DEF Apply, Rollovers
  <2>. QED BY <2>1 DEF Snapshot
<1>2. CASE op \in Latches(Reasons)
  BY <1>2 DEF Apply, Persists, Snapshot, Latches
<1>3. CASE op = Reconcile
  BY <1>3 DEF Apply, Reconcile
<1>4. CASE op \in Claims
  <2>1. op.call = "claim"
    BY <1>4 DEF Claims, Claim
  <2>2. Apply(op, s) = [s EXCEPT !.claimed = @ \cup {op.opp}, !.pending = @ \cup {op.opp}]
    BY <2>1 DEF Apply, Persists
  <2>. QED BY <2>2 DEF Snapshot
<1>5. CASE op \in Completes
  <2>1. op.call = "complete"
    BY <1>5 DEF Completes, Complete
  <2>2. Apply(op, s) = [s EXCEPT !.pending = @ \ {op.opp}]
    BY <2>1 DEF Apply, Persists
  <2>. QED BY <2>2 DEF Snapshot
<1>6. CASE op \in Merges \cup Pnls \cup Saves
  BY <1>6 DEF Merges, Pnls, Saves
<1>. QED BY <1>1, <1>2, <1>3, <1>4, <1>5, <1>6 DEF AllCalls

-----------------------------------------------------------------------------
(* What calls save and lose. *)

LEMMA OwnTyped ==
  ASSUME NEW o \in Opps, NEW day \in Days, NEW op \in OwnCalls(o, day)
  PROVE  /\ SavedBy(op) \in Nat /\ LostBy(op) \in Nat /\ op \in AllCalls
         /\ op.call \in {"save", "pnl", "latch"}
         /\ op.call = "save" => op \in Saves /\ op.position.id[1] = o
         /\ op.call = "pnl" => op \in Pnls /\ op.day = day
<1>1. CASE op \in Saves /\ op.position.id[1] = o
  BY <1>1 DEF Saves, SavedBy, LostBy, AllCalls, Position
<1>2. CASE op \in Pnls /\ op.day = day
  BY <1>2 DEF Pnls, SavedBy, LostBy, AllCalls
<1>3. CASE op \in Latches({"non_atomic_leg_failure"})
  BY <1>3 DEF Latches, SavedBy, LostBy, AllCalls, Reasons
<1>. QED BY <1>1, <1>2, <1>3 DEF OwnCalls

LEMMA CallsListed ==
  ASSUME NEW o \in Opps, NEW day \in Days, NEW calls \in Seq(OwnCalls(o, day))
  PROVE  /\ Costs(calls) \in Seq(Int) /\ Losses(calls) \in Seq(Int)
         /\ Len(Costs(calls)) = Len(calls) /\ Len(Losses(calls)) = Len(calls)
         /\ Saved(calls) \in Nat /\ Lost(calls) \in Nat
<1>. DEFINE n == Len(calls)
<1>1. n \in Nat /\ DOMAIN calls = 1..n
      /\ \A i \in 1..n : SavedBy(calls[i]) \in Nat /\ LostBy(calls[i]) \in Nat
  <2>1. \A i \in 1..n : calls[i] \in OwnCalls(o, day)
    BY ElementOfSeq
  <2>. QED BY <2>1, OwnTyped, LenProperties
<1>. HIDE DEF n
<1>2. Costs(calls) \in [1..n -> Nat] /\ Costs(calls) \in [1..n -> Int]
      /\ Losses(calls) \in [1..n -> Nat] /\ Losses(calls) \in [1..n -> Int]
  BY <1>1 DEF Costs, Losses
<1>3. Costs(calls) \in Seq(Nat) /\ Losses(calls) \in Seq(Nat)
      /\ Costs(calls) \in Seq(Int) /\ Losses(calls) \in Seq(Int)
      /\ Len(Costs(calls)) = n /\ Len(Losses(calls)) = n
  BY <1>1, <1>2, Listed
<1>. QED BY <1>3, TotalTyped DEF n, Saved, Lost

LEMMA SavedSplit ==
  ASSUME NEW o \in Opps, NEW day \in Days,
         NEW a \in Seq(OwnCalls(o, day)), NEW b \in Seq(OwnCalls(o, day))
  PROVE  Saved(a \o b) = Saved(a) + Saved(b) /\ Lost(a \o b) = Lost(a) + Lost(b)
<1>. DEFINE S == OwnCalls(o, day)
            m == Len(a)
            n == Len(b)
            c == a \o b
<1>1. /\ m \in Nat /\ n \in Nat /\ c \in Seq(S) /\ Len(c) = m + n
      /\ DOMAIN a = 1..m /\ DOMAIN b = 1..n /\ DOMAIN c = 1..m + n
      /\ \A i \in 1..m + n : c[i] = IF i <= m THEN a[i] ELSE b[i - m]
  BY ConcatProperties, LenProperties
<1>2. /\ Costs(a) \in Seq(Int) /\ Costs(b) \in Seq(Int) /\ Costs(c) \in Seq(Int)
      /\ Losses(a) \in Seq(Int) /\ Losses(b) \in Seq(Int) /\ Losses(c) \in Seq(Int)
      /\ Len(Costs(a)) = m /\ Len(Costs(b)) = n /\ Len(Costs(c)) = m + n
      /\ Len(Losses(a)) = m /\ Len(Losses(b)) = n /\ Len(Losses(c)) = m + n
  BY <1>1, CallsListed
<1>. HIDE DEF S, m, n, c
<1>3. /\ Costs(a) \o Costs(b) \in Seq(Int) /\ Len(Costs(a) \o Costs(b)) = m + n
      /\ \A i \in 1..m + n : (Costs(a) \o Costs(b))[i] = IF i <= m THEN Costs(a)[i] ELSE Costs(b)[i - m]
  <2>. DEFINE e == Costs(a)
              f == Costs(b)
  <2>1. e \in Seq(Int) /\ f \in Seq(Int) /\ Len(e) = m /\ Len(f) = n
    BY <1>2
  <2>. HIDE DEF e, f
  <2>2. /\ e \o f \in Seq(Int) /\ Len(e \o f) = m + n
        /\ \A i \in 1..m + n : (e \o f)[i] = IF i <= m THEN e[i] ELSE f[i - m]
    <3>1. /\ e \o f \in Seq(Int) /\ Len(e \o f) = Len(e) + Len(f)
          /\ \A i \in 1..Len(e) + Len(f) : (e \o f)[i] = IF i <= Len(e) THEN e[i] ELSE f[i - Len(e)]
      BY <2>1, ConcatProperties
    <3>. QED BY <2>1, <3>1, Zenon
  <2>. QED BY <2>2 DEF e, f
<1>4. /\ Losses(a) \o Losses(b) \in Seq(Int) /\ Len(Losses(a) \o Losses(b)) = m + n
      /\ \A i \in 1..m + n : (Losses(a) \o Losses(b))[i] = IF i <= m THEN Losses(a)[i] ELSE Losses(b)[i - m]
  <2>. DEFINE e == Losses(a)
              f == Losses(b)
  <2>1. e \in Seq(Int) /\ f \in Seq(Int) /\ Len(e) = m /\ Len(f) = n
    BY <1>2
  <2>. HIDE DEF e, f
  <2>2. /\ e \o f \in Seq(Int) /\ Len(e \o f) = m + n
        /\ \A i \in 1..m + n : (e \o f)[i] = IF i <= m THEN e[i] ELSE f[i - m]
    <3>1. /\ e \o f \in Seq(Int) /\ Len(e \o f) = Len(e) + Len(f)
          /\ \A i \in 1..Len(e) + Len(f) : (e \o f)[i] = IF i <= Len(e) THEN e[i] ELSE f[i - Len(e)]
      BY <2>1, ConcatProperties
    <3>. QED BY <2>1, <3>1, Zenon
  <2>. QED BY <2>2 DEF e, f
<1>5. ASSUME NEW i \in 1..m + n
      PROVE  /\ Costs(c)[i] = (Costs(a) \o Costs(b))[i]
             /\ Losses(c)[i] = (Losses(a) \o Losses(b))[i]
  <2>1. CASE i <= m
    <3>1. i \in 1..m
      BY <1>1, <2>1
    <3>2. c[i] = a[i]
      BY <1>1, <2>1
    <3>. QED BY <1>1, <1>3, <1>4, <2>1, <3>1, <3>2 DEF Costs, Losses
  <2>2. CASE ~(i <= m)
    <3>1. i - m \in 1..n
      BY <1>1, <2>2
    <3>2. c[i] = b[i - m]
      BY <1>1, <2>2
    <3>. QED BY <1>1, <1>3, <1>4, <2>2, <3>1, <3>2 DEF Costs, Losses
  <2>. QED BY <2>1, <2>2
<1>6. Costs(c) = Costs(a) \o Costs(b)
  <2>1. /\ Len(Costs(c)) = Len(Costs(a) \o Costs(b))
        /\ \A i \in 1..Len(Costs(c)) : Costs(c)[i] = (Costs(a) \o Costs(b))[i]
    BY <1>2, <1>3, <1>5
  <2>. QED BY <1>2, <1>3, <2>1, SeqEqual, Zenon
<1>7. Losses(c) = Losses(a) \o Losses(b)
  <2>1. /\ Len(Losses(c)) = Len(Losses(a) \o Losses(b))
        /\ \A i \in 1..Len(Losses(c)) : Losses(c)[i] = (Losses(a) \o Losses(b))[i]
    BY <1>2, <1>4, <1>5
  <2>. QED BY <1>2, <1>4, <2>1, SeqEqual, Zenon
<1>. QED BY <1>2, <1>6, <1>7, TotalSplit DEF Saved, Lost, c

LEMMA SavedOne ==
  ASSUME NEW o \in Opps, NEW day \in Days, NEW x \in OwnCalls(o, day)
  PROVE  /\ Saved(<<x>>) = SavedBy(x) /\ Lost(<<x>>) = LostBy(x)
         /\ Saved(<<>>) = 0 /\ Lost(<<>>) = 0
<1>1. Costs(<<x>>) = <<SavedBy(x)>> /\ Losses(<<x>>) = <<LostBy(x)>>
      /\ Costs(<<>>) = <<>> /\ Losses(<<>>) = <<>>
  BY DEF Costs, Losses
<1>2. SavedBy(x) \in Int /\ LostBy(x) \in Int
  BY OwnTyped
<1>. QED BY <1>1, <1>2, TotalOne, TotalEmpty DEF Saved, Lost

LEMMA SavedNone == Saved(<<>>) = 0 /\ Lost(<<>>) = 0
<1>1. Costs(<<>>) = <<>> /\ Losses(<<>>) = <<>>
  BY DEF Costs, Losses
<1>. QED BY <1>1, TotalEmpty DEF Saved, Lost

LEMMA SavedNext ==
  ASSUME NEW o \in Opps, NEW day \in Days, NEW calls \in Seq(OwnCalls(o, day)), calls # <<>>
  PROVE  /\ Head(calls) \in OwnCalls(o, day) /\ Tail(calls) \in Seq(OwnCalls(o, day))
         /\ Saved(calls) = SavedBy(Head(calls)) + Saved(Tail(calls))
         /\ Lost(calls) = LostBy(Head(calls)) + Lost(Tail(calls))
<1>. DEFINE S == OwnCalls(o, day)
<1>1. Head(calls) \in S /\ Tail(calls) \in Seq(S) /\ <<Head(calls)>> \in Seq(S)
  BY HeadTailProperties, OneCall
<1>. HIDE DEF S
<1>2. calls = <<Head(calls)>> \o Tail(calls)
  OBVIOUS
<1>. QED BY <1>1, <1>2, SavedSplit, SavedOne DEF S

-----------------------------------------------------------------------------
(* The next call, and the books. *)

(* A call that only adds to what is pending. *)
LEMMA QuietBooks ==
  ASSUME NEW s, NEW r, NEW day \in Days, NEW beg, NEW spt, Books(s, day, beg, spt),
         r.positions = s.positions, r.pnl = s.pnl, s.pending \subseteq r.pending
  PROVE  Books(r, day, beg, spt)
<1>1. Exposure(r) = Exposure(s) /\ (\A o : Cost(o, r) = Cost(o, s)) /\ Worth(r, day) = Worth(s, day)
  BY SameMoney
<1>. QED BY <1>1 DEF Books

(* A position of the cycle that is saved. *)
LEMMA OwnSave ==
  ASSUME NEW s \in Snapshot, NEW o \in Opps, NEW day \in Days, NEW beg, NEW spt \in [Opps -> Nat],
         NEW op \in Saves, op.position.id[1] = o, NEW saved \in Nat, NEW lost \in Nat,
         Books(s, day, beg, spt), Means(s, op.position.cost + saved, lost, o, day, spt),
         beg[o] = 1, o \in s.pending
  PROVE  LET r == Apply(op, s) IN
         Books(r, day, beg, spt) /\ Means(r, saved, lost, o, day, spt) /\ o \in r.pending
<1>. DEFINE r == Apply(op, s)
            cost == op.position.cost
<1>1. r \in Snapshot
  BY ApplyTyped DEF AllCalls
<1>2. /\ r.positions = Append(s.positions, op.position) /\ r.pnl = s.pnl /\ r.pending = s.pending
      /\ cost \in Nat /\ Exposure(r) <= Exposure(s) + cost
      /\ \A q : Cost(q, r) = Cost(q, s) + IF op.position.id[1] = q THEN cost ELSE 0
  BY SaveMoney
<1>3. /\ Exposure(s) + (cost + saved) <= MaxTotalExposure
      /\ Worth(s, day) - (cost + saved) - lost > Floor
      /\ Cost(o, s) + (cost + saved) = spt[o]
  BY DEF Means
<1>. HIDE DEF r, cost
<1>4. /\ Exposure(s) \in Nat /\ Worth(s, day) \in Int /\ Cost(o, s) \in Nat /\ s.pnl[day] \in Int
      /\ Worth(s, day) = s.pnl[day] - Exposure(s)
  BY MoneyTyped DEF Worth
<1>5. /\ Exposure(r) \in Nat /\ Worth(r, day) \in Int /\ Cost(o, r) \in Nat
      /\ Worth(r, day) = s.pnl[day] - Exposure(r)
  BY <1>1, <1>2, MoneyTyped DEF Worth
<1>6. Cost(o, r) = Cost(o, s) + cost /\ Exposure(r) <= Exposure(s) + cost /\ cost \in Nat
  BY <1>2
<1>7. Exposure(r) + saved <= MaxTotalExposure /\ Exposure(r) <= MaxTotalExposure
  BY <1>3, <1>4, <1>5, <1>6, Bounds
<1>8. Worth(r, day) - saved - lost > Floor
  <2>1. Worth(r, day) >= Worth(s, day) - cost
    BY <1>4, <1>5, <1>6
  <2>. QED BY <1>3, <1>4, <1>5, <1>6, <2>1, Bounds
<1>9. Worth(r, day) > Floor
  BY <1>5, <1>8, Bounds
<1>10. Cost(o, r) + saved = spt[o]
  BY <1>3, <1>4, <1>6
<1>11. \A i \in DOMAIN r.positions : beg[r.positions[i].id[1]] = 1
  <2>. DEFINE n == Len(s.positions)
  <2>1. s.positions \in Seq(Position) /\ op.position \in Position /\ DOMAIN s.positions = 1..n
        /\ n \in Nat
    BY PositionsAre DEF Saves
  <2>2. /\ DOMAIN r.positions = 1..n + 1
        /\ r.positions[n + 1] = op.position
        /\ \A i \in 1..n : r.positions[i] = s.positions[i]
    BY <1>2, <2>1, AppendProperties, LenProperties
  <2>3. \A i \in 1..n : beg[s.positions[i].id[1]] = 1
    BY <2>1 DEF Books
  <2>. HIDE DEF n
  <2>4. ASSUME NEW i \in 1..n + 1 PROVE beg[r.positions[i].id[1]] = 1
    <3>1. CASE i = n + 1
      BY <2>2, <3>1
    <3>2. CASE i # n + 1
      <4>1. i \in 1..n
        BY <2>1, <3>2
      <4>. QED BY <2>2, <2>3, <4>1
    <3>. QED BY <3>1, <3>2
  <2>. QED BY <2>2, <2>4
<1>12. \A q \in Opps \ r.pending : beg[q] = 1 => Cost(q, r) = spt[q]
  <2>. SUFFICES ASSUME NEW q \in Opps \ r.pending, beg[q] = 1 PROVE Cost(q, r) = spt[q]
    OBVIOUS
  <2>1. q # o /\ Cost(q, s) = spt[q] /\ Cost(q, s) \in Nat
    BY <1>2, MoneyTyped DEF Books
  <2>. QED BY <1>2, <2>1
<1>13. \A d \in Days : d > day => r.pnl[d] = 0
  BY <1>2 DEF Books
<1>14. Books(r, day, beg, spt)
  BY <1>7, <1>9, <1>11, <1>12, <1>13 DEF Books
<1>15. Means(r, saved, lost, o, day, spt)
  BY <1>7, <1>8, <1>10 DEF Means
<1>. QED BY <1>2, <1>14, <1>15 DEF r

(* A recovery sale that is booked. *)
LEMMA OwnPnl ==
  ASSUME NEW s \in Snapshot, NEW o \in Opps, NEW day \in Days, NEW beg, NEW spt \in [Opps -> Nat],
         NEW op \in Pnls, op.day = day, NEW saved \in Nat, NEW lost \in Nat,
         Books(s, day, beg, spt), Means(s, saved, LostBy(op) + lost, o, day, spt),
         o \in s.pending
  PROVE  LET r == Apply(op, s) IN
         Books(r, day, beg, spt) /\ Means(r, saved, lost, o, day, spt) /\ o \in r.pending
<1>. DEFINE r == Apply(op, s)
<1>1. r \in Snapshot
  BY ApplyTyped DEF AllCalls
<1>2. /\ r.positions = s.positions /\ r.pending = s.pending /\ op.amount \in Int
      /\ \A d \in Days \ {day} : r.pnl[d] = s.pnl[d]
      /\ r.pnl[day] \in {s.pnl[day], s.pnl[day] + op.amount}
  BY PnlMoney
<1>. HIDE DEF r
<1>3. Exposure(r) = Exposure(s) /\ \A q : Cost(q, r) = Cost(q, s)
  BY <1>2, SameMoney
<1>4. LostBy(op) \in Nat /\ op.amount >= -LostBy(op)
  BY <1>2 DEF LostBy, Pnls
<1>5. /\ Exposure(s) \in Nat /\ Worth(s, day) \in Int /\ Cost(o, s) \in Nat /\ s.pnl[day] \in Int
      /\ Worth(s, day) = s.pnl[day] - Exposure(s)
  BY MoneyTyped DEF Worth
<1>6. r.pnl[day] \in Int /\ Worth(r, day) \in Int /\ Worth(r, day) = r.pnl[day] - Exposure(s)
  BY <1>1, <1>3, MoneyTyped DEF Worth
<1>7. Worth(r, day) >= Worth(s, day) - LostBy(op)
  BY <1>2, <1>4, <1>5, <1>6
<1>8. /\ Exposure(s) + saved <= MaxTotalExposure
      /\ Worth(s, day) - saved - (LostBy(op) + lost) > Floor
      /\ Cost(o, s) + saved = spt[o]
  BY DEF Means
<1>9. Worth(r, day) - saved - lost > Floor
  BY <1>4, <1>5, <1>6, <1>7, <1>8, Bounds
<1>10. Worth(r, day) > Floor
  BY <1>6, <1>9, Bounds
<1>11. \A d \in Days : d > day => r.pnl[d] = 0
  <2>1. ~(day > day)
    BY DEF Days
  <2>. QED BY <1>2, <2>1 DEF Books
<1>12. Books(r, day, beg, spt)
  BY <1>2, <1>3, <1>10, <1>11 DEF Books
<1>13. Means(r, saved, lost, o, day, spt)
  BY <1>3, <1>8, <1>9 DEF Means
<1>. QED BY <1>2, <1>12, <1>13 DEF r

LEMMA OwnHead ==
  ASSUME NEW s \in Snapshot, NEW o \in Opps, NEW day \in Days, NEW beg, NEW spt \in [Opps -> Nat],
         NEW calls \in Seq(OwnCalls(o, day)), calls # <<>>,
         Books(s, day, beg, spt), Means(s, Saved(calls), Lost(calls), o, day, spt),
         beg[o] = 1, o \in s.pending
  PROVE  LET r == Apply(Head(calls), s) IN
         /\ Books(r, day, beg, spt) /\ o \in r.pending
         /\ Means(r, Saved(Tail(calls)), Lost(Tail(calls)), o, day, spt)
<1>. DEFINE x == Head(calls)
            saved == Saved(Tail(calls))
            lost == Lost(Tail(calls))
            r == Apply(x, s)
<1>1. /\ x \in OwnCalls(o, day) /\ Tail(calls) \in Seq(OwnCalls(o, day))
      /\ Saved(calls) = SavedBy(x) + saved /\ Lost(calls) = LostBy(x) + lost
  BY SavedNext
<1>2. /\ x \in AllCalls /\ x.call \in {"save", "pnl", "latch"}
      /\ x.call = "save" => x \in Saves /\ x.position.id[1] = o
      /\ x.call = "pnl" => x \in Pnls /\ x.day = day
  BY <1>1, OwnTyped
<1>3. saved \in Nat /\ lost \in Nat
  BY <1>1, CallsListed
<1>4. Means(s, SavedBy(x) + saved, LostBy(x) + lost, o, day, spt)
  BY <1>1
<1>. HIDE DEF x, saved, lost
<1>5. CASE x.call = "save"
  <2>1. SavedBy(x) = x.position.cost /\ LostBy(x) + lost = lost
    BY <1>3, <1>5 DEF SavedBy, LostBy
  <2>2. Means(s, x.position.cost + saved, lost, o, day, spt)
    BY <1>4, <2>1
  <2>. QED BY <1>2, <1>3, <1>5, <2>2, OwnSave DEF x, saved, lost
<1>6. CASE x.call = "pnl"
  <2>1. SavedBy(x) + saved = saved
    BY <1>3, <1>6 DEF SavedBy
  <2>2. Means(s, saved, LostBy(x) + lost, o, day, spt)
    BY <1>4, <2>1
  <2>. QED BY <1>2, <1>3, <1>6, <2>2, OwnPnl DEF x, saved, lost
<1>7. CASE x.call = "latch"
  <2>1. r.positions = s.positions /\ r.pnl = s.pnl /\ r.pending = s.pending
    BY <1>2, <1>7, NoMoney, Applied
  <2>2. SavedBy(x) + saved = saved /\ LostBy(x) + lost = lost
    BY <1>3, <1>7 DEF SavedBy, LostBy
  <2>. HIDE DEF r
  <2>3. Exposure(r) = Exposure(s) /\ Worth(r, day) = Worth(s, day) /\ Cost(o, r) = Cost(o, s)
    BY <2>1, SameMoney
  <2>4. Means(r, saved, lost, o, day, spt)
    BY <1>4, <2>2, <2>3 DEF Means
  <2>5. Books(r, day, beg, spt)
    BY <2>1, QuietBooks
  <2>. QED BY <2>1, <2>4, <2>5 DEF r, x, saved, lost
<1>. QED BY <1>2, <1>5, <1>6, <1>7

(* A settled position: its cost is no longer at risk, and what it brings   *)
(* is at least nothing.                                                    *)
LEMMA MergeHead ==
  ASSUME NEW s \in Snapshot, NEW day \in Days, NEW beg, NEW spt, Books(s, day, beg, spt),
         NEW i \in DOMAIN s.positions, s.positions[i].state = "paired"
  PROVE  LET r == Apply(Merge(i), s) IN
         Books(r, day, beg, spt) /\ Worth(r, day) + MergePnl(s.positions[i]) > Floor
<1>. DEFINE r == Apply(Merge(i), s)
            p == s.positions[i]
<1>1. /\ r.pnl = s.pnl /\ r.pending = s.pending
      /\ DOMAIN r.positions = DOMAIN s.positions
      /\ \A j \in DOMAIN s.positions : r.positions[j].id = s.positions[j].id
      /\ Exposure(r) = Exposure(s) - p.cost
      /\ \A o : Cost(o, r) = Cost(o, s)
  BY MergeMoney
<1>2. /\ p.cost \in Nat /\ Exposure(s) \in Nat /\ s.pnl[day] \in Int /\ p.shares * Share \in Nat
  <2>1. p \in Position
    BY PositionsAre
  <2>2. p.cost \in Nat /\ p.shares \in Nat /\ Share \in Nat
    BY <2>1, PaperAssumption DEF Position
  <2>. QED BY <2>2, MoneyTyped
<1>3. Worth(s, day) > Floor /\ Worth(s, day) = s.pnl[day] - Exposure(s) /\ Exposure(s) <= MaxTotalExposure
  BY DEF Books, Worth
<1>4. Worth(r, day) = r.pnl[day] - Exposure(r)
  BY DEF Worth
<1>. HIDE DEF r, p
<1>5. Worth(r, day) = Worth(s, day) + p.cost
  BY <1>1, <1>2, <1>3, <1>4
<1>6. Worth(s, day) \in Int
  BY MoneyTyped
<1>7. Worth(r, day) > Floor /\ Exposure(r) <= MaxTotalExposure
  BY <1>1, <1>2, <1>3, <1>5, <1>6, Bounds
<1>8. Books(r, day, beg, spt)
  BY <1>1, <1>7 DEF Books
<1>9. Worth(r, day) + MergePnl(p) > Floor
  <2>1. MergePnl(p) = p.shares * Share - p.cost
    BY DEF MergePnl
  <2>. QED BY <1>2, <1>3, <1>5, <1>6, <2>1, Bounds
<1>. QED BY <1>8, <1>9 DEF r, p

LEMMA PnlHead ==
  ASSUME NEW s \in Snapshot, NEW day \in Days, NEW beg, NEW spt, Books(s, day, beg, spt),
         NEW e \in Events, NEW amount \in Int, Worth(s, day) + amount > Floor
  PROVE  Books(Apply(Pnl(e, day, amount), s), day, beg, spt)
<1>. DEFINE op == Pnl(e, day, amount)
            r == Apply(op, s)
<1>1. op \in Pnls /\ op.day = day /\ op.amount = amount
  BY DEF Pnl, Pnls
<1>2. /\ r.positions = s.positions /\ r.pending = s.pending
      /\ \A d \in Days \ {day} : r.pnl[d] = s.pnl[d]
      /\ r.pnl[day] \in {s.pnl[day], s.pnl[day] + amount}
  <2>. HIDE DEF op
  <2>. QED BY <1>1, PnlMoney
<1>. HIDE DEF r
<1>3. Exposure(r) = Exposure(s) /\ \A o : Cost(o, r) = Cost(o, s)
  BY <1>2, SameMoney
<1>4. Worth(r, day) > Floor
  <2>1. Worth(s, day) > Floor /\ Exposure(s) \in Nat /\ s.pnl[day] \in Int
    BY MoneyTyped DEF Books
  <2>. QED BY <1>2, <1>3, <2>1 DEF Worth
<1>5. \A d \in Days : d > day => r.pnl[d] = 0
  <2>1. ~(day > day)
    BY DEF Days
  <2>. QED BY <1>2, <2>1 DEF Books
<1>. QED BY <1>2, <1>3, <1>4, <1>5 DEF Books, r

LEMMA RecoveryMoney ==
  ASSUME NEW o \in Opps, opp = o, today \in Days, NEW event \in Recoveries, NEW kind \in Kinds,
         NEW n \in 1..Quantity, NEW cost \in Nat, NEW sale \in Sales(n)
  PROVE  LET calls == RecoveryCalls(event, kind, n, cost, sale)
             recovered == RecoveredCost(n, cost, sale)
         IN  /\ calls \in Seq(OwnCalls(o, today))
             /\ Saved(calls) = cost - recovered /\ Lost(calls) <= recovered
<1>. DEFINE calls == RecoveryCalls(event, kind, n, cost, sale)
            recovered == RecoveredCost(n, cost, sale)
            S == OwnCalls(o, today)
            a == Pnl(<<opp, event>>, today, sale.got - recovered)
            b == Save(<<opp, kind>>, n - sale.shares, cost - recovered, "stranded")
            x == If(sale.shares > 0, <<a>>)
            y == If(sale.shares < n, <<b>>)
<1>1. recovered \in 0..cost /\ sale.shares \in 0..n /\ sale.got \in Nat /\ Quantity \in Nat
      /\ n \in Nat \ {0}
  BY Recovered, PaperAssumption
<1>2. calls = x \o y
  BY DEF RecoveryCalls
<1>3. a \in S /\ LostBy(a) <= recovered /\ SavedBy(a) = 0 /\ LostBy(a) \in Nat
  <2>1. <<opp, event>> \in Events /\ sale.got - recovered \in Int
    BY <1>1 DEF Events
  <2>2. a \in Pnls /\ a.day = today /\ a.call = "pnl" /\ a.amount = sale.got - recovered
    <3>. HIDE DEF recovered
    <3>. QED BY <2>1 DEF Pnls, Pnl
  <2>. HIDE DEF a, recovered
  <2>. QED BY <1>1, <2>2 DEF OwnCalls, LostBy, SavedBy
<1>4. sale.shares < n => b \in S /\ LostBy(b) = 0 /\ SavedBy(b) = cost - recovered
  <2>. SUFFICES ASSUME sale.shares < n PROVE b \in S /\ LostBy(b) = 0 /\ SavedBy(b) = cost - recovered
    OBVIOUS
  <2>1. n - sale.shares \in 1..Quantity /\ cost - recovered \in Nat /\ "stranded" \in PositionStates
        /\ <<opp, kind>> \in Ids
    BY <1>1 DEF PositionStates, Ids
  <2>2. /\ b.call = "save" /\ b.position.cost = cost - recovered /\ b.position.id[1] = o
        /\ b \in Saves
    <3>. HIDE DEF recovered
    <3>. QED BY <2>1 DEF Save, Saves, Position
  <2>. HIDE DEF b, recovered
  <2>. QED BY <2>2 DEF OwnCalls, LostBy, SavedBy
<1>5. sale.shares = n => recovered = cost
  <2>1. (cost * n + n - 1) \div n = cost
    <3>. DEFINE q == (cost * n + n - 1) \div n
                z == cost * n + n - 1
    <3>1. cost * n \in Nat /\ z \in Nat
      BY <1>1
    <3>2. q \in Int /\ n * q <= z /\ z < n * q + n
      BY <1>1, <3>1
    <3>3. n * q < n * (cost + 1) /\ n * cost < n * (q + 1)
      BY <1>1, <3>1, <3>2
    <3>4. q < cost + 1 /\ cost < q + 1
      BY <1>1, <3>2, <3>3
    <3>. QED BY <3>2, <3>4
  <2>. QED BY <2>1 DEF RecoveredCost, ProrateUp
<1>6. sale.shares = 0 => recovered \in Nat
  BY <1>1
<1>. HIDE DEF S, a, b, recovered
<1>7. /\ x \in Seq(S) /\ Saved(x) = 0 /\ Lost(x) <= recovered
      /\ Lost(x) \in Nat
  <2>1. CASE sale.shares > 0
    <3>1. x = <<a>>
      BY <2>1 DEF If
    <3>. QED BY <1>3, <3>1, OneCall, SavedOne DEF S
  <2>2. CASE ~(sale.shares > 0)
    <3>1. x = <<>>
      BY <2>2 DEF If
    <3>2. 0 <= recovered
      BY <1>1
    <3>3. x \in Seq(S) /\ Saved(x) = 0 /\ Lost(x) = 0
      BY <3>1, EmptySeq, SavedNone, Zenon
    <3>. QED BY <3>2, <3>3
  <2>. QED BY <2>1, <2>2
<1>8. y \in Seq(S) /\ Saved(y) = cost - recovered /\ Lost(y) = 0
  <2>1. CASE sale.shares < n
    <3>1. y = <<b>>
      BY <2>1 DEF If
    <3>. QED BY <1>4, <2>1, <3>1, OneCall, SavedOne DEF S
  <2>2. CASE ~(sale.shares < n)
    <3>1. y = <<>>
      BY <2>2 DEF If
    <3>2. cost - recovered = 0
      BY <1>1, <1>5, <2>2
    <3>. QED BY <3>1, <3>2, EmptySeq, SavedNone
  <2>. QED BY <2>1, <2>2
<1>. HIDE DEF x, y, calls
<1>9. calls \in Seq(S) /\ Saved(calls) = Saved(x) + Saved(y) /\ Lost(calls) = Lost(x) + Lost(y)
  BY <1>2, <1>7, <1>8, ConcatProperties, SavedSplit DEF S
<1>10. Saved(calls) = cost - recovered /\ Lost(calls) <= recovered
  BY <1>1, <1>7, <1>8, <1>9
<1>. QED BY <1>9, <1>10 DEF calls, recovered, S

-----------------------------------------------------------------------------
(* The steps keep the money. *)

(* The cycle's list of calls, at its end or before. *)
LEMMA CycleHead ==
  ASSUME NEW o, NEW S, NEW calls \in Seq(S), todo = Append(calls, Complete(o))
  PROVE  /\ calls = <<>> => Head(todo) = Complete(o) /\ Tail(todo) = <<>>
         /\ calls # <<>> => Head(todo) = Head(calls) /\ Tail(todo) = Append(Tail(calls), Complete(o))
  BY HeadTailAppend

LEMMA CompleteMoney ==
  ASSUME NEW s \in Snapshot, NEW o \in Opps
  PROVE  LET r == Apply(Complete(o), s) IN
         r.positions = s.positions /\ r.pnl = s.pnl /\ r.pending = s.pending \ {o}
<1>1. Apply(Complete(o), s) = [s EXCEPT !.pending = @ \ {o}]
  BY DEF Apply, Persists, Complete
<1>. QED BY <1>1 DEF Snapshot

LEMMA HeadBooks ==
  ASSUME Inv, Money, todo # <<>>
  PROVE  Books(Apply(Head(todo), mem), today, begun, spent)
<1>. DEFINE op == Head(todo)
            r == Apply(op, mem)
<1>1. /\ op \in Calls(phase, opp) /\ op \in AllCalls /\ mem # None /\ mem \in Snapshot
      /\ phase \in Phases /\ today \in Days /\ spent \in [Opps -> Nat]
      /\ phase = "cycle" => opp \in Opps
      /\ Books(mem, today, begun, spent)
  BY NextCall, Parts DEF Money
<1>2. CASE phase = "cycle"
  <2>1. PICK calls \in Seq(OwnCalls(opp, today)) :
            /\ todo = Append(calls, Complete(opp)) /\ opp \in mem.pending /\ begun[opp] = 1
            /\ Means(mem, Saved(calls), Lost(calls), opp, today, spent)
    BY <1>2 DEF Money, CycleOK
  <2>2. CASE calls # <<>>
    <3>1. op = Head(calls)
      BY <2>1, <2>2, CycleHead
    <3>. QED BY <1>1, <1>2, <2>1, <2>2, <3>1, OwnHead
  <2>3. CASE calls = <<>>
    <3>1. op = Complete(opp)
      BY <2>1, <2>3, CycleHead
    <3>2. r.positions = mem.positions /\ r.pnl = mem.pnl /\ r.pending = mem.pending \ {opp}
      BY <1>1, <1>2, <3>1, CompleteMoney
    <3>3. Cost(opp, mem) = spent[opp]
      BY <1>1, <1>2, <2>1, <2>3, SavedNone, MoneyTyped DEF Means
    <3>. HIDE DEF r
    <3>4. Exposure(r) = Exposure(mem) /\ Worth(r, today) = Worth(mem, today)
          /\ \A o : Cost(o, r) = Cost(o, mem)
      BY <3>2, SameMoney
    <3>5. \A o \in Opps \ r.pending : begun[o] = 1 => Cost(o, r) = spent[o]
      BY <1>1, <3>2, <3>3, <3>4 DEF Books
    <3>6. Books(r, today, begun, spent)
      BY <1>1, <3>2, <3>4, <3>5 DEF Books
    <3>. QED BY <3>6 DEF r
  <2>. QED BY <2>2, <2>3
<1>3. CASE phase = "settled"
  <2>1. \/ \E i \in DOMAIN mem.positions :
               mem.positions[i].state = "paired" /\ todo = SettleCalls(i)
        \/ \E e \in Events, amount \in Int :
               todo = <<Pnl(e, today, amount)>> /\ Worth(mem, today) + amount > Floor
    BY <1>3 DEF Money, SettledOK
  <2>2. CASE \E i \in DOMAIN mem.positions :
                 mem.positions[i].state = "paired" /\ todo = SettleCalls(i)
    <3>1. PICK i \in DOMAIN mem.positions :
                 mem.positions[i].state = "paired" /\ todo = SettleCalls(i)
      BY <2>2
    <3>2. op = Merge(i)
      BY <3>1 DEF SettleCalls
    <3>. QED BY <1>1, <3>1, <3>2, MergeHead
  <2>3. CASE \E e \in Events, amount \in Int :
                 todo = <<Pnl(e, today, amount)>> /\ Worth(mem, today) + amount > Floor
    <3>1. PICK e \in Events, amount \in Int :
                 todo = <<Pnl(e, today, amount)>> /\ Worth(mem, today) + amount > Floor
      BY <2>3
    <3>2. op = Pnl(e, today, amount)
      BY <3>1
    <3>. QED BY <1>1, <3>1, <3>2, PnlHead
  <2>. QED BY <2>1, <2>2, <2>3
<1>4. CASE phase \notin {"cycle", "settled"}
  <2>1. op.call \notin {"save", "merge", "pnl", "complete"}
    <3>1. op \in Rollovers \cup Latches(Reasons) \cup {Reconcile, Claim(opp)}
      BY <1>1, <1>4 DEF Calls, Latches, Reasons
    <3>. HIDE DEF op
    <3>. QED BY <3>1 DEF Rollovers, Latches, Reconcile, Claim
  <2>2. mem.pending \subseteq r.pending
    BY <1>1, <2>1, Applied
  <2>3. r.positions = mem.positions /\ r.pnl = mem.pnl
    BY <1>1, <2>1, NoMoney
  <2>. QED BY <1>1, <2>2, <2>3, QuietBooks
<1>. QED BY <1>2, <1>3, <1>4

LEMMA WriteMoney ==
  ASSUME Inv, Money, Write
  PROVE  Money'
<1>. DEFINE op == Head(todo)
<1>1. /\ todo # <<>> /\ mem' = Apply(op, mem) /\ disk' \in {disk, mem'} /\ todo' = Tail(todo)
      /\ UNCHANGED <<phase, opp, begun, spent, today>>
  BY DEF Write, environment
<1>2. /\ mem # None /\ mem \in Snapshot /\ phase \notin Resting /\ op \in Calls(phase, opp) /\ op \in AllCalls
      /\ today \in Days /\ spent \in [Opps -> Nat]
      /\ phase = "cycle" => opp \in Opps
      /\ Books(mem, today, begun, spent) /\ Books(disk, today, begun, spent)
  BY <1>1, NextCall, Parts DEF Money
<1>3. Books(mem', today', begun', spent')
  BY <1>1, HeadBooks
<1>4. Books(disk', today', begun', spent')
  BY <1>1, <1>2, <1>3
<1>5. CycleOK'
  <2>. SUFFICES ASSUME phase = "cycle"
                PROVE  /\ begun[opp] = 1
                       /\ \/ todo' = <<>>
                          \/ \E calls \in Seq(OwnCalls(opp, today)) :
                                 /\ todo' = Append(calls, Complete(opp)) /\ opp \in mem'.pending
                                 /\ Means(mem', Saved(calls), Lost(calls), opp, today, spent)
    BY <1>1 DEF CycleOK
  <2>1. PICK calls \in Seq(OwnCalls(opp, today)) :
            /\ todo = Append(calls, Complete(opp)) /\ opp \in mem.pending /\ begun[opp] = 1
            /\ Means(mem, Saved(calls), Lost(calls), opp, today, spent)
    BY <1>1 DEF Money, CycleOK
  <2>2. CASE calls = <<>>
    <3>1. todo' = <<>>
      BY <1>1, <2>1, <2>2, CycleHead
    <3>. QED BY <2>1, <3>1
  <2>3. CASE calls # <<>>
    <3>1. op = Head(calls) /\ todo' = Append(Tail(calls), Complete(opp))
      BY <1>1, <2>1, <2>3, CycleHead
    <3>2. opp \in mem'.pending /\ Means(mem', Saved(Tail(calls)), Lost(Tail(calls)), opp, today, spent)
      BY <1>1, <1>2, <2>1, <2>3, <3>1, OwnHead
    <3>3. Tail(calls) \in Seq(OwnCalls(opp, today))
      BY <2>3, HeadTailProperties
    <3>. QED BY <2>1, <3>1, <3>2, <3>3
  <2>. QED BY <2>2, <2>3
<1>6. FillsOK'
  <2>1. CASE phase = "claiming"
    <3>1. op.call = "claim"
      BY <1>2, <2>1 DEF Calls, Claim
    <3>2. mem'.pnl = mem.pnl
      BY <1>1, <1>2, <3>1, NoMoney
    <3>. QED BY <1>1, <2>1, <3>2 DEF Money, FillsOK, BelowDailyLoss, LossReached
  <2>2. CASE phase # "claiming"
    BY <1>1, <1>2, <2>2 DEF FillsOK, Resting
  <2>. QED BY <2>1, <2>2
<1>7. SettledOK'
  <2>. SUFFICES ASSUME phase = "settled"
                PROVE  \/ todo' = <<>>
                       \/ \E e \in Events, amount \in Int :
                              todo' = <<Pnl(e, today, amount)>> /\ Worth(mem', today) + amount > Floor
    BY <1>1 DEF SettledOK
  <2>1. \/ \E i \in DOMAIN mem.positions :
               mem.positions[i].state = "paired" /\ todo = SettleCalls(i)
        \/ \E e \in Events, amount \in Int : todo = <<Pnl(e, today, amount)>>
    BY <1>1 DEF Money, SettledOK
  <2>2. CASE \E i \in DOMAIN mem.positions :
                 mem.positions[i].state = "paired" /\ todo = SettleCalls(i)
    <3>1. PICK i \in DOMAIN mem.positions :
                 mem.positions[i].state = "paired" /\ todo = SettleCalls(i)
      BY <2>2
    <3>. DEFINE p == mem.positions[i]
    <3>2. op = Merge(i) /\ todo' = <<Pnl(p.id, today, MergePnl(p))>>
      BY <1>1, <3>1 DEF SettleCalls
    <3>3. Worth(mem', today) + MergePnl(p) > Floor
      BY <1>1, <1>2, <3>1, <3>2, MergeHead
    <3>4. p.id \in Events /\ MergePnl(p) \in Int
      <4>1. p \in Position
        BY <1>2, PositionsAre
      <4>2. p.id \in Ids /\ p.shares \in Nat /\ p.cost \in Nat /\ Share \in Nat
        BY <4>1, PaperAssumption DEF Position
      <4>. QED BY <4>2 DEF MergePnl, Events
    <3>. QED BY <3>2, <3>3, <3>4
  <2>3. CASE \E e \in Events, amount \in Int : todo = <<Pnl(e, today, amount)>>
    BY <1>1, <2>3
  <2>. QED BY <2>1, <2>2, <2>3
<1>. QED BY <1>3, <1>4, <1>5, <1>6, <1>7 DEF Money

(* A step into a phase that trades nothing. *)
LEMMA TurnMoney ==
  ASSUME phase' \notin {"settled", "market", "claiming", "fills", "cycle"},
         Books(disk', today', begun', spent'),
         mem' # None => Books(mem', today', begun', spent')
  PROVE  Money'
  BY DEF Money, CycleOK, FillsOK, SettledOK

LEMMA QuietMoney ==
  ASSUME Inv, Money, mem' \in {mem, disk, None}, UNCHANGED <<disk, today, begun, spent>>,
         phase' \notin {"settled", "market", "claiming", "fills", "cycle"}
  PROVE  Money'
<1>1. Books(disk', today', begun', spent')
  BY DEF Money
<1>2. mem' # None => Books(mem', today', begun', spent')
  BY DEF Money
<1>. QED BY <1>1, <1>2, TurnMoney

LEMMA FaultMoney ==
  ASSUME Inv, Money, Throw \/ FailedStart
  PROVE  Money'
<1>1. CASE Throw
  <2>1. /\ UNCHANGED <<begun, spent, today>> /\ mem # None
        /\ phase' \in {"aborting", "idle"}
        /\ \/ mem' = mem /\ disk' = disk
           \/ todo # <<>> /\ mem' = Apply(Head(todo), mem) /\ disk' \in {disk, mem'}
    BY <1>1, Parts DEF Throw, Thrown, Go, cycles
  <2>2. Books(mem', today', begun', spent')
    BY <2>1, HeadBooks DEF Money
  <2>3. Books(disk', today', begun', spent')
    BY <2>1, <2>2 DEF Money
  <2>. QED BY <2>1, <2>2, <2>3, TurnMoney
<1>2. CASE FailedStart
  <2>1. /\ UNCHANGED <<begun, spent, today>> /\ mem' = None /\ phase' = "down"
        /\ todo # <<>> /\ disk' \in {disk, Apply(Head(todo), mem)}
    BY <1>2 DEF FailedStart, Die, Go
  <2>2. Books(disk', today', begun', spent')
    BY <2>1, HeadBooks DEF Money
  <2>. QED BY <2>1, <2>2, TurnMoney
<1>. QED BY <1>1, <1>2

LEMMA SettleMoney ==
  ASSUME Inv, Money, Settle
  PROVE  Money'
<1>1. /\ UNCHANGED <<mem, disk, begun, spent, today>>
      /\ \/ phase' = "gate"
         \/ \E i \in Due(mem) : phase' = "settled" /\ todo' = SettleCalls(i)
  BY DEF Settle, Done, Go, cycles, environment
<1>2. CASE phase' = "gate"
  BY <1>1, <1>2, QuietMoney
<1>3. CASE \E i \in Due(mem) : phase' = "settled" /\ todo' = SettleCalls(i)
  <2>1. PICK i \in Due(mem) : phase' = "settled" /\ todo' = SettleCalls(i)
    BY <1>3
  <2>2. i \in DOMAIN mem.positions /\ mem.positions[i].state = "paired"
    BY DEF Due
  <2>3. SettleCalls(i)' = SettleCalls(i)
    BY <1>1 DEF SettleCalls
  <2>4. SettledOK'
    BY <1>1, <2>1, <2>2, <2>3 DEF SettledOK
  <2>5. CycleOK' /\ FillsOK'
    BY <2>1 DEF CycleOK, FillsOK
  <2>. QED BY <1>1, <2>4, <2>5 DEF Money
<1>. QED BY <1>1, <1>2, <1>3

LEMMA GateMoney ==
  ASSUME Inv, Money, Gate
  PROVE  Money'
<1>1. /\ UNCHANGED <<mem, disk, begun, spent, today>>
      /\ \/ phase' \in {"idle", "closing"}
         \/ phase' = "market" /\ BelowDailyLoss(mem)
  BY DEF Gate, Done, Go, cycles, environment
<1>2. CASE phase' \in {"idle", "closing"}
  BY <1>1, <1>2, QuietMoney
<1>3. CASE phase' = "market" /\ BelowDailyLoss(mem)
  <2>1. FillsOK' /\ CycleOK' /\ SettledOK'
    BY <1>1, <1>3 DEF FillsOK, CycleOK, SettledOK, BelowDailyLoss, LossReached
  <2>. QED BY <1>1, <2>1 DEF Money
<1>. QED BY <1>1, <1>2, <1>3

LEMMA TakeMoney ==
  ASSUME Inv, Money, NEW o \in Opps, TakeOpportunity(o)
  PROVE  Money'
<1>1. /\ phase = "market" /\ phase' = "claiming"
      /\ UNCHANGED <<mem, disk, begun, spent, today>>
  BY DEF TakeOpportunity, Done, Go, environment
<1>2. FillsOK' /\ CycleOK' /\ SettledOK'
  BY <1>1 DEF Money, FillsOK, CycleOK, SettledOK, BelowDailyLoss, LossReached
<1>. QED BY <1>1, <1>2 DEF Money

(* The cycle that begins has no position yet. *)
LEMMA BeginMoney ==
  ASSUME Inv, Money, Begin
  PROVE  Money'
<1>1. /\ phase = "claiming" /\ todo = <<>> /\ phase' = "fills" /\ todo' = <<>>
      /\ begun' = [begun EXCEPT ![opp] = @ + 1]
      /\ UNCHANGED <<mem, disk, opp, spent, today>>
  BY DEF Begin, Done, Go, environment
<1>2. /\ opp \in Opps /\ begun[opp] = 0 /\ opp \in mem.pending /\ mem = disk /\ mem # None
      /\ begun \in [Opps -> Nat] /\ mem \in Snapshot
  BY <1>1, Parts DEF Inv, Claiming
<1>3. begun'[opp] = 1 /\ \A o \in Opps \ {opp} : begun'[o] = begun[o]
  BY <1>1, <1>2
<1>4. Books(mem, today, begun, spent)
  BY <1>2 DEF Money
<1>5. \A i \in DOMAIN mem.positions :
          /\ mem.positions[i].id[1] \in Opps \ {opp}
          /\ begun'[mem.positions[i].id[1]] = 1
  BY <1>2, <1>3, <1>4, PositionsAre DEF Books
<1>6. \A o \in Opps \ mem.pending : begun'[o] = 1 => Cost(o, mem) = spent[o]
  BY <1>2, <1>3, <1>4 DEF Books
<1>7. Books(mem', today', begun', spent') /\ Books(disk', today', begun', spent')
  BY <1>1, <1>2, <1>4, <1>5, <1>6 DEF Books
<1>8. Cost(opp, mem) = 0
  <2>1. CostsOf(opp, mem) \in Seq(Int) /\ Len(CostsOf(opp, mem)) = Len(mem.positions)
        /\ DOMAIN mem.positions = 1..Len(mem.positions)
    BY <1>2, CostsAre, PositionsAre
  <2>2. \A i \in 1..Len(mem.positions) : CostsOf(opp, mem)[i] = 0
    BY <1>5, <2>1 DEF CostsOf
  <2>. QED BY <2>1, <2>2, TotalZero DEF Cost
<1>9. FillsOK'
  BY <1>1, <1>2, <1>3, <1>8 DEF Money, FillsOK, BelowDailyLoss, LossReached
<1>10. CycleOK' /\ SettledOK'
  BY <1>1 DEF CycleOK, SettledOK
<1>. QED BY <1>7, <1>9, <1>10 DEF Money

LEMMA CycleMoney ==
  ASSUME Inv, Money, phase = "fills", NEW calls \in Seq(OwnCalls(opp, today)),
         NEW cost \in Nat, NEW paid \in Nat, Cycle(calls, cost),
         Saved(calls) = cost, Saved(calls) + Lost(calls) <= paid,
         Exposure(mem) + paid <= MaxTotalExposure
  PROVE  Money'
<1>1. /\ phase' = "cycle" /\ todo' = Append(calls, Complete(opp))
      /\ spent' = [spent EXCEPT ![opp] = cost]
      /\ UNCHANGED <<mem, disk, opp, begun, today>>
  BY DEF Cycle, Go, environment
<1>2. /\ mem # None /\ mem \in Snapshot /\ opp \in Opps /\ spent \in [Opps -> Nat] /\ today \in Days
      /\ begun[opp] = 1 /\ opp \in mem.pending /\ Cost(opp, mem) = 0 /\ BelowDailyLoss(mem)
      /\ Books(mem, today, begun, spent) /\ Books(disk, today, begun, spent)
  BY Parts DEF Money, FillsOK
<1>3. opp \in disk.pending
  BY <1>2 DEF Inv, Claimed
<1>4. spent'[opp] = cost /\ \A o \in Opps \ {opp} : spent'[o] = spent[o]
  BY <1>1, <1>2
<1>5. ASSUME NEW s, Books(s, today, begun, spent), opp \in s.pending
      PROVE  Books(s, today, begun, spent')
  BY <1>4, <1>5 DEF Books
<1>6. Books(mem', today', begun', spent') /\ Books(disk', today', begun', spent')
  BY <1>1, <1>2, <1>3, <1>5
<1>7. Saved(calls) \in Nat /\ Lost(calls) \in Nat
  BY <1>2, CallsListed
<1>8. /\ Exposure(mem) \in Nat /\ mem.pnl[today] \in Int
      /\ Worth(mem, today) = mem.pnl[today] - Exposure(mem)
  BY <1>2, MoneyTyped DEF Worth
<1>9. mem.pnl[today] > -MaxDailyLoss
  BY <1>2, <1>8, Bounds DEF BelowDailyLoss, LossReached
<1>10. Means(mem, Saved(calls), Lost(calls), opp, today, spent')
  <2>1. Exposure(mem) + Saved(calls) <= MaxTotalExposure
    BY <1>7, <1>8, Bounds
  <2>2. Worth(mem, today) - Saved(calls) - Lost(calls) > Floor
    <3>1. Exposure(mem) + (Saved(calls) + Lost(calls)) <= MaxTotalExposure
      BY <1>7, <1>8, Bounds
    <3>2. mem.pnl[today] - (Exposure(mem) + (Saved(calls) + Lost(calls))) > Floor
      BY <1>7, <1>8, <1>9, <3>1, Bounds
    <3>. QED BY <1>7, <1>8, <3>2
  <2>3. Cost(opp, mem) + Saved(calls) = spent'[opp]
    BY <1>2, <1>4
  <2>. QED BY <2>1, <2>2, <2>3 DEF Means
<1>11. CycleOK'
  BY <1>1, <1>2, <1>10 DEF CycleOK
<1>12. FillsOK' /\ SettledOK'
  BY <1>1 DEF FillsOK, SettledOK
<1>. QED BY <1>6, <1>11, <1>12 DEF Money

LEMMA NonAtomicOwn ==
  ASSUME NEW o \in Opps, today \in Days
  PROVE  NonAtomic \in Seq(OwnCalls(o, today)) /\ Saved(NonAtomic) = 0 /\ Lost(NonAtomic) = 0
<1>. DEFINE x == Latch("non_atomic_leg_failure", today)
<1>1. x \in OwnCalls(o, today) /\ SavedBy(x) = 0 /\ LostBy(x) = 0
  BY DEF OwnCalls, Latches, Latch, SavedBy, LostBy
<1>2. NonAtomic = <<x>>
  BY DEF NonAtomic
<1>. HIDE DEF x
<1>. QED BY <1>1, <1>2, OneCall, SavedOne

LEMMA SaveOwn ==
  ASSUME NEW o \in Opps, NEW day \in Days, NEW kind \in Kinds, NEW shares \in 1..Quantity,
         NEW cost \in Nat, NEW state \in PositionStates
  PROVE  LET x == Save(<<o, kind>>, shares, cost, state) IN
         <<x>> \in Seq(OwnCalls(o, day)) /\ Saved(<<x>>) = cost /\ Lost(<<x>>) = 0
<1>. DEFINE x == Save(<<o, kind>>, shares, cost, state)
<1>1. /\ x \in Saves /\ x.call = "save" /\ x.position.cost = cost /\ x.position.id[1] = o
  BY DEF Save, Saves, Position, Ids
<1>. HIDE DEF x
<1>2. x \in OwnCalls(o, day) /\ SavedBy(x) = cost /\ LostBy(x) = 0
  BY <1>1 DEF OwnCalls, SavedBy, LostBy
<1>. QED BY <1>2, OneCall, SavedOne DEF x

LEMMA RejectedMoney ==
  ASSUME Inv, Money, FirstLegRejected
  PROVE  Money'
<1>. DEFINE calls == <<>>
<1>1. phase = "fills" /\ Cycle(calls, 0)
  BY DEF FirstLegRejected, Done
<1>2. mem # None /\ calls \in Seq(OwnCalls(opp, today)) /\ mem \in Snapshot
  BY <1>1, Parts, EmptySeq
<1>3. Exposure(mem) \in Nat /\ Exposure(mem) <= MaxTotalExposure
  BY <1>2, MoneyTyped DEF Money, Books
<1>4. Saved(calls) = 0 /\ Lost(calls) = 0
  BY SavedNone
<1>. HIDE DEF calls
<1>5. Exposure(mem) + 0 <= MaxTotalExposure /\ Saved(calls) + Lost(calls) <= 0 /\ 0 \in Nat
  BY <1>3, <1>4
<1>. QED BY <1>1, <1>2, <1>4, <1>5, CycleMoney

LEMMA FirstLegShortMoney ==
  ASSUME Inv, Money, FirstLegShort
  PROVE  Money'
<1>1. PICK yes \in Fills \ {NoFill} :
          /\ WithinCaps(yes.cost)
          /\ \E sale \in Sales(yes.shares) :
                 Cycle(RecoveryCalls("first-leg-recovery", "stranded-first", yes.shares, yes.cost, sale)
                         \o NonAtomic,
                       yes.cost - RecoveredCost(yes.shares, yes.cost, sale))
  BY DEF FirstLegShort
<1>2. PICK sale \in Sales(yes.shares) :
          Cycle(RecoveryCalls("first-leg-recovery", "stranded-first", yes.shares, yes.cost, sale)
                  \o NonAtomic,
                yes.cost - RecoveredCost(yes.shares, yes.cost, sale))
  BY <1>1
<1>. DEFINE n == yes.shares
            cost == yes.cost
            r == RecoveryCalls("first-leg-recovery", "stranded-first", n, cost, sale)
            c == RecoveredCost(n, cost, sale)
            S == OwnCalls(opp, today)
            calls == r \o NonAtomic
<1>3. phase = "fills" /\ opp \in Opps /\ today \in Days
  BY Parts DEF FirstLegShort, Done
<1>4. n \in 1..Quantity /\ cost \in Nat /\ sale \in Sales(n)
  BY FillsTyped
<1>5. Exposure(mem) + cost <= MaxTotalExposure
  BY <1>1 DEF WithinCaps
<1>6. Cycle(calls, cost - c)
  BY <1>2
<1>. HIDE DEF n, cost
<1>7. r \in Seq(S) /\ Saved(r) = cost - c /\ Lost(r) <= c
  <2>1. "first-leg-recovery" \in Recoveries /\ "stranded-first" \in Kinds
    BY DEF Recoveries, Kinds
  <2>. QED BY <1>3, <1>4, <2>1, RecoveryMoney
<1>8. NonAtomic \in Seq(S) /\ Saved(NonAtomic) = 0 /\ Lost(NonAtomic) = 0
  BY <1>3, NonAtomicOwn
<1>9. c \in 0..cost
  BY <1>4, Recovered
<1>. HIDE DEF r, c, S
<1>10. /\ calls \in Seq(S)
       /\ Saved(calls) = Saved(r) + Saved(NonAtomic)
       /\ Lost(calls) = Lost(r) + Lost(NonAtomic)
  BY <1>3, <1>7, <1>8, ConcatProperties, SavedSplit DEF S
<1>11. Saved(r) \in Nat /\ Lost(r) \in Nat
  BY <1>3, <1>7, CallsListed DEF S
<1>. HIDE DEF calls
<1>12. cost - c \in Nat /\ Saved(calls) = cost - c /\ Saved(calls) + Lost(calls) <= cost
  BY <1>4, <1>7, <1>8, <1>9, <1>10, <1>11
<1>13. calls \in Seq(OwnCalls(opp, today))
  BY <1>10 DEF S
<1>. QED BY <1>3, <1>4, <1>5, <1>6, <1>12, <1>13, CycleMoney

(* Fills of both legs, if the second is taken, stay within the caps. *)
LEMMA LegsWithinCaps ==
  ASSUME Inv, mem # None, NEW yes \in [shares : {Quantity}, cost : LegCosts], NEW fill \in Fills,
         WithinCaps(yes.cost)
  PROVE  LET no == SecondLeg(yes, fill) IN
         /\ yes.cost \in Nat /\ no.cost \in Nat /\ no.shares \in 0..Quantity
         /\ no.shares = 0 => no.cost = 0
         /\ Exposure(mem) + (yes.cost + no.cost) <= MaxTotalExposure
<1>. DEFINE no == SecondLeg(yes, fill)
<1>1. LegCosts \subseteq Nat /\ yes.cost \in LegCosts /\ NoFill \in Fills
  BY PaperAssumption DEF Fills
<1>2. no \in Fills
  BY <1>1, FillsTyped
<1>3. yes.cost \in Nat /\ no.cost \in Nat /\ no.shares \in 0..Quantity
  BY <1>1, <1>2, FillsTyped
<1>4. no.shares = 0 => no.cost = 0
  <2>1. no \in Fills \ {NoFill} => no.shares \in 1..Quantity
    BY FillsTyped
  <2>. HIDE DEF no
  <2>. QED BY <1>2, <2>1 DEF NoFill
<1>5. Exposure(mem) \in Nat /\ Exposure(mem) + yes.cost <= MaxTotalExposure
  BY Parts, MoneyTyped DEF WithinCaps
<1>6. no.cost > 0 => WithinCaps(yes.cost + no.cost)
  BY DEF SecondLeg, NoFill
<1>. HIDE DEF no
<1>7. Exposure(mem) + (yes.cost + no.cost) <= MaxTotalExposure
  <2>1. CASE no.cost > 0
    BY <1>6, <2>1 DEF WithinCaps
  <2>2. CASE ~(no.cost > 0)
    <3>1. no.cost = 0 /\ yes.cost + no.cost = yes.cost
      BY <1>3, <2>2
    <3>. QED BY <1>5, <3>1
  <2>. QED BY <2>1, <2>2
<1>. QED BY <1>3, <1>4, <1>7 DEF no

LEMMA SecondLegShortMoney ==
  ASSUME Inv, Money, SecondLegShort
  PROVE  Money'
<1>1. PICK yes \in [shares : {Quantity}, cost : LegCosts], fill \in Fills :
          LET no == SecondLeg(yes, fill)
              matchedCost == ProrateUp(yes.cost, no.shares, Quantity)
              excess == Quantity - no.shares
          IN  /\ WithinCaps(yes.cost) /\ excess > 0
              /\ \E sale \in Sales(excess) :
                     Cycle(If(no.shares > 0, <<Save(<<opp, "paired-partial">>, no.shares,
                                                    matchedCost + no.cost, "paired")>>)
                           \o RecoveryCalls("recovery", "stranded", excess, yes.cost - matchedCost, sale)
                           \o NonAtomic,
                           yes.cost + no.cost - RecoveredCost(excess, yes.cost - matchedCost, sale))
  BY DEF SecondLegShort
<1>. DEFINE no == SecondLeg(yes, fill)
            n == no.shares
            a == yes.cost
            b == no.cost
            matched == ProrateUp(a, n, Quantity)
            excess == Quantity - n
            source == a - matched
            p == Save(<<opp, "paired-partial">>, n, matched + b, "paired")
            S == OwnCalls(opp, today)
<1>2. phase = "fills" /\ opp \in Opps /\ today \in Days /\ mem # None
  BY Parts DEF SecondLegShort, Done
<1>3. /\ a \in Nat /\ b \in Nat /\ n \in 0..Quantity /\ (n = 0 => b = 0)
      /\ Exposure(mem) + (a + b) <= MaxTotalExposure
  BY <1>1, <1>2, LegsWithinCaps
<1>4. Quantity \in Nat \ {0} /\ matched \in 0..a
  BY <1>3, FillsTyped, Prorated
<1>5. n = 0 => matched = 0
  <2>1. (a * 0 + Quantity - 1) \div Quantity = 0
    BY <1>3, <1>4
  <2>. QED BY <2>1 DEF ProrateUp
<1>6. excess \in 1..Quantity
  BY <1>1, <1>3, <1>4
<1>7. PICK sale \in Sales(excess) :
          Cycle(If(n > 0, <<p>>) \o RecoveryCalls("recovery", "stranded", excess, source, sale)
                  \o NonAtomic,
                a + b - RecoveredCost(excess, source, sale))
  BY <1>1
<1>. DEFINE x == If(n > 0, <<p>>)
            r == RecoveryCalls("recovery", "stranded", excess, source, sale)
            c == RecoveredCost(excess, source, sale)
            calls == x \o r \o NonAtomic
<1>8. source \in Nat /\ matched + b \in Nat /\ source = a - matched
  <2>. HIDE DEF matched, a, b
  <2>. QED BY <1>3, <1>4
<1>. HIDE DEF no, n, a, b, matched, excess, source
<1>9. x \in Seq(S) /\ Saved(x) = matched + b /\ Lost(x) = 0
  <2>1. CASE n > 0
    <3>1. n \in 1..Quantity /\ x = <<p>>
      BY <1>3, <1>4, <2>1 DEF If
    <3>2. "paired-partial" \in Kinds /\ "paired" \in PositionStates
      BY DEF Kinds, PositionStates
    <3>3. <<p>> \in Seq(S) /\ Saved(<<p>>) = matched + b /\ Lost(<<p>>) = 0
      BY <1>2, <1>8, <3>1, <3>2, SaveOwn
    <3>. QED BY <3>1, <3>3
  <2>2. CASE ~(n > 0)
    <3>1. n = 0 /\ x = <<>>
      BY <1>3, <1>4, <2>2 DEF If
    <3>2. matched + b = 0
      BY <1>3, <1>5, <3>1
    <3>. QED BY <3>1, <3>2, EmptySeq, SavedNone, Zenon
  <2>. QED BY <2>1, <2>2
<1>10. r \in Seq(S) /\ Saved(r) = source - c /\ Lost(r) <= c /\ c \in 0..source
  <2>1. r \in Seq(S) /\ Saved(r) = source - c /\ Lost(r) <= c
    <3>1. "recovery" \in Recoveries /\ "stranded" \in Kinds
      BY DEF Recoveries, Kinds
    <3>. QED BY <1>2, <1>6, <1>8, <3>1, RecoveryMoney
  <2>2. c \in 0..source
    BY <1>6, <1>8, Recovered
  <2>. QED BY <2>1, <2>2
<1>11. NonAtomic \in Seq(S) /\ Saved(NonAtomic) = 0 /\ Lost(NonAtomic) = 0
  BY <1>2, NonAtomicOwn
<1>12. Cycle(calls, a + b - c)
  BY <1>7
<1>. HIDE DEF x, r, c, p
<1>13. x \o r \in Seq(S) /\ Saved(x \o r) = Saved(x) + Saved(r) /\ Lost(x \o r) = Lost(x) + Lost(r)
  BY <1>2, <1>9, <1>10, ConcatProperties, SavedSplit
<1>14. /\ calls \in Seq(S) /\ Saved(calls) = Saved(x \o r) + Saved(NonAtomic)
       /\ Lost(calls) = Lost(x \o r) + Lost(NonAtomic)
  BY <1>2, <1>11, <1>13, ConcatProperties, SavedSplit
<1>15. Saved(r) \in Nat /\ Lost(r) \in Nat
  BY <1>2, <1>10, CallsListed
<1>. HIDE DEF calls
<1>16. Saved(calls) = matched + b + (source - c) /\ Lost(calls) = Lost(r)
  BY <1>8, <1>9, <1>10, <1>11, <1>13, <1>14, <1>15
<1>17. matched \in Int /\ matched + b + (source - c) = a + b - c
  BY <1>3, <1>4, <1>8, <1>10
<1>18. a + b - c \in Nat /\ a + b \in Nat
  BY <1>3, <1>4, <1>8, <1>10
<1>19. Saved(calls) = a + b - c /\ Saved(calls) + Lost(calls) <= a + b
  <2>1. c \in Int
    BY <1>10
  <2>. QED BY <1>3, <1>10, <1>15, <1>16, <1>17, <2>1
<1>. QED BY <1>2, <1>3, <1>12, <1>14, <1>18, <1>19, CycleMoney

LEMMA BothLegsMoney ==
  ASSUME Inv, Money, BothLegs
  PROVE  Money'
<1>1. PICK yes \in [shares : {Quantity}, cost : LegCosts], fill \in [shares : {Quantity}, cost : LegCosts] :
          /\ WithinCaps(yes.cost)
          /\ Cycle(<<Save(<<opp, "paired">>, Quantity, yes.cost + SecondLeg(yes, fill).cost, "paired")>>,
                   yes.cost + SecondLeg(yes, fill).cost)
  BY DEF BothLegs
<1>. DEFINE cost == yes.cost + SecondLeg(yes, fill).cost
            x == Save(<<opp, "paired">>, Quantity, cost, "paired")
<1>2. phase = "fills" /\ opp \in Opps /\ today \in Days /\ mem # None
  BY Parts DEF BothLegs, Done
<1>3. fill \in Fills
  BY FillsTyped DEF Fills
<1>4. cost \in Nat /\ Exposure(mem) + cost <= MaxTotalExposure
  BY <1>1, <1>2, <1>3, LegsWithinCaps
<1>5. Cycle(<<x>>, cost)
  BY <1>1
<1>. HIDE DEF cost
<1>6. <<x>> \in Seq(OwnCalls(opp, today)) /\ Saved(<<x>>) = cost /\ Lost(<<x>>) = 0
  BY <1>2, <1>4, FillsTyped, SaveOwn DEF Kinds, PositionStates
<1>. HIDE DEF x
<1>7. Saved(<<x>>) + Lost(<<x>>) <= cost
  BY <1>4, <1>6
<1>. QED BY <1>2, <1>4, <1>5, <1>6, <1>7, CycleMoney

(* A new day has no result yet. *)
LEMMA NextDayMoney ==
  ASSUME Inv, Money, NextDay
  PROVE  Money'
<1>1. /\ today' = today + 1 /\ today \in Days /\ today' \in Days /\ phase \in {"down", "idle"}
      /\ UNCHANGED <<mem, disk, phase, begun, spent>>
  BY Parts, PaperAssumption DEF NextDay, Between, Days, cycles
<1>2. ASSUME NEW s \in Snapshot, Books(s, today, begun, spent)
      PROVE  Books(s, today', begun, spent)
  <2>1. s.pnl[today'] = 0
    <3>1. today' > today
      BY <1>1 DEF Days
    <3>. QED BY <1>1, <1>2, <3>1 DEF Books
  <2>2. Exposure(s) \in Nat /\ Exposure(s) <= MaxTotalExposure
    BY <1>2, MoneyTyped DEF Books
  <2>3. Worth(s, today') > Floor
    BY <2>1, <2>2, Bounds DEF Worth
  <2>4. \A d \in Days : d > today' => s.pnl[d] = 0
    <3>1. \A d \in Days : d > today' => d > today
      BY <1>1 DEF Days
    <3>. QED BY <1>2, <3>1 DEF Books
  <2>. QED BY <1>2, <2>3, <2>4 DEF Books
<1>3. disk \in Snapshot /\ (mem # None => mem \in Snapshot)
  BY DEF Inv, TypeOK, IsSnapshot
<1>4. Books(disk', today', begun', spent') /\ (mem' # None => Books(mem', today', begun', spent'))
  BY <1>1, <1>2, <1>3 DEF Money
<1>. QED BY <1>1, <1>4, TurnMoney

LEMMA InitMoney == Init => Money
<1>. SUFFICES ASSUME Init PROVE Money
  OBVIOUS
<1>1. /\ disk = Empty /\ mem = None /\ phase = "down" /\ today = 1
      /\ begun = [o \in Opps |-> 0]
  BY DEF Init
<1>2. 1 \in Days
  BY PaperAssumption DEF Days
<1>3. Empty.positions = <<>> /\ DOMAIN Empty.positions = {} /\ \A d \in Days : Empty.pnl[d] = 0
  BY DEF Empty
<1>4. Exposure(Empty) = 0
  <2>1. OpenCosts(Empty) = <<>>
    BY <1>3 DEF OpenCosts
  <2>. QED BY <2>1, TotalEmpty DEF Exposure
<1>5. Exposure(Empty) <= MaxTotalExposure /\ Worth(Empty, 1) > Floor
  BY <1>2, <1>3, <1>4, Bounds DEF Worth
<1>6. Books(Empty, 1, begun, spent)
  BY <1>1, <1>3, <1>5 DEF Books
<1>. QED BY <1>1, <1>6 DEF Money, CycleOK, FillsOK, SettledOK

LEMMA NextMoney == Inv /\ Money /\ [Next]_vars => Money'
<1>. SUFFICES ASSUME Inv, Money, [Next]_vars PROVE Money'
  OBVIOUS
<1>1. CASE Write \/ Settle \/ Gate \/ (\E o \in Opps : TakeOpportunity(o)) \/ Begin
  BY <1>1, WriteMoney, SettleMoney, GateMoney, TakeMoney, BeginMoney
<1>2. CASE FirstLegRejected \/ FirstLegShort \/ SecondLegShort \/ BothLegs
  BY <1>2, RejectedMoney, FirstLegShortMoney, SecondLegShortMoney, BothLegsMoney
<1>3. CASE Start \/ Scan \/ Opened \/ Settled \/ NoOpportunity \/ CycleDone \/ Close \/ Stop \/ Crash
  <2>1. /\ mem' \in {mem, disk, None} /\ UNCHANGED <<disk, today, begun, spent>>
        /\ phase' \notin {"settled", "market", "claiming", "fills", "cycle"}
    BY <1>3 DEF Start, Scan, Opened, Settled, NoOpportunity, CycleDone, Close, Stop, Crash, Die, Go,
                cycles, environment
  <2>. QED BY <2>1, QuietMoney
<1>4. CASE Throw \/ FailedStart
  BY <1>4, FaultMoney
<1>5. CASE NextDay
  BY <1>5, NextDayMoney
<1>6. CASE ToggleKillFile \/ Ripen
  <2>1. /\ mem' = mem /\ UNCHANGED <<disk, today, begun, spent>> /\ phase' \in {"down", "idle"}
    BY <1>6 DEF ToggleKillFile, Ripen, Between, cycles
  <2>. QED BY <2>1, QuietMoney
<1>7. CASE UNCHANGED vars
  <2>1. /\ UNCHANGED <<mem, disk, phase, todo, opp, today, begun, spent>>
    BY <1>7 DEF vars
  <2>2. CycleOK' /\ FillsOK' /\ SettledOK'
    BY <2>1 DEF Money, CycleOK, FillsOK, SettledOK, SettleCalls, BelowDailyLoss, LossReached
  <2>. QED BY <2>1, <2>2 DEF Money
<1>. QED BY <1>1, <1>2, <1>3, <1>4, <1>5, <1>6, <1>7 DEF Next, Engine

(* Open and stranded exposure never passes its ceiling, in memory or in    *)
(* the file, whatever the fills and the recovery sales came to.            *)
THEOREM ExposureStaysCapped == Spec => []ExposureCapped
<1>1. Money => ExposureCapped
  BY DEF Money, Books, ExposureCapped
<1>. QED BY InitInv, NextInv, InitMoney, NextMoney, <1>1, PTL DEF Spec

(* What the fills of a completed cycle cost is in its positions or was     *)
(* taken back by its sales: rounding up loses none of it.                  *)
THEOREM CostKept == Spec => []CostConserved
<1>1. Inv /\ Money => CostConserved
  <2>. SUFFICES ASSUME Inv, Money, phase = "idle", NEW o \in Opps, begun[o] > 0, o \notin Interrupted
                PROVE  spent[o] = Total(CostsOf(o, mem))
    BY DEF CostConserved
  <2>1. mem # None /\ begun \in [Opps -> Nat] /\ begun[o] <= 1 /\ o \notin disk.pending
    BY Parts DEF Interrupted, Inv, Claimed
  <2>2. begun[o] = 1
    BY <2>1
  <2>3. o \notin mem.pending
    BY <2>1, <2>2 DEF Inv, Claimed
  <2>. QED BY <2>1, <2>2, <2>3 DEF Money, Books, Cost
<1>. QED BY InitInv, NextInv, InitMoney, NextMoney, <1>1, PTL DEF Spec

(* The loss of the day and what is at risk together stay below the daily   *)
(* ceiling plus the exposure ceiling.                                      *)
THEOREM LossBounded == Spec => []LossAtRisk
<1>1. Money => LossAtRisk
  BY DEF Money, Books, Worth, Floor, LossAtRisk
<1>. QED BY InitInv, NextInv, InitMoney, NextMoney, <1>1, PTL DEF Spec
=============================================================================
