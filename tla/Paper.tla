-------------------------------- MODULE Paper --------------------------------
(***************************************************************************)
(* The paper trading node (polymarket_paper): PaperEngine::initialize and  *)
(* scan_once over a FileRepository.  The repository keeps a snapshot in    *)
(* memory, and every change of it is followed by persist(), which replaces *)
(* snapshot.json whole, and by a line of audit.  Either may throw: the     *)
(* memory is then ahead of the file, and the run loop goes on; or the      *)
(* process stops, and the memory is lost.                                  *)
(*                                                                         *)
(* What a repository call does is an operation in todo, the calls that the *)
(* engine is committed to: Write makes the next one, Throw is an exception *)
(* at it, and Crash can fall between any two.  The day and the kill file   *)
(* are read once, when a scan or a start begins, so they change between    *)
(* scans only.  Books are the fills they lead to: quantities are counted   *)
(* in shares and money in units, of which a matched pair is worth Share.   *)
(***************************************************************************)
EXTENDS Integers, FiniteSets, Sequences, SequencesExt

CONSTANTS Opps,         \* opportunity ids: market, both book hashes and quantity
          Quantity,     \* shares of an opportunity
          Share,        \* merge value of a share
          LegCosts,     \* what a fill of one leg may cost
          Proceeds,     \* what a recovery sale may bring, fee taken
          MaxPairGross, MaxTotalExposure, MaxDailyLoss,
          LastDay, MaxFaults, MaxFileChanges,   \* bounds
          None

ASSUME PaperAssumption ==
    /\ IsFiniteSet(Opps) /\ None \notin Opps
    /\ Quantity \in Nat \ {0} /\ Share \in Nat
    /\ LegCosts \subseteq Nat \ {0} /\ Proceeds \subseteq Nat
    /\ {MaxPairGross, MaxTotalExposure, MaxDailyLoss} \subseteq Nat \ {0}
    /\ LastDay \in Nat \ {0} /\ MaxFaults \in Nat /\ MaxFileChanges \in Nat

Days == 1..LastDay

VARIABLES mem,       \* the repository's snapshot_ and pnl_event_ids_, or None: not running
          disk,      \* snapshot.json
          phase,     \* where the engine is
          todo,      \* repository calls it is about to make
          opp,       \* the opportunity of the running cycle, or None
          today,     \* the UTC day
          killFile,  \* the kill-switch file exists
          sawFile,   \* ... as the running scan found it
          ripe,      \* positions whose settlement delay is over
          begun,     \* auxiliary: how often an opportunity's cycle was simulated
          spent,     \* auxiliary: what its fills cost, and the cost its sales took back
          faults, fileChanges

vars == <<mem, disk, phase, todo, opp, today, killFile, sawFile, ripe, begun, spent,
          faults, fileChanges>>

Phases == {"down", "starting", "idle", "opening", "settling", "settled", "gate", "market",
           "claiming", "fills", "cycle", "aborting", "closing"}
Reasons == {"operator", "daily_loss", "reconciliation_failure", "non_atomic_leg_failure"}
Kinds == {"paired", "paired-partial", "stranded", "stranded-first"}   \* position id suffixes
Recoveries == {"recovery", "first-leg-recovery"}                      \* PnL event suffixes
Ids == Opps \X Kinds
PositionStates == {"paired", "stranded", "merged"}

-----------------------------------------------------------------------------
(* The snapshot. *)

Empty == [claimed |-> {}, pending |-> {}, positions |-> <<>>, pnl |-> [d \in Days |-> 0],
          booked |-> {}, kill |-> None]

Position == [id : Ids, shares : 1..Quantity, cost : Nat, state : PositionStates]
Events == Ids \cup (Opps \X Recoveries)
Kill == [reason : Reasons, day : Days]
Snapshot == [claimed : SUBSET Opps, pending : SUBSET Opps, positions : Seq(Position),
             pnl : [Days -> Int], booked : SUBSET Events, kill : Kill \cup {None}]

ASSUME NoneAssumption == None \notin Opps \cup Kill \cup Snapshot

IsSnapshot(s) == s \in Snapshot /\ s.pending \subseteq s.claimed

(* The sum of a sequence of numbers. *)
Total(numbers) ==
    LET sum[i \in 0..Len(numbers)] == IF i = 0 THEN 0 ELSE sum[i - 1] + numbers[i]
    IN  sum[Len(numbers)]

(* Sum of the costs of the positions that are open or stranded. *)
OpenCosts(s) ==
    [i \in DOMAIN s.positions |-> IF s.positions[i].state = "merged" THEN 0 ELSE s.positions[i].cost]
Exposure(s) == Total(OpenCosts(s))

LossReached(s, day) == s.pnl[day] <= -MaxDailyLoss

(* prorate_up: part of total that falls on part of whole, rounded up. *)
ProrateUp(total, part, whole) == (total * part + whole - 1) \div whole

-----------------------------------------------------------------------------
(* The repository's calls. *)

Claim(o) == [call |-> "claim", opp |-> o]
Complete(o) == [call |-> "complete", opp |-> o]
Save(id, shares, cost, state) ==
    [call |-> "save", position |-> [id |-> id, shares |-> shares, cost |-> cost, state |-> state]]
Merge(i) == [call |-> "merge", index |-> i]
Pnl(event, day, amount) == [call |-> "pnl", event |-> event, day |-> day, amount |-> amount]
Latch(reason, day) == [call |-> "latch", reason |-> reason, day |-> day]
Rollover(day) == [call |-> "rollover", day |-> day]
Reconcile == [call |-> "reconcile"]

(* Mutant: any latch is lifted by a new day. *)
AnyEarlierDay(s, day) == s.kill # None /\ s.kill.day < day

IsRollover(s, day) == s.kill # None /\ s.kill.reason = "daily_loss" /\ s.kill.day < day

(* Whether a call changes the snapshot and so persists it. *)
Persists(op, s) ==
    CASE op.call = "pnl" -> op.event \notin s.booked
      [] op.call = "latch" -> s.kill = None
      [] op.call = "rollover" -> IsRollover(s, op.day)
      [] OTHER -> TRUE

Apply(op, s) ==
    IF ~Persists(op, s) THEN s
    ELSE CASE op.call = "claim" ->
                  [s EXCEPT !.claimed = @ \cup {op.opp}, !.pending = @ \cup {op.opp}]
           [] op.call = "complete" -> [s EXCEPT !.pending = @ \ {op.opp}]
           [] op.call = "save" -> [s EXCEPT !.positions = Append(@, op.position)]
           [] op.call = "merge" -> [s EXCEPT !.positions[op.index].state = "merged"]
           [] op.call = "pnl" -> [s EXCEPT !.booked = @ \cup {op.event}, !.pnl[op.day] = @ + op.amount]
           [] op.call = "latch" -> [s EXCEPT !.kill = [reason |-> op.reason, day |-> op.day]]
           [] op.call = "rollover" -> [s EXCEPT !.kill = None]
           [] op.call = "reconcile" -> s
(* A position is saved once, and only a pending opportunity is completed. *)
Refused(op, s) ==
    \/ op.call = "save" /\ \E i \in DOMAIN s.positions : s.positions[i].id = op.position.id
    \/ op.call = "complete" /\ op.opp \notin s.pending

-----------------------------------------------------------------------------
Init ==
    /\ mem = None /\ disk = Empty
    /\ phase = "down" /\ todo = <<>> /\ opp = None
    /\ today = 1 /\ killFile = FALSE /\ sawFile = FALSE /\ ripe = {}
    /\ begun = [o \in Opps |-> 0] /\ spent = [o \in Opps |-> 0]
    /\ faults = 0 /\ fileChanges = 0

environment == <<today, killFile, ripe, faults, fileChanges>>
cycles == <<opp, begun, spent>>

(* The engine's next calls, and the phase it is in when they are made. *)
Go(next, calls) == phase' = next /\ todo' = calls
If(condition, calls) == IF condition THEN calls ELSE <<>>

(* Mutant: an interrupted cycle is reconciled and not latched. *)
ForgetsPending(s, stop) ==
    <<Rollover(today)>> \o If(stop, <<Latch("operator", today)>>) \o <<Reconcile>>

(* initialize: load, lift yesterday's daily loss, obey the operator, and   *)
(* latch if a cycle was interrupted.                                       *)
StartCalls(s, stop) ==
    <<Rollover(today)>> \o If(stop, <<Latch("operator", today)>>)
        \o If(s.pending # {}, <<Latch("reconciliation_failure", today)>>) \o <<Reconcile>>

Start ==
    /\ phase = "down"
    /\ mem' = disk
    /\ \E startupKill \in BOOLEAN : Go("starting", StartCalls(disk, startupKill \/ killFile))
    /\ UNCHANGED <<disk, sawFile, cycles, environment>>

(* scan_once: the kill file is looked at before the day is. *)
Scan ==
    /\ phase = "idle"
    /\ sawFile' = killFile
    /\ Go("opening", If(killFile, <<Latch("operator", today)>>) \o <<Rollover(today)>>)
    /\ UNCHANGED <<mem, disk, cycles, environment>>

Stop ==
    /\ phase = "idle" /\ mem' = None
    /\ Go("down", <<>>)
    /\ UNCHANGED <<disk, sawFile, cycles, environment>>

(* The head of todo, done. *)
Write ==
    /\ todo # <<>>
    /\ LET op == Head(todo) IN
           /\ ~Refused(op, mem)
           /\ mem' = Apply(op, mem)
           /\ disk' = IF Persists(op, mem) THEN mem' ELSE disk
    /\ todo' = Tail(todo)
    /\ UNCHANGED <<phase, opp, sawFile, begun, spent, environment>>

(* All calls of a phase are made. *)
Done(from) == phase = from /\ todo = <<>>

(* settle_due takes the positions in order. *)
Due(s) == {i \in DOMAIN s.positions : s.positions[i].state = "paired" /\ s.positions[i].id \in ripe}
MergePnl(p) == p.shares * Share - p.cost

SettleCalls(i) ==
    LET p == mem.positions[i] IN <<Merge(i), Pnl(p.id, today, MergePnl(p))>>

(* Mutant: a latched node does not settle. *)
OpenedUnlatched ==
    /\ Done("opening") /\ Go(IF mem.kill = None THEN "settling" ELSE "gate", <<>>)
    /\ UNCHANGED <<mem, disk, sawFile, cycles, environment>>

Opened ==
    /\ Done("opening") /\ Go("settling", <<>>)
    /\ UNCHANGED <<mem, disk, sawFile, cycles, environment>>

Settle ==
    /\ Done("settling")
    /\ \/ Due(mem) = {} /\ Go("gate", <<>>)
       \/ \E i \in Due(mem) : (\A j \in Due(mem) : i <= j) /\ Go("settled", SettleCalls(i))
    /\ UNCHANGED <<mem, disk, sawFile, cycles, environment>>

Settled ==
    /\ Done("settled")
    /\ IF LossReached(mem, today) THEN Go("gate", <<Latch("daily_loss", today)>>)
                                  ELSE Go("settling", <<>>)
    /\ UNCHANGED <<mem, disk, sawFile, cycles, environment>>

(* Mutant: the loss of the day is looked at when a position settles only. *)
NoLossGate(s) == TRUE

BelowDailyLoss(s) == ~LossReached(s, today)

Gate ==
    /\ Done("gate")
    /\ \/ mem.kill # None /\ Go("idle", <<>>)
       \/ mem.kill = None /\ ~BelowDailyLoss(mem) /\ Go("closing", <<Latch("daily_loss", today)>>)
       \/ mem.kill = None /\ BelowDailyLoss(mem) /\ Go("market", <<>>)
    /\ UNCHANGED <<mem, disk, sawFile, cycles, environment>>

(* Mutant: only a cycle that is running is a duplicate. *)
NotPending(o) == o \notin mem.pending

NewClaim(o) == o \notin mem.claimed

(* evaluate_pair found an opportunity within the pair cap, the exposure    *)
(* stays within its cap, and it is claimed for the first time.             *)
TakeOpportunity(o) ==
    /\ Done("market")
    /\ \E allIn \in 1..MaxPairGross : Exposure(mem) + allIn <= MaxTotalExposure
    /\ NewClaim(o)
    /\ opp' = o /\ Go("claiming", <<Claim(o)>>)
    /\ UNCHANGED <<mem, disk, sawFile, begun, spent, environment>>

(* No market gives one: all are rejected, or claimed before. *)
NoOpportunity ==
    /\ Done("market")
    /\ Go("closing", <<Reconcile>>)
    /\ UNCHANGED <<mem, disk, sawFile, cycles, environment>>

Begin ==
    /\ Done("claiming")
    /\ begun' = [begun EXCEPT ![opp] = @ + 1]
    /\ Go("fills", <<>>)
    /\ UNCHANGED <<mem, disk, sawFile, opp, spent, environment>>

-----------------------------------------------------------------------------
(* simulate: what the two fills and the recovery sale lead to. *)

NoFill == [shares |-> 0, cost |-> 0]
Fills == {NoFill} \cup [shares : 1..Quantity, cost : LegCosts]
Sales(n) == {[shares |-> 0, got |-> 0]} \cup [shares : 1..n, got : Proceeds]

WithinCaps(cost) == cost <= MaxPairGross /\ Exposure(mem) + cost <= MaxTotalExposure

(* Mutant: the second fill is held to the cap of the pair only. *)
PairCapOnly(yes, no) == IF no.cost > 0 /\ yes.cost + no.cost > MaxPairGross THEN NoFill ELSE no

(* A second leg over a cap is not taken. *)
SecondLeg(yes, no) == IF no.cost > 0 /\ ~WithinCaps(yes.cost + no.cost) THEN NoFill ELSE no

(* Mutant: the cost taken back is taken to be what the sale brought. *)
ProceedsAsCost(n, cost, sale) == sale.got

RecoveredCost(n, cost, sale) == ProrateUp(cost, sale.shares, n)

(* Mutant: shares that are not sold back are dropped. *)
DropsStranded(event, kind, n, cost, sale) ==
    If(sale.shares > 0,
       <<Pnl(<<opp, event>>, today, sale.got - RecoveredCost(n, cost, sale))>>)

(* n shares that cost so much are sold back as far as the bids go. *)
RecoveryCalls(event, kind, n, cost, sale) ==
    LET recovered == RecoveredCost(n, cost, sale) IN
    If(sale.shares > 0, <<Pnl(<<opp, event>>, today, sale.got - recovered)>>)
    \o If(sale.shares < n, <<Save(<<opp, kind>>, n - sale.shares, cost - recovered, "stranded")>>)

NonAtomic == <<Latch("non_atomic_leg_failure", today)>>

Cycle(calls, cost) ==
    /\ Go("cycle", Append(calls, Complete(opp)))
    /\ spent' = [spent EXCEPT ![opp] = cost]
    /\ UNCHANGED <<mem, disk, sawFile, opp, begun, environment>>

(* The YES book is stale, or there is nothing to buy within the caps. *)
FirstLegRejected == Done("fills") /\ Cycle(<<>>, 0)

FirstLegShort ==
    /\ Done("fills")
    /\ \E yes \in Fills \ {NoFill} :
           /\ yes.shares < Quantity /\ WithinCaps(yes.cost)
           /\ \E sale \in Sales(yes.shares) :
                  Cycle(RecoveryCalls("first-leg-recovery", "stranded-first", yes.shares, yes.cost, sale)
                        \o NonAtomic,
                        yes.cost - RecoveredCost(yes.shares, yes.cost, sale))

SecondLegShort ==
    /\ Done("fills")
    /\ \E yes \in [shares : {Quantity}, cost : LegCosts], fill \in Fills :
           LET no == SecondLeg(yes, fill)
               matchedCost == ProrateUp(yes.cost, no.shares, Quantity)
               excess == Quantity - no.shares
           IN  /\ WithinCaps(yes.cost) /\ excess > 0
               /\ \E sale \in Sales(excess) :
                      Cycle(If(no.shares > 0, <<Save(<<opp, "paired-partial">>, no.shares,
                                                     matchedCost + no.cost, "paired")>>)
                            \o RecoveryCalls("recovery", "stranded", excess, yes.cost - matchedCost, sale)
                            \o NonAtomic,
                            yes.cost + no.cost - RecoveredCost(excess, yes.cost - matchedCost, sale))

BothLegs ==
    /\ Done("fills")
    /\ \E yes, fill \in [shares : {Quantity}, cost : LegCosts] :
           LET no == SecondLeg(yes, fill) IN
           /\ WithinCaps(yes.cost) /\ no.shares = Quantity
           /\ Cycle(<<Save(<<opp, "paired">>, Quantity, yes.cost + no.cost, "paired")>>,
                    yes.cost + no.cost)

CycleDone ==
    /\ Done("cycle") /\ opp' = None
    /\ Go("closing", <<Reconcile>>)
    /\ UNCHANGED <<mem, disk, sawFile, begun, spent, environment>>

(* The scan, or the start, or the handling of an exception, is over. *)
Close ==
    /\ phase \in {"closing", "starting", "aborting"} /\ todo = <<>>
    /\ opp' = None /\ Go("idle", <<>>)
    /\ UNCHANGED <<mem, disk, sawFile, begun, spent, environment>>

-----------------------------------------------------------------------------
(* Exceptions: a request or the call before the write throws (the memory   *)
(* is as it was), the write does (the memory is ahead), the audit does.    *)

Thrown ==
    \/ phase # "aborting" /\ UNCHANGED <<mem, disk>>
    \/ /\ todo # <<>> /\ ~Refused(Head(todo), mem) /\ Persists(Head(todo), mem)
       /\ mem' = Apply(Head(todo), mem)
       /\ disk' \in {disk, mem'}

(* In a cycle it is caught to latch the switch; a failed start ends the    *)
(* process; anything else ends the scan and is left to the next.           *)
Throw ==
    /\ phase \notin {"down", "idle"} /\ faults < MaxFaults
    /\ Thrown
    /\ faults' = faults + 1
    /\ \/ phase \in {"fills", "cycle"} /\ Go("aborting", <<Latch("reconciliation_failure", today)>>)
       \/ phase \notin {"fills", "cycle", "starting"} /\ Go("idle", <<>>)
    /\ UNCHANGED <<sawFile, cycles, today, killFile, ripe, fileChanges>>

Die == mem' = None /\ opp' = None /\ Go("down", <<>>) /\ faults' = faults + 1

FailedStart ==
    /\ phase = "starting" /\ todo # <<>> /\ faults < MaxFaults
    /\ disk' \in {disk, Apply(Head(todo), mem)}
    /\ Die
    /\ UNCHANGED <<sawFile, begun, spent, today, killFile, ripe, fileChanges>>

Crash ==
    /\ phase # "down" /\ faults < MaxFaults
    /\ Die
    /\ UNCHANGED <<disk, sawFile, begun, spent, today, killFile, ripe, fileChanges>>

-----------------------------------------------------------------------------
(* The world between scans. *)

Between == phase \in {"down", "idle"}

NextDay ==
    /\ Between /\ today < LastDay
    /\ today' = today + 1
    /\ UNCHANGED <<mem, disk, phase, todo, sawFile, cycles, killFile, ripe, faults, fileChanges>>

ToggleKillFile ==
    /\ Between /\ fileChanges < MaxFileChanges
    /\ killFile' = ~killFile /\ fileChanges' = fileChanges + 1
    /\ UNCHANGED <<mem, disk, phase, todo, sawFile, cycles, today, ripe, faults>>

Ripen ==
    /\ Between
    /\ \E p \in ToSet((IF mem = None THEN disk ELSE mem).positions) :
           p.state = "paired" /\ p.id \notin ripe /\ ripe' = ripe \cup {p.id}
    /\ UNCHANGED <<mem, disk, phase, todo, sawFile, cycles, today, killFile, faults, fileChanges>>

Engine ==
    \/ Start \/ Scan \/ Write \/ Opened \/ Settle \/ Settled \/ Gate
    \/ (\E o \in Opps : TakeOpportunity(o)) \/ NoOpportunity
    \/ Begin \/ FirstLegRejected \/ FirstLegShort \/ SecondLegShort \/ BothLegs \/ CycleDone \/ Close

Next ==
    \/ Engine \/ Stop
    \/ Throw \/ FailedStart \/ Crash
    \/ NextDay \/ ToggleKillFile \/ Ripen

Spec == Init /\ [][Next]_vars

(* A scan that is begun goes on, a node that is down is started again, a   *)
(* settlement delay passes, and the node is not stopped again and again    *)
(* before it scans.                                                        *)
FairSpec == Spec /\ WF_vars(Engine) /\ SF_vars(Scan) /\ SF_vars(Ripen)

-----------------------------------------------------------------------------
(* Types: both snapshots are well formed, whatever was written and lost. *)
TypeOK ==
    /\ mem = None \/ IsSnapshot(mem)
    /\ IsSnapshot(disk)
    /\ phase \in Phases /\ (phase = "down") = (mem = None)
    /\ opp \in Opps \cup {None}
    /\ phase \in {"claiming", "fills", "cycle"} => opp # None
    /\ today \in Days /\ killFile \in BOOLEAN /\ sawFile \in BOOLEAN /\ ripe \subseteq Ids
    /\ begun \in [Opps -> Nat] /\ spent \in [Opps -> Nat]
    /\ faults \in 0..MaxFaults /\ fileChanges \in 0..MaxFileChanges

(* README.md:103: "a process restart cannot submit the same paper cycle    *)
(* twice": over crashes and failed writes, no cycle is simulated twice.    *)
SimulatedOnce == \A o \in Opps : begun[o] <= 1

(* README.md:78: open and stranded exposure never passes its ceiling, in   *)
(* memory or in the file, however the fills came out.                      *)
ExposureCapped ==
    /\ mem # None => Exposure(mem) <= MaxTotalExposure
    /\ Exposure(disk) <= MaxTotalExposure

(* A cycle that was begun and is not completed in the file, by crashes and *)
(* exceptions anywhere, leaves the switch latched for good before the node *)
(* trades again: never unlatched, and never under the reason that a new    *)
(* day lifts.                                                              *)
Interrupted == {o \in Opps : begun[o] > 0 /\ o \in disk.pending}
InterruptedIsLatched ==
    phase \in {"idle", "opening", "gate", "market"} /\ Interrupted # {} =>
        mem.kill # None /\ mem.kill.reason # "daily_loss"

CostsOf(o, s) ==
    [i \in DOMAIN s.positions |-> IF s.positions[i].id[1] = o THEN s.positions[i].cost ELSE 0]

(* What the fills of a completed cycle cost is in its positions or was     *)
(* taken back by its sales: no rounding and no partial fill loses any.     *)
CostConserved ==
    phase = "idle" =>
        \A o \in Opps : begun[o] > 0 /\ o \notin Interrupted =>
            spent[o] = Total(CostsOf(o, mem))

(* The loss booked for the day and what is at risk together stay below     *)
(* the daily ceiling plus the exposure ceiling: the scan looks at the loss *)
(* before every cycle, so a day cannot go on losing beyond what was open.  *)
LossAtRisk ==
    mem # None => mem.pnl[today] - Exposure(mem) > -(MaxDailyLoss + MaxTotalExposure)

(* README.md:83: a switch that a non-atomic failure, or anything but the   *)
(* daily loss, latched "does not auto-clear", in the file, over days,      *)
(* restarts and lost writes.                                               *)
LatchSticks ==
    [][disk.kill # None /\ disk.kill.reason # "daily_loss" => disk'.kill = disk.kill]_vars

(* A paired position that is in the file is merged at last, also when the  *)
(* switch is latched: settle_due comes before the switch is looked at.     *)
Has(s, o, state) == \E p \in ToSet(s.positions) : p.id[1] = o /\ p.state = state
PairsSettle ==
    \A o \in Opps : Has(disk, o, "paired") ~> (mem # None /\ Has(mem, o, "merged"))

(* README.md:162: a kill-switch file that exists latches at runtime: no    *)
(* cycle runs in a scan that found the file.                               *)
KillFileObeyed == phase \in {"fills", "cycle"} => ~sawFile

(* README.md:58-60: a merged position's profit is written to realized PnL. *)
MergedIsBooked ==
    phase = "idle" => \A p \in ToSet(mem.positions) : p.state = "merged" => p.id \in mem.booked

=============================================================================
