--------------------------- MODULE TaskChainProofs ---------------------------
(* Theorems about TaskChain, for every value of its constants. *)
EXTENDS TaskChain, TLAPS

-----------------------------------------------------------------------------
(* The inductive invariant. *)

(* A hop is counted after its round, so the rounds bound the hops. *)
Counted ==
    /\ minted <= flights
    /\ flight # None =>
           /\ flight.hops <= flight.rounds + 1
           /\ flight.pc \notin {"round", "final", "error"} => flight.hops <= flight.rounds
           /\ flight.pc = "exec" => flight.calls > 0
           /\ flight.pc = "batch" => ~flight.native

(* A task id is given once: what is above minted has no history. *)
Minted ==
    /\ doc # None => doc.task <= minted
    /\ flight # None => flight.task <= minted
    /\ \A t \in Tasks : t > minted => executed[t] = 0 /\ t \notin failed \cup cancelled

(* The ledger of the flight's own task is open and asks the same question. *)
SameTask ==
    flight # None /\ doc # None /\ doc.task = flight.task =>
        doc.goal = flight.goal /\ doc.status \in {"running", "cancelled"}

(* From the save before a hop to its end the ledger names the task. *)
Named ==
    flight # None /\ flight.pc \in {"call", "exec", "batch"} =>
        doc # None /\ doc.task = flight.task

(* Whoever acts for a cancelled task finds it cancelled in the ledger. *)
CancelledSeen ==
    /\ doc # None /\ doc.task \in cancelled => doc.status = "cancelled"
    /\ flight # None /\ flight.task \in cancelled =>
           doc # None /\ doc.task = flight.task /\ doc.status = "cancelled"

(* The one late call is over, and no place before another is reached. *)
LateOnce ==
    /\ late \in {0, 1}
    /\ flight # None /\ late = 1 =>
           flight.task \in cancelled /\ flight.pc \notin {"before", "exec", "batch"}

(* A flight that saw all of its task knows its calls and their failures. *)
RowsKnown ==
    flight # None /\ flight.complete =>
        /\ flight.omitted \/ flight.rows = executed[flight.task]
        /\ flight.ok => flight.task \notin failed

Inv ==
    /\ TypeOK /\ Counted /\ Minted /\ SameTask /\ Named
    /\ CancelledSeen /\ LateOnce /\ RowsKnown /\ HistoryHonest

-----------------------------------------------------------------------------
(* Type correctness, with the counters it rests on. *)

LEMMA SavedTyped ==
  ASSUME NEW f \in Flight, NEW status \in Statuses, doc \in Doc \cup {None}, Save(f, status)
  PROVE  doc' \in Doc \cup {None}
  BY DEF Save, Doc, Flight

(* A move changes the place of a flight, and gives up its success at most. *)
Steady(f, g) ==
    /\ g \in Flight
    /\ g.task = f.task /\ g.goal = f.goal
    /\ g.hops = f.hops /\ g.rounds = f.rounds /\ g.calls = f.calls /\ g.native = f.native
    /\ g.rows = f.rows /\ g.omitted = f.omitted /\ g.complete = f.complete
    /\ g.ok \in {f.ok, FALSE}

LEMMA MovedSteady ==
  ASSUME NEW f \in Flight, NEW pc \in Pcs, NEW g,
         \/ g = [f EXCEPT !.pc = pc]
         \/ g = [f EXCEPT !.pc = pc, !.ok = FALSE]
         \/ g = [f EXCEPT !.pc = pc, !.stopped = TRUE]
  PROVE  Steady(f, g) /\ g.pc = pc /\ g # None
<1>1. CASE g = [f EXCEPT !.pc = pc]
  BY <1>1, NoneAssumption DEF Flight, Steady
<1>2. CASE g = [f EXCEPT !.pc = pc, !.ok = FALSE]
  BY <1>2, NoneAssumption, ZenonT(40) DEF Flight, Steady
<1>3. CASE g = [f EXCEPT !.pc = pc, !.stopped = TRUE]
  BY <1>3, NoneAssumption DEF Flight, Steady
<1>. QED BY <1>1, <1>2, <1>3

LEMMA FlightThere == ASSUME TypeOK, NEW pc, At(pc)
                     PROVE  flight \in Flight /\ flight # None /\ flight.pc = pc
  BY DEF At, TypeOK

(* Where the flight goes when it only moves. *)
Move(from, tos) ==
    /\ flight \in Flight /\ flight # None /\ flight.pc = from
    /\ Steady(flight, flight') /\ flight'.pc \in tos /\ flight' # None

(* The flight after the model asked for tools. *)
Asked ==
    /\ flight \in Flight /\ flight # None /\ flight.pc = "round"
    /\ flight' \in Flight /\ flight' # None /\ flight'.pc = "check"
    /\ flight'.task = flight.task /\ flight'.goal = flight.goal
    /\ flight'.hops = flight.hops /\ flight'.rounds = flight.rounds + 1
    /\ flight'.rows = flight.rows /\ flight'.omitted = flight.omitted
    /\ flight'.complete = flight.complete /\ flight'.ok = flight.ok

LEMMA Moves ==
  ASSUME TypeOK
  PROVE  /\ Check => Move("check", {IF Cancelled(flight.goal) THEN "final" ELSE "before"})
         /\ Before => Move("before", {IF flight.native THEN "call" ELSE "batch"})
         /\ Call => Move("call", {IF flight.calls = 0 \/ Cancelled(flight.goal)
                                 THEN "hopdone" ELSE "exec"})
         /\ HopDone => Move("hopdone", {IF Cancelled(flight.goal) THEN "final" ELSE "after"})
         /\ Round => Move("round", {"final", "error"}) \/ Asked
<1>1. ASSUME NEW pc \in Pcs, Goto(pc), flight \in Flight
      PROVE  Steady(flight, flight') /\ flight'.pc = pc /\ flight' # None
  BY <1>1, MovedSteady DEF Goto
<1>2. ASSUME Stopped, flight \in Flight
      PROVE  Steady(flight, flight') /\ flight'.pc = "final" /\ flight' # None
  <2>1. "final" \in Pcs
    BY DEF Pcs
  <2>. QED BY <1>2, <2>1, NoneAssumption DEF Stopped, Steady, Flight
<1>3. Check => Move("check", {IF Cancelled(flight.goal) THEN "final" ELSE "before"})
  <2>. SUFFICES ASSUME Check PROVE Move("check", {IF Cancelled(flight.goal) THEN "final" ELSE "before"})
    OBVIOUS
  <2>1. flight \in Flight /\ flight # None /\ flight.pc = "check" /\ "before" \in Pcs
    BY FlightThere DEF Check, Pcs
  <2>. QED BY <1>1, <1>2, <2>1 DEF Check, Move
<1>4. Before => Move("before", {IF flight.native THEN "call" ELSE "batch"})
  <2>. SUFFICES ASSUME Before PROVE Move("before", {IF flight.native THEN "call" ELSE "batch"})
    OBVIOUS
  <2>1. flight \in Flight /\ flight # None /\ flight.pc = "before" /\ {"call", "batch"} \subseteq Pcs
    BY FlightThere DEF Before, Pcs
  <2>. QED BY <1>1, <2>1 DEF Before, Move
<1>5. Call => Move("call", {IF flight.calls = 0 \/ Cancelled(flight.goal)
                          THEN "hopdone" ELSE "exec"})
  <2>. SUFFICES ASSUME Call
                PROVE  Move("call", {IF flight.calls = 0 \/ Cancelled(flight.goal)
                                     THEN "hopdone" ELSE "exec"})
    OBVIOUS
  <2>1. flight \in Flight /\ flight # None /\ flight.pc = "call" /\ {"hopdone", "exec"} \subseteq Pcs
    BY FlightThere DEF Call, Pcs
  <2>2. CASE flight.calls = 0
    BY <1>1, <2>1, <2>2 DEF Call, Move
  <2>4. CASE flight.calls # 0 /\ ~Cancelled(flight.goal)
    BY <1>1, <2>1, <2>4 DEF Call, NextCall, Move
  <2>3. CASE flight.calls # 0 /\ Cancelled(flight.goal)
    <3>1. flight' = [flight EXCEPT !.pc = "hopdone", !.ok = FALSE]
      BY <2>3 DEF Call, NextCall
    <3>. QED BY <2>1, <2>3, <3>1, NoneAssumption, ZenonT(40) DEF Move, Steady, Flight
  <2>. QED BY <2>2, <2>3, <2>4
<1>6. HopDone => Move("hopdone", {IF Cancelled(flight.goal) THEN "final" ELSE "after"})
  <2>. SUFFICES ASSUME HopDone PROVE Move("hopdone", {IF Cancelled(flight.goal) THEN "final" ELSE "after"})
    OBVIOUS
  <2>1. flight \in Flight /\ flight # None /\ flight.pc = "hopdone" /\ "after" \in Pcs
    BY FlightThere DEF HopDone, Pcs
  <2>. QED BY <1>1, <1>2, <2>1 DEF HopDone, Move
<1>7. Round => Move("round", {"final", "error"}) \/ Asked
  <2>. SUFFICES ASSUME Round PROVE Move("round", {"final", "error"}) \/ Asked
    OBVIOUS
  <2>1. flight \in Flight /\ flight # None /\ flight.pc = "round" /\ {"final", "error"} \subseteq Pcs
    BY FlightThere DEF Round, Pcs
  <2>2. CASE Goto("final") \/ Goto("error")
    BY <1>1, <2>1, <2>2 DEF Move
  <2>3. ASSUME flight.rounds < MaxRounds, NEW native \in BOOLEAN,
               NEW n \in 1..(IF native THEN MaxCalls ELSE 1),
               flight' = [flight EXCEPT !.pc = "check", !.rounds = NextRound(flight),
                                        !.native = native, !.calls = n]
        PROVE  Asked
    <3>1. n \in 0..MaxCalls /\ flight.rounds + 1 \in 0..MaxRounds
      BY <2>1, <2>3, ChainAssumption DEF Flight
    <3>2. flight' \in Flight
      BY <2>1, <2>3, <3>1 DEF Flight, Pcs, NextRound
    <3>. QED BY <2>1, <2>3, <3>2, NoneAssumption DEF Flight, NextRound, Asked
  <2>. QED BY <2>2, <2>3 DEF Round, NothingUsable
<1>. QED BY <1>3, <1>4, <1>5, <1>6, <1>7

LEMMA BeginTyped ==
  ASSUME TypeOK, Counted, NEW goal \in Goals, Begin(goal)
  PROVE  TypeOK' /\ Counted'
<1>. DEFINE resumed == IsStatus("running") /\ doc.goal = goal
            task == IF resumed THEN doc.task ELSE minted + 1
<1>1. task \in Tasks
  BY ChainAssumption DEF TypeOK, Counted, Begin, IsStatus, Doc, Tasks
<1>2. PICK observed \in BOOLEAN, retained \in BOOLEAN, legacy \in BOOLEAN :
        flight' = [pc |-> "round", task |-> task, goal |-> goal,
                   hops |-> IF observed THEN 1 ELSE 0, rounds |-> 0, calls |-> 0,
                   native |-> FALSE, ledger |-> observed, rows |-> 0, omitted |-> FALSE,
                   complete |-> WholeHistory(resumed),
                   ok |-> (resumed => doc.ok) /\ (observed => retained),
                   stopped |-> FALSE, legacy |-> legacy]
  BY DEF Begin
<1>3. ((resumed => doc.ok) /\ (observed => retained)) \in BOOLEAN
      /\ WholeHistory(resumed) \in BOOLEAN
  BY DEF TypeOK, IsStatus, Doc, WholeHistory
<1>4. flight' \in Flight
  BY <1>1, <1>2, <1>3, ChainAssumption DEF Flight, Pcs
<1>. QED BY <1>2, <1>4, ChainAssumption DEF Begin, TypeOK, Counted

LEMMA ExecuteFlight ==
  ASSUME TypeOK, Counted, NEW good \in BOOLEAN,
         NEW next \in {"call", "after", "final", "error"}, Execute(1, good, next),
         \/ At("exec") /\ next = "call"
         \/ At("batch") /\ next # "call"
  PROVE  flight' \in Flight
<1>1. flight \in Flight /\ flight # None
  BY DEF At, TypeOK
<1>2. flight.native => flight.calls - 1 \in 0..MaxCalls
  BY <1>1, ChainAssumption DEF At, Counted, Flight
<1>3. (IF flight.native THEN flight.calls - 1 ELSE 0) \in 0..MaxCalls
  BY <1>2, ChainAssumption
<1>4. (IF flight.rows < MaxRows THEN flight.rows + 1 ELSE flight.rows) \in 0..MaxRows
  BY <1>1, ChainAssumption DEF Flight
<1>5. (flight.omitted \/ flight.rows = MaxRows) \in BOOLEAN /\ (flight.ok /\ good) \in BOOLEAN
  OBVIOUS
<1>6. next \in Pcs
  BY DEF Pcs
<1>. QED BY <1>1, <1>3, <1>4, <1>5, <1>6, ZenonT(40) DEF Execute, Flight

LEMMA ExecuteTyped ==
  ASSUME TypeOK, Counted, NEW good \in BOOLEAN,
         NEW next \in {"call", "after", "final", "error"}, Execute(1, good, next),
         \/ At("exec") /\ next = "call"
         \/ At("batch") /\ next # "call"
  PROVE  TypeOK' /\ Counted'
<1>1. flight \in Flight /\ flight # None
  BY DEF At, TypeOK
<1>3. flight' \in Flight
  BY ExecuteFlight
<1>4. executed' \in [Tasks -> Nat] /\ failed' \subseteq Tasks /\ late' \in Nat
  BY <1>1 DEF Execute, TypeOK, Flight
<1>5. flight'.native = flight.native /\ flight'.pc = next
      /\ flight'.hops = flight.hops /\ flight'.rounds = flight.rounds
  BY <1>1 DEF Execute, Flight
<1>6. flight.native = (next = "call")
  BY <1>1 DEF At, TypeOK, Counted, Flight
<1>. QED BY <1>1, <1>3, <1>4, <1>5, <1>6, ChainAssumption
         DEF Execute, TypeOK, Counted, idle, At, Flight

LEMMA MoveTyped ==
  ASSUME TypeOK, Counted, UNCHANGED <<idle, history>>, doc' \in Doc \cup {None},
         \/ Asked
         \/ Move("round", {"final", "error"})
         \/ Move("check", {"final", "before"})
         \/ Move("before", {IF flight.native THEN "call" ELSE "batch"})
         \/ Move("call", {IF flight.calls = 0 THEN "hopdone" ELSE "exec"})
         \/ Move("call", {"hopdone"})
         \/ Move("hopdone", {"final", "after"})
  PROVE  TypeOK' /\ Counted'
<1>. flight.hops \in Nat /\ flight.rounds \in Nat /\ flight.calls \in Nat
  BY ChainAssumption DEF Asked, Move, Flight
<1>1. CASE Asked
  <2>1. TypeOK'
    BY <1>1 DEF Asked, TypeOK, idle, history
  <2>2. Counted'
    BY <1>1 DEF Asked, Counted, idle, Flight
  <2>. QED BY <2>1, <2>2
<1>2. CASE Move("before", {IF flight.native THEN "call" ELSE "batch"})
  BY <1>2 DEF Move, Steady, TypeOK, Counted, idle, history
<1>3. CASE \/ Move("call", {IF flight.calls = 0 THEN "hopdone" ELSE "exec"})
           \/ Move("call", {"hopdone"})
  <2>1. flight.native /\ flight'.native = flight.native /\ flight'.calls = flight.calls
        /\ (flight'.pc = "exec" => flight.calls # 0) /\ flight'.pc # "batch"
        /\ flight'.hops = flight.hops /\ flight'.rounds = flight.rounds
        /\ flight # None /\ flight.pc = "call"
    BY <1>3 DEF Move, Steady, TypeOK
  <2>2. TypeOK'
    BY <1>3, <2>1 DEF Move, Steady, TypeOK, idle, history
  <2>3. Counted'
    BY <2>1 DEF Counted, idle
  <2>. QED BY <2>2, <2>3
<1>4. CASE \/ Move("round", {"final", "error"}) \/ Move("check", {"final", "before"})
           \/ Move("hopdone", {"final", "after"})
  BY <1>4 DEF Move, Steady, TypeOK, Counted, idle, history
<1>. QED BY <1>1, <1>2, <1>3, <1>4

LEMMA TypeStep == TypeOK /\ Counted /\ [Next]_vars => TypeOK' /\ Counted'
<1>. SUFFICES ASSUME TypeOK, Counted, [Next]_vars PROVE TypeOK' /\ Counted'
  OBVIOUS
<1>. USE ChainAssumption
<1>1. CASE UNCHANGED vars
  BY <1>1 DEF TypeOK, Counted, vars
<1>2. ASSUME NEW goal \in Goals, Ask(goal) PROVE TypeOK' /\ Counted'
  BY <1>2 DEF Ask, TypeOK, Counted, history
<1>3. ASSUME NEW goal \in Goals, Begin(goal) PROVE TypeOK' /\ Counted'
  BY <1>3, BeginTyped
<1>4. CASE Continue
  BY <1>4 DEF Continue, Continued, IsStatus, Ask, TypeOK, Counted, Doc, history
<1>5. CASE Busy
  BY <1>5 DEF Busy, TypeOK, Counted, history
<1>6. CASE Round
  BY <1>6, Moves, MoveTyped DEF Round, TypeOK
<1>7. CASE Check
  <2>1. Move("check", {"final", "before"})
    BY <1>7, Moves DEF Move
  <2>. QED BY <1>7, <2>1, MoveTyped DEF Check, TypeOK
<1>8. CASE Before
  <2>1. flight \in Flight
    BY <1>8, FlightThere DEF Before
  <2>2. doc' \in Doc \cup {None}
    BY <1>8, <2>1, SavedTyped DEF Before, SaveFirst, TypeOK, Statuses
  <2>. QED BY <1>8, <2>2, Moves, MoveTyped DEF Before
<1>9. CASE Call
  <2>1. \/ Move("call", {IF flight.calls = 0 THEN "hopdone" ELSE "exec"})
        \/ Move("call", {"hopdone"})
    BY <1>9, Moves DEF Move
  <2>. QED BY <1>9, <2>1, MoveTyped DEF Call, TypeOK
<1>10. CASE Exec
  BY <1>10, ExecuteTyped DEF Exec
<1>11. CASE Batch
  BY <1>11, ExecuteTyped DEF Batch
<1>12. CASE HopDone
  <2>1. Move("hopdone", {"final", "after"})
    BY <1>12, Moves DEF Move
  <2>. QED BY <1>12, <2>1, MoveTyped DEF HopDone, TypeOK
<1>13. CASE After
  <2>1. flight \in Flight /\ flight # None /\ flight.pc = "after"
    BY <1>13 DEF After, At, TypeOK
  <2>2. flight.hops + 1 \in 0..MaxRounds + 1
    BY <2>1 DEF Counted, Flight
  <2>3. flight' \in Flight
    <3>1. PICK retained \in BOOLEAN :
            flight' = [flight EXCEPT !.pc = "round", !.hops = @ + 1, !.ledger = TRUE,
                                     !.ok = @ /\ retained]
      BY <1>13 DEF After
    <3>2. (flight.ok /\ retained) \in BOOLEAN /\ "round" \in Pcs
      BY DEF Pcs
    <3>. QED BY <2>1, <2>2, <3>1, <3>2, ZenonT(40) DEF Flight
  <2>4. doc' \in Doc \cup {None}
    BY <1>13, <2>3, SavedTyped DEF After, TypeOK, Statuses
  <2>. QED BY <1>13, <2>1, <2>2, <2>3, <2>4 DEF After, TypeOK, Counted, idle, history, Flight
<1>14. CASE Final
  <2>1. flight \in Flight /\ flight # None /\ flight.pc = "final"
    BY <1>14 DEF Final, At, TypeOK
  <2>2. doc' \in Doc \cup {None}
    BY <1>14, <2>1, SavedTyped DEF Final, Close, TypeOK, Statuses
  <2>. QED BY <1>14, <2>1, <2>2 DEF Final, TypeOK, Counted, Flight
<1>15. CASE Error
  <2>1. flight \in Flight
    BY <1>15 DEF Error, At, TypeOK
  <2>2. doc' \in Doc \cup {None}
    BY <1>15, <2>1, SavedTyped DEF Error, Close, TypeOK, Statuses
  <2>. QED BY <1>15, <2>2 DEF Error, TypeOK, Counted, idle, history
<1>16. CASE CancelChain
  BY <1>16 DEF CancelChain, IsStatus, TypeOK, Counted, idle, Doc, Statuses
<1>17. CASE Throw \/ Crash
  <2>1. executed' \in [Tasks -> Nat] /\ waiting' \in Goals \cup {None}
    BY <1>17 DEF Throw, Crash, Lost, TypeOK, Flight
  <2>. QED BY <1>17, <2>1 DEF Throw, Crash, Lost, TypeOK, Counted
<1>. QED BY <1>1, <1>2, <1>3, <1>4, <1>5, <1>6, <1>7, <1>8, <1>9, <1>10, <1>11, <1>12,
            <1>13, <1>14, <1>15, <1>16, <1>17 DEF Next, Step

-----------------------------------------------------------------------------
(* What a step of the flight writes. *)

(* The ledger after a save of the flight that was not refused. *)
Written(status) ==
    /\ MaySave(flight.task)
    /\ doc' # None /\ doc'.task = flight.task /\ doc'.goal = flight.goal
    /\ doc'.status = status /\ doc'.rows = flight.rows
    /\ doc'.complete = (flight.complete /\ ~flight.omitted)

LEMMA SaveWrites ==
  ASSUME TypeOK, flight \in Flight, NEW f \in Flight, NEW status \in Statuses,
         f.task = flight.task, f.goal = flight.goal, f.rows = flight.rows,
         f.omitted = flight.omitted, f.complete = flight.complete,
         Save(f, status)
  PROVE  IF MaySave(flight.task) THEN Written(status) ELSE doc' = doc
<1>1. CASE ~MaySave(flight.task)
  BY <1>1 DEF Save
<1>2. CASE MaySave(flight.task)
  <2>1. doc' = [task |-> f.task, status |-> status, goal |-> f.goal, ledger |-> f.ledger,
                rows |-> f.rows, complete |-> f.complete /\ ~f.omitted, ok |-> f.ok]
    BY <1>2 DEF Save
  <2>2. doc' \in Doc
    BY <2>1 DEF Doc, Flight
  <2>. QED BY <1>2, <2>1, <2>2, NoneAssumption DEF Written
<1>. QED BY <1>1, <1>2

(* The flight keeps its task, and what it writes is its own task's ledger. *)
Kept ==
    /\ flight \in Flight /\ flight # None
    /\ UNCHANGED <<minted, cancelled>>
    /\ flight' # None =>
           /\ flight'.task = flight.task /\ flight'.goal = flight.goal
           /\ flight'.complete = flight.complete

(* A step that runs no tool. *)
Quiet ==
    /\ Kept /\ UNCHANGED <<executed, failed, late>>
    /\ flight' # None =>
           /\ flight'.rows = flight.rows /\ flight'.omitted = flight.omitted
           /\ flight'.ok \in {flight.ok, FALSE}
    /\ \/ doc' = doc
       \/ Written("running") /\ flight' # None
       \/ Written("done") /\ flight' = None /\ flight.ok
       \/ Written("failed") /\ flight' = None

LEMMA QuietMove ==
  ASSUME NEW from, NEW tos, Move(from, tos), UNCHANGED <<idle, history>>,
         doc' = doc \/ Written("running")
  PROVE  Quiet
  BY DEF Move, Steady, Quiet, Kept, idle, history

LEMMA QuietStep ==
  ASSUME TypeOK, Counted, Step, ~Exec, ~Batch
  PROVE  Quiet
<1>1. CASE Round
  <2>1. CASE Asked
    BY <1>1, <2>1 DEF Asked, Round, Quiet, Kept, idle, history
  <2>. QED BY <1>1, <2>1, Moves, QuietMove DEF Round
<1>2. CASE Check
  BY <1>2, Moves, QuietMove DEF Check
<1>3. CASE Before
  <2>1. flight \in Flight
    BY <1>3, FlightThere DEF Before
  <2>2. doc' = doc \/ Written("running")
    BY <1>3, <2>1, SaveWrites DEF Before, SaveFirst, Statuses
  <2>. QED BY <1>3, <2>2, Moves, QuietMove DEF Before
<1>4. CASE Call
  BY <1>4, Moves, QuietMove DEF Call
<1>5. CASE HopDone
  BY <1>5, Moves, QuietMove DEF HopDone
<1>6. CASE After
  <2>1. flight \in Flight /\ flight # None
    BY <1>6, FlightThere DEF After
  <2>2. PICK retained \in BOOLEAN :
          flight' = [flight EXCEPT !.pc = "round", !.hops = @ + 1, !.ledger = TRUE,
                                   !.ok = @ /\ retained]
    BY <1>6 DEF After
  <2>3. flight'.task = flight.task /\ flight'.goal = flight.goal
        /\ flight'.rows = flight.rows /\ flight'.omitted = flight.omitted
        /\ flight'.complete = flight.complete /\ flight'.ok = (flight.ok /\ retained)
    BY <2>1, <2>2, ZenonT(40) DEF Flight
  <2>4. flight.hops + 1 \in 0..MaxRounds + 1
    BY <1>6, <2>1, ChainAssumption DEF After, At, Counted, Flight
  <2>5. flight' \in Flight
    <3>1. (flight.ok /\ retained) \in BOOLEAN /\ "round" \in Pcs
      BY DEF Pcs
    <3>. QED BY <2>1, <2>2, <2>4, <3>1, ZenonT(40) DEF Flight
  <2>6. Save(flight', "running")
    BY <1>6 DEF After
  <2>7. doc' = doc \/ Written("running")
    BY <2>1, <2>3, <2>5, <2>6, SaveWrites DEF Statuses
  <2>. QED BY <1>6, <2>1, <2>3, <2>5, <2>7, NoneAssumption
           DEF After, Quiet, Kept, idle, history
<1>7. CASE Final
  <2>1. flight \in Flight /\ flight # None
    BY <1>7, FlightThere DEF Final
  <2>2. CASE flight.ok
    BY <1>7, <2>1, <2>2, SaveWrites DEF Final, Close, Statuses, Quiet, Kept
  <2>3. CASE ~flight.ok
    BY <1>7, <2>1, <2>3, SaveWrites DEF Final, Close, Statuses, Quiet, Kept
  <2>. QED BY <2>2, <2>3
<1>8. CASE Error
  <2>1. flight \in Flight /\ flight # None
    BY <1>8, FlightThere DEF Error
  <2>2. doc' = doc \/ Written("failed")
    BY <1>8, <2>1, SaveWrites DEF Error, Close, Statuses
  <2>. QED BY <1>8, <2>1, <2>2 DEF Error, Quiet, Kept, idle, history
<1>. QED BY <1>1, <1>2, <1>3, <1>4, <1>5, <1>6, <1>7, <1>8 DEF Step

(* A step that runs a tool, or the batch, adds one call and one row.       *)
Ran(good) ==
    /\ Kept /\ UNCHANGED doc
    /\ flight.pc \in {"exec", "batch"}
    /\ flight' # None /\ flight'.pc \in {"call", "after", "final", "error"}
    /\ executed' = [executed EXCEPT ![flight.task] = @ + 1]
    /\ failed' = IF good THEN failed ELSE failed \cup {flight.task}
    /\ late' = IF flight.task \in cancelled THEN late + 1 ELSE late
    /\ flight'.rows = IF flight.rows < MaxRows THEN flight.rows + 1 ELSE flight.rows
    /\ flight'.omitted = (flight.omitted \/ flight.rows = MaxRows)
    /\ flight'.ok = (flight.ok /\ good)

LEMMA ExecuteRan ==
  ASSUME TypeOK, Counted, NEW good \in BOOLEAN,
         NEW next \in {"call", "after", "final", "error"}, Execute(1, good, next),
         \/ At("exec") /\ next = "call"
         \/ At("batch") /\ next # "call"
  PROVE  Ran(good)
<1>1. flight \in Flight /\ flight # None /\ flight.pc \in {"exec", "batch"}
  BY FlightThere DEF At
<1>2. flight' = [flight EXCEPT !.pc = next, !.calls = IF flight.native THEN @ - 1 ELSE 0,
                               !.rows = IF @ < MaxRows THEN @ + 1 ELSE @,
                               !.omitted = @ \/ flight.rows = MaxRows,
                               !.ok = @ /\ good]
  BY DEF Execute
<1>3. /\ flight'.pc = next /\ flight'.task = flight.task /\ flight'.goal = flight.goal
      /\ flight'.complete = flight.complete
      /\ flight'.rows = IF flight.rows < MaxRows THEN flight.rows + 1 ELSE flight.rows
      /\ flight'.omitted = (flight.omitted \/ flight.rows = MaxRows)
      /\ flight'.ok = (flight.ok /\ good)
  BY <1>1, <1>2 DEF Flight
<1>4. flight' # None
  BY ExecuteFlight, NoneAssumption
<1>. QED BY <1>1, <1>3, <1>4 DEF Execute, Ran, Kept, idle

LEMMA ToolStep ==
  ASSUME TypeOK, Counted, Exec \/ Batch
  PROVE  \E good \in BOOLEAN : Ran(good)
  BY ExecuteRan DEF Exec, Batch

-----------------------------------------------------------------------------
(* Every step keeps the invariant. *)

(* What the requests and the counters do not touch. *)
LEMMA UntouchedInv ==
  ASSUME Inv, UNCHANGED <<doc, flight, minted, executed, failed, cancelled, late>>
  PROVE  /\ Minted' /\ SameTask' /\ Named' /\ CancelledSeen' /\ LateOnce'
         /\ RowsKnown' /\ HistoryHonest'
  BY DEF Inv, Minted, SameTask, Named, CancelledSeen, LateOnce, RowsKnown, HistoryHonest

LEMMA BeginInv ==
  ASSUME Inv, NEW goal \in Goals, Begin(goal)
  PROVE  /\ Minted' /\ SameTask' /\ Named' /\ CancelledSeen' /\ LateOnce'
         /\ RowsKnown' /\ HistoryHonest'
<1>. DEFINE resumed == IsStatus("running") /\ doc.goal = goal
            task == IF resumed THEN doc.task ELSE minted + 1
<1>1. /\ flight'.pc = "round" /\ flight'.task = task /\ flight'.goal = goal
      /\ flight'.rows = 0 /\ flight'.omitted = FALSE /\ flight'.complete = ~resumed
  BY DEF Begin, WholeHistory
<1>2. /\ doc' = doc /\ executed' = executed /\ failed' = failed /\ cancelled' = cancelled
      /\ late' = 0 /\ minted' = IF resumed THEN minted ELSE minted + 1
  BY DEF Begin
<1>3. minted \in Nat /\ minted + 1 \in Tasks
  BY ChainAssumption DEF Inv, TypeOK, Counted, Begin, Tasks
<1>4. doc # None => doc.task \in Tasks /\ doc.task <= minted
  BY DEF Inv, TypeOK, Minted, Doc
<1>5. ~resumed => executed[minted + 1] = 0 /\ minted + 1 \notin failed \cup cancelled
  BY <1>3 DEF Inv, Minted
<1>6. resumed => doc # None /\ doc.task \notin cancelled /\ doc.status = "running"
  BY DEF Inv, CancelledSeen, IsStatus
<1>7. Minted'
  <2>1. minted' \in Nat /\ minted <= minted' /\ task <= minted'
    BY <1>2, <1>3, <1>4, <1>6
  <2>2. doc' # None => doc'.task <= minted'
    BY <1>2, <1>3, <1>4, <2>1 DEF Tasks
  <2>3. ASSUME NEW t \in Tasks, t > minted'
        PROVE  executed'[t] = 0 /\ t \notin failed' \cup cancelled'
    <3>1. t > minted
      BY <1>3, <2>1, <2>3 DEF Tasks
    <3>. QED BY <1>2, <3>1 DEF Inv, Minted
  <2>. QED BY <1>1, <2>1, <2>2, <2>3 DEF Minted
<1>8. SameTask'
  BY <1>1, <1>2, <1>3, <1>4, <1>6 DEF SameTask, Tasks
<1>9. Named' /\ CancelledSeen' /\ LateOnce'
  BY <1>1, <1>2, <1>5, <1>6 DEF Inv, Named, CancelledSeen, LateOnce
<1>10. RowsKnown'
  BY <1>1, <1>2, <1>5 DEF RowsKnown
<1>11. HistoryHonest'
  BY <1>2 DEF Inv, HistoryHonest
<1>. QED BY <1>7, <1>8, <1>9, <1>10, <1>11

LEMMA QuietInv ==
  ASSUME Inv, Quiet
  PROVE  Minted' /\ SameTask' /\ CancelledSeen' /\ RowsKnown' /\ HistoryHonest'
<1>1. flight \in Flight /\ flight # None /\ flight.task \in Tasks
  BY DEF Quiet, Kept, Flight
<1>2. Minted'
  BY <1>1 DEF Inv, Minted, Quiet, Kept, Written
<1>3. SameTask'
  BY <1>1 DEF Inv, SameTask, Quiet, Kept, Written
<1>4. CancelledSeen'
  BY <1>1 DEF Inv, CancelledSeen, Quiet, Kept, Written, MaySave, IsStatus
<1>5. RowsKnown'
  BY <1>1 DEF Inv, RowsKnown, Quiet, Kept
<1>6. HistoryHonest'
  BY <1>1 DEF Inv, RowsKnown, HistoryHonest, Quiet, Kept, Written
<1>. QED BY <1>2, <1>3, <1>4, <1>5, <1>6

(* A cancelled task is seen by its flight: its goal is in the ledger. *)
LEMMA CancelledIsSeen ==
  ASSUME Inv, flight # None, flight.task \in cancelled
  PROVE  Cancelled(flight.goal)
  BY DEF Inv, CancelledSeen, SameTask, Cancelled, IsStatus

LEMMA QuietPlaces ==
  ASSUME Inv, Step, ~Exec, ~Batch, Quiet
  PROVE  Named' /\ LateOnce'
<1>1. flight \in Flight /\ flight # None
  BY DEF Quiet, Kept
<1>2. CASE flight' = None
  BY <1>2 DEF Inv, Quiet, Named, LateOnce
<1>3. ASSUME flight' # None,
             \/ flight'.pc \notin {"before", "call", "exec", "batch"}
             \/ flight'.pc \in {"before", "exec"} /\ flight.task \notin cancelled
                /\ (flight'.pc = "exec" => flight.pc = "call" /\ doc' = doc)
      PROVE  Named' /\ LateOnce'
  BY <1>1, <1>3 DEF Inv, Quiet, Kept, Named, LateOnce
<1>4. CASE Round
  BY <1>3, <1>4, Moves DEF Inv, Move, Asked
<1>5. CASE Check
  BY <1>1, <1>3, <1>5, Moves, CancelledIsSeen DEF Inv, Move
<1>6. CASE Before
  <2>1. Move("before", {IF flight.native THEN "call" ELSE "batch"})
    BY <1>6, Moves DEF Inv
  <2>2. doc' # None /\ doc'.task = flight.task
    BY <1>1, <1>6, SaveWrites DEF Inv, Before, SaveFirst, Statuses, MaySave, IsStatus, Written
  <2>. QED BY <2>1, <2>2 DEF Move, Inv, Named, LateOnce, Quiet, Kept
<1>7. CASE Call
  BY <1>1, <1>3, <1>7, Moves, CancelledIsSeen DEF Inv, Move, Call
<1>8. CASE HopDone
  BY <1>3, <1>8, Moves DEF Inv, Move
<1>9. CASE After
  <2>1. flight'.pc = "round"
    BY <1>1, <1>9 DEF After, Flight
  <2>. QED BY <1>2, <1>3, <2>1
<1>10. CASE Final \/ Error
  BY <1>2, <1>10 DEF Final, Error
<1>. QED BY <1>4, <1>5, <1>6, <1>7, <1>8, <1>9, <1>10 DEF Step

LEMMA ToolInv ==
  ASSUME Inv, NEW good \in BOOLEAN, Ran(good)
  PROVE  /\ Minted' /\ SameTask' /\ Named' /\ CancelledSeen' /\ LateOnce'
         /\ RowsKnown' /\ HistoryHonest'
<1>1. flight \in Flight /\ flight # None /\ flight.task \in Tasks
  BY DEF Ran, Kept, Flight
<1>2. doc # None /\ doc.task = flight.task /\ doc.status \in {"running", "cancelled"}
  BY <1>1 DEF Inv, Ran, Named, SameTask
<1>3. Minted'
  BY <1>1 DEF Inv, TypeOK, Minted, Ran, Kept, Tasks
<1>4. SameTask' /\ CancelledSeen' /\ HistoryHonest'
  BY <1>1, <1>2 DEF Inv, SameTask, CancelledSeen, HistoryHonest, Ran, Kept
<1>5. Named'
  BY <1>2 DEF Named, Ran, Kept
<1>6. LateOnce'
  BY <1>1 DEF Inv, LateOnce, Ran, Kept
<1>7. RowsKnown'
  <2>. SUFFICES ASSUME flight.complete
                PROVE  /\ flight'.omitted \/ flight'.rows = executed'[flight.task]
                       /\ flight'.ok => flight.task \notin failed'
    BY DEF RowsKnown, Ran, Kept
  <2>1. /\ flight.omitted \/ flight.rows = executed[flight.task]
        /\ flight.ok => flight.task \notin failed
    BY <1>1 DEF Inv, RowsKnown
  <2>2. executed'[flight.task] = executed[flight.task] + 1
    BY <1>1 DEF Inv, TypeOK, Ran
  <2>3. flight.rows \in 0..MaxRows
    BY <1>1 DEF Flight
  <2>4. flight'.omitted \/ flight'.rows = executed'[flight.task]
    <3>1. CASE flight.rows = MaxRows
      BY <3>1, <1>1 DEF Ran
    <3>2. CASE flight.rows # MaxRows
      <4>1. flight'.rows = flight.rows + 1
        BY <2>3, <3>2, ChainAssumption DEF Ran
      <4>. QED BY <2>1, <2>2, <3>2, <4>1 DEF Ran
    <3>. QED BY <3>1, <3>2
  <2>5. flight'.ok => flight.task \notin failed'
    BY <2>1 DEF Ran
  <2>. QED BY <2>4, <2>5
<1>. QED BY <1>3, <1>4, <1>5, <1>6, <1>7

LEMMA CancelInv ==
  ASSUME Inv, CancelChain
  PROVE  /\ Minted' /\ SameTask' /\ Named' /\ CancelledSeen' /\ LateOnce'
         /\ RowsKnown' /\ HistoryHonest'
<1>1. /\ doc \in Doc /\ doc # None /\ doc' = [doc EXCEPT !.status = "cancelled"]
      /\ doc.status = "running" /\ doc' # None
  BY NoneAssumption DEF Inv, TypeOK, CancelChain, IsStatus, Doc, Statuses
<1>2. doc'.task = doc.task /\ doc'.goal = doc.goal /\ doc'.status = "cancelled"
  BY <1>1 DEF Doc
<1>3. cancelled' = cancelled \cup {doc.task}
      /\ UNCHANGED <<flight, minted, executed, failed, late>>
  BY DEF CancelChain, idle
<1>4. doc.task \in Tasks /\ doc.task <= minted /\ minted \in Nat
  BY <1>1 DEF Inv, TypeOK, Minted, Doc
<1>5. Minted' /\ SameTask' /\ Named'
  BY <1>1, <1>2, <1>3, <1>4 DEF Inv, Minted, SameTask, Named, Tasks
<1>6. CancelledSeen' /\ LateOnce'
  BY <1>1, <1>2, <1>3 DEF Inv, CancelledSeen, LateOnce
<1>7. RowsKnown' /\ HistoryHonest'
  BY <1>2, <1>3 DEF Inv, RowsKnown, HistoryHonest
<1>. QED BY <1>5, <1>6, <1>7

LEMMA LostInv ==
  ASSUME Inv, Lost
  PROVE  /\ Minted' /\ SameTask' /\ Named' /\ CancelledSeen' /\ LateOnce'
         /\ RowsKnown' /\ HistoryHonest'
<1>1. flight # None /\ flight \in Flight /\ flight.task \in Tasks /\ flight.task <= minted
  BY DEF Inv, TypeOK, Minted, Lost, Flight
<1>2. flight' = None /\ UNCHANGED <<doc, minted, failed, cancelled, late>>
  BY DEF Lost
<1>3. \/ executed' = executed
      \/ flight.pc \in {"exec", "batch"} /\ executed' = [executed EXCEPT ![flight.task] = @ + 1]
  BY DEF Lost
<1>4. Minted'
  <2>1. ASSUME NEW t \in Tasks, t > minted PROVE executed'[t] = 0
    <3>1. t # flight.task /\ executed[t] = 0
      BY <1>1, <2>1 DEF Inv, TypeOK, Minted, Tasks
    <3>. QED BY <1>1, <1>3, <3>1 DEF Inv, TypeOK
  <2>. QED BY <1>2, <2>1 DEF Inv, Minted
<1>5. SameTask' /\ Named' /\ CancelledSeen' /\ LateOnce' /\ RowsKnown'
  BY <1>2 DEF Inv, SameTask, Named, CancelledSeen, LateOnce, RowsKnown
<1>6. HistoryHonest'
  BY <1>1, <1>2, <1>3 DEF Inv, HistoryHonest, Named, SameTask
<1>. QED BY <1>4, <1>5, <1>6

LEMMA InvStep == Inv /\ [Next]_vars => Inv'
<1>. SUFFICES ASSUME Inv, [Next]_vars PROVE Inv'
  OBVIOUS
<1>0. TypeOK' /\ Counted'
  BY TypeStep DEF Inv
<1>1. CASE UNCHANGED vars
  BY <1>0, <1>1, UntouchedInv DEF Inv, vars
<1>2. ASSUME NEW goal \in Goals, Begin(goal) PROVE Inv'
  BY <1>0, <1>2, BeginInv DEF Inv
<1>3. ASSUME NEW goal, Ask(goal) PROVE Inv'
  BY <1>0, <1>3, UntouchedInv DEF Inv, Ask, history
<1>4. CASE Continue
  BY <1>3, <1>4 DEF Continue
<1>5. CASE Busy
  BY <1>0, <1>5, UntouchedInv DEF Inv, Busy, history
<1>6. CASE Step /\ ~Exec /\ ~Batch
  BY <1>0, <1>6, QuietStep, QuietInv, QuietPlaces DEF Inv
<1>7. CASE Exec \/ Batch
  BY <1>0, <1>7, ToolStep, ToolInv DEF Inv
<1>8. CASE CancelChain
  BY <1>0, <1>8, CancelInv DEF Inv
<1>9. CASE Throw \/ Crash
  BY <1>0, <1>9, LostInv DEF Inv, Throw, Crash
<1>. QED BY <1>1, <1>2, <1>3, <1>4, <1>5, <1>6, <1>7, <1>8, <1>9 DEF Next

-----------------------------------------------------------------------------
(* The theorems. *)

LEMMA InvInit == Init => Inv
<1>. SUFFICES ASSUME Init PROVE Inv
  OBVIOUS
<1>1. TypeOK
  BY ChainAssumption DEF Init, TypeOK
<1>2. Counted /\ Minted
  BY DEF Init, Counted, Minted, Tasks
<1>. QED BY <1>1, <1>2 DEF Init, Inv, SameTask, Named, CancelledSeen, LateOnce, RowsKnown, HistoryHonest

LEMMA Invariant == Spec => []Inv
  BY InvInit, InvStep, PTL DEF Spec

(* The records of run_colibri_serve, of last-chain.json and the counters   *)
(* keep their types: no hop goes past the rounds and no id past the flights. *)
THEOREM TypeCorrect == Spec => []TypeOK
<1>1. Inv => TypeOK
  BY DEF Inv
<1>. QED BY <1>1, Invariant, PTL

(* After handle_cancel_chain answered, at most one more executor run of    *)
(* the cancelled task begins, the one execute_calls had decided on.        *)
THEOREM LateCallBound == Spec => []OneLateCall
<1>1. Inv => OneLateCall
  BY DEF Inv, LateOnce, OneLateCall
<1>. QED BY <1>1, Invariant, PTL

(* save_chain runs before the tools: no tool runs for a task that          *)
(* last-chain.json does not name.                                          *)
THEOREM NamedBeforeTools == Spec => []LedgerBeforeTools
<1>1. Inv => LedgerBeforeTools
  BY DEF Inv, LedgerBeforeTools, Named, SameTask, At
<1>. QED BY <1>1, Invariant, PTL

(* A closed task that save_chain wrote as complete has a row for every call *)
(* that was executed for it, lost flights and resumed ones included.        *)
THEOREM HonestHistory == Spec => []HistoryHonest
<1>1. Inv => HistoryHonest
  BY DEF Inv
<1>. QED BY <1>1, Invariant, PTL

(* No save brings a cancelled task back. *)
THEOREM CancelKept == Spec => CancelSticks
<1>1. Inv /\ [Next]_vars => (IsStatus("cancelled") => doc'.task # doc.task \/ doc' = doc)
  <2>. SUFFICES ASSUME Inv, [Next]_vars, IsStatus("cancelled")
                PROVE  doc'.task # doc.task \/ doc' = doc
    OBVIOUS
  <2>1. CASE Step /\ ~Exec /\ ~Batch
    BY <2>1, QuietStep DEF Inv, Quiet, Written, MaySave
  <2>2. CASE Exec \/ Batch
    BY <2>2, ToolStep DEF Inv, Ran
  <2>3. CASE UNCHANGED vars
    BY <2>3 DEF vars
  <2>. QED BY <2>1, <2>2, <2>3
           DEF Next, Ask, Begin, Continue, Busy, CancelChain, IsStatus, Throw, Crash, Lost
<1>. QED BY <1>1, Invariant, PTL DEF Spec, CancelSticks
=============================================================================
