------------------------------ MODULE TaskChain ------------------------------
(***************************************************************************)
(* The kernel's chat with tools (main.cpp: run_colibri_serve, save_chain,  *)
(* handle_cancel_chain and the chat handler's continue).  One flight at a  *)
(* time holds the GPU slot and runs tools in hops; the task ledger         *)
(* last-chain.json is all that outlives it.  A cancel comes from another   *)
(* thread of the server and only changes the ledger: the flight sees it    *)
(* where it looks.  The process may stop anywhere, a save may throw.       *)
(***************************************************************************)
EXTENDS Naturals, FiniteSets

CONSTANTS Goals,      \* questions
          None,
          MaxRounds,  \* max_tool_rounds
          MaxCalls,   \* calls the model asks for in one hop
          MaxRows,    \* evidence rows that a ledger holds (128)
          MaxFlights, MaxFaults   \* bounds

ASSUME ChainAssumption ==
    /\ None \notin Goals
    /\ {MaxRounds, MaxCalls, MaxRows, MaxFlights} \subseteq Nat \ {0} /\ MaxFaults \in Nat

VARIABLES doc,      \* last-chain.json, or None
          flight,   \* the run that holds the slot, or None
          waiting,  \* a question whose handler comes to the slot next, or None
          turn,     \* question of the last real turn of the history, or None
          minted,   \* task ids given so far
          flights, faults,
          executed, \* auxiliary: calls executed for a task
          failed,   \* auxiliary: tasks of which a call failed
          cancelled,\* auxiliary: tasks whose cancellation was acknowledged
          late,     \* auxiliary: executor runs that began after the flight's task was cancelled
          told      \* auxiliary: tasks whose flight answered "chain cancelled"

vars == <<doc, flight, waiting, turn, minted, flights, faults, executed, failed, cancelled, late, told>>
history == <<executed, failed, cancelled, late, told>>

Tasks == 1..MaxFlights
Statuses == {"running", "done", "failed", "cancelled"}
Doc == [task : Tasks, status : Statuses, goal : Goals, ledger : BOOLEAN,
        rows : 0..MaxRows, complete : BOOLEAN, ok : BOOLEAN]
Pcs == {"round", "check", "before", "call", "exec", "batch", "hopdone", "after", "final", "error"}
Flight == [pc : Pcs, task : Tasks, goal : Goals, hops : 0..MaxRounds + 1, rounds : 0..MaxRounds,
           calls : 0..MaxCalls, native : BOOLEAN, ledger : BOOLEAN, rows : 0..MaxRows,
           omitted : BOOLEAN, complete : BOOLEAN, ok : BOOLEAN, stopped : BOOLEAN,
           legacy : BOOLEAN]

ASSUME NoneAssumption == None \notin Doc \cup Flight

TypeOK ==
    /\ doc \in Doc \cup {None}
    /\ flight \in Flight \cup {None}
    /\ flight # None /\ flight.pc \in {"call", "exec"} => flight.native
    /\ waiting \in Goals \cup {None} /\ turn \in Goals \cup {None}
    /\ minted \in 0..MaxFlights /\ flights \in 0..MaxFlights /\ faults \in 0..MaxFaults
    /\ executed \in [Tasks -> Nat]
    /\ failed \cup cancelled \cup told \subseteq Tasks /\ late \in Nat

Init ==
    /\ doc = None /\ flight = None /\ waiting = None /\ turn = None
    /\ minted = 0 /\ flights = 0 /\ faults = 0
    /\ executed = [t \in Tasks |-> 0] /\ failed = {} /\ cancelled = {} /\ late = 0 /\ told = {}

IsStatus(status) == doc # None /\ doc.status = status

-----------------------------------------------------------------------------
(* The chat handler. *)

Ask(goal) ==
    /\ flights < MaxFlights /\ waiting = None
    /\ waiting' = goal
    /\ UNCHANGED <<doc, flight, turn, minted, flights, faults, history>>

(* Continue asks the last real turn again, and the task's goal only if     *)
(* there is none.  A cancelled chain is refused, and so is nothing.        *)
Continued == IF turn # None THEN turn ELSE doc.goal

Continue ==
    /\ ~IsStatus("cancelled")
    /\ turn = None => IsStatus("running") /\ doc.ledger
    /\ Ask(Continued)

(* The slot is taken: the request is told so. *)
Busy ==
    /\ flight # None
    /\ waiting # None /\ waiting' = None
    /\ UNCHANGED <<doc, flight, turn, minted, flights, faults, history>>

(* Mutant: a resumed attempt counts itself as the whole history. *)
AllRows(resumed) == TRUE

WholeHistory(resumed) == ~resumed

(* A running task of the same goal is resumed under its id.  A folder that *)
(* the goal names may be observed for a first hop, which may not fit into  *)
(* the context.                                                            *)
Begin(goal) ==
    LET resumed == IsStatus("running") /\ doc.goal = goal IN
    /\ flight = None /\ waiting = goal /\ flights < MaxFlights
    /\ flights' = flights + 1 /\ minted' = IF resumed THEN minted ELSE minted + 1
    /\ waiting' = None /\ late' = 0
    /\ \E observed, retained, legacy \in BOOLEAN :
           flight' = [pc |-> "round", task |-> IF resumed THEN doc.task ELSE minted + 1, goal |-> goal,
                      hops |-> IF observed THEN 1 ELSE 0, rounds |-> 0, calls |-> 0, native |-> FALSE,
                      ledger |-> observed, rows |-> 0, omitted |-> FALSE,
                      complete |-> WholeHistory(resumed),
                      ok |-> (resumed => doc.ok) /\ (observed => retained),
                      stopped |-> FALSE, legacy |-> legacy]
    /\ UNCHANGED <<doc, turn, faults, executed, failed, cancelled, told>>

-----------------------------------------------------------------------------
(* The flight. *)

At(pc) == flight # None /\ flight.pc = pc
Goto(pc) == flight' = [flight EXCEPT !.pc = pc]
idle == <<waiting, turn, minted, flights, faults>>

(* chain_is_cancelled *)
Cancelled(goal) == IsStatus("cancelled") /\ doc.goal = goal

Stopped == flight' = [flight EXCEPT !.pc = "final", !.stopped = TRUE]

(* Mutant: without a usable answer the model is asked again. *)
AskAgain == flight' = flight

NothingUsable == Goto("error")

(* Mutant: a hop does not count as a round. *)
HopsAreFree(f) == f.rounds

NextRound(f) == f.rounds + 1

(* The model speaks: it answers, asks for tools, or says nothing usable.   *)
(* After the last round nothing is left to say, but in the tool mode       *)
(* "legacy" what the tools read may stand in for the answer.               *)
Round ==
    /\ At("round")
    /\ \/ (flight.rounds < MaxRounds \/ flight.legacy) /\ Goto("final")
       \/ NothingUsable
       \/ /\ flight.rounds < MaxRounds
          /\ \E native \in BOOLEAN : \E n \in 1..(IF native THEN MaxCalls ELSE 1) :
                 flight' = [flight EXCEPT !.pc = "check", !.rounds = NextRound(flight),
                                          !.native = native, !.calls = n]
    /\ UNCHANGED <<doc, idle, history>>

Check ==
    /\ At("check")
    /\ IF Cancelled(flight.goal) THEN Stopped ELSE Goto("before")
    /\ UNCHANGED <<doc, idle, history>>

(* Mutant: a late save brings a cancelled task back. *)
Overwrites(task) == TRUE

(* save_chain leaves the ledger of its own task alone once it is cancelled. *)
MaySave(task) == ~(IsStatus("cancelled") /\ doc.task = task)

Save(f, status) ==
    doc' = IF MaySave(f.task)
           THEN [task |-> f.task, status |-> status, goal |-> f.goal, ledger |-> f.ledger,
                 rows |-> f.rows, complete |-> f.complete /\ ~f.omitted, ok |-> f.ok]
           ELSE doc

(* Mutant: the ledger is written when the hop is over. *)
SaveLater == doc' = doc

SaveFirst == Save(flight, "running")

Before ==
    /\ At("before") /\ SaveFirst
    /\ Goto(IF flight.native THEN "call" ELSE "batch")
    /\ UNCHANGED <<idle, history>>

(* Mutant: a hop is stopped between hops only. *)
NextCallAlways == Goto("exec")

NextCall ==
    IF Cancelled(flight.goal) THEN flight' = [flight EXCEPT !.pc = "hopdone", !.ok = FALSE]
                              ELSE Goto("exec")

Call ==
    /\ At("call")
    /\ IF flight.calls = 0 THEN Goto("hopdone") ELSE NextCall
    /\ UNCHANGED <<doc, idle, history>>

(* execute_calls and record_tool_evidence; the flags add up in hops_ok. *)
Execute(n, good, next) ==
    /\ executed' = [executed EXCEPT ![flight.task] = @ + n]
    /\ failed' = IF good THEN failed ELSE failed \cup {flight.task}
    /\ late' = IF flight.task \in cancelled THEN late + 1 ELSE late
    /\ flight' = [flight EXCEPT !.pc = next, !.calls = IF flight.native THEN @ - 1 ELSE 0,
                                !.rows = IF @ < MaxRows THEN @ + 1 ELSE @,
                                !.omitted = @ \/ flight.rows = MaxRows,
                                !.ok = @ /\ good]
    /\ UNCHANGED <<doc, idle, cancelled, told>>

Exec == At("exec") /\ \E good \in BOOLEAN : Execute(1, good, "call")

(* A legacy batch is one row, and ends the flight if it returns nothing. *)
Batch ==
    /\ At("batch")
    /\ \E good \in BOOLEAN, next \in {"after", "final", "error"} : Execute(1, good, next)

HopDone ==
    /\ At("hopdone")
    /\ IF Cancelled(flight.goal) THEN Stopped ELSE Goto("after")
    /\ UNCHANGED <<doc, idle, history>>

(* flatten_tool_turn, then the save that ends the hop.  Results that do not *)
(* all fit into the context count against hops_ok like a failed call.       *)
After ==
    /\ At("after")
    /\ \E retained \in BOOLEAN :
           flight' = [flight EXCEPT !.pc = "round", !.hops = @ + 1, !.ledger = TRUE,
                                    !.ok = @ /\ retained]
    /\ Save(flight', "running")
    /\ UNCHANGED <<idle, history>>

(* The reply.  A flight that used tools closes its task. *)
UsedTools == flight.hops > 0 \/ flight.ledger
Close(status) == IF UsedTools THEN Save(flight, status) ELSE doc' = doc

Final ==
    /\ At("final")
    /\ Close(IF flight.ok THEN "done" ELSE "failed")
    /\ flight' = None
    /\ turn' \in {turn, flight.goal}        \* an edit is not remembered, nor an empty reply
    /\ told' = IF flight.stopped THEN told \cup {flight.task} ELSE told
    /\ UNCHANGED <<waiting, minted, flights, faults, executed, failed, cancelled, late>>

(* fail_reply: no final answer. *)
Error ==
    /\ At("error")
    /\ Close("failed")
    /\ flight' = None
    /\ UNCHANGED <<idle, history>>

Step == Round \/ Check \/ Before \/ Call \/ Exec \/ Batch \/ HopDone \/ After \/ Final \/ Error

-----------------------------------------------------------------------------
(* The cancel button, and what may go wrong. *)

CancelChain ==
    /\ IsStatus("running")
    /\ doc' = [doc EXCEPT !.status = "cancelled"]
    /\ cancelled' = cancelled \cup {doc.task}
    /\ UNCHANGED <<flight, idle, executed, failed, late, told>>

(* The call that was running may have taken effect. *)
Lost ==
    /\ flight # None /\ faults < MaxFaults
    /\ faults' = faults + 1 /\ flight' = None
    /\ executed' \in {executed} \cup
                     (IF flight.pc \in {"exec", "batch"}
                      THEN {[executed EXCEPT ![flight.task] = @ + 1]} ELSE {})
    /\ UNCHANGED <<doc, turn, minted, flights, failed, cancelled, late, told>>

Throw == Lost /\ UNCHANGED waiting
Crash == Lost /\ waiting' = None

Next ==
    \/ (\E goal \in Goals : Ask(goal) \/ Begin(goal)) \/ Continue \/ Busy
    \/ Step \/ CancelChain \/ Throw \/ Crash

Spec == Init /\ [][Next]_vars

(* The handler's thread runs until it replies. *)
FairSpec == Spec /\ WF_vars(Step)

-----------------------------------------------------------------------------
(* reply_stream_test.cpp:1315 "in-flight save overwrote cancellation": a   *)
(* task that was cancelled stays cancelled for as long as the ledger names *)
(* it, whatever its flight, a resumed one or a late answer writes.         *)
CancelSticks ==
    [][IsStatus("cancelled") => doc'.task # doc.task \/ doc' = doc]_vars

(* After a cancel is acknowledged at most one more executor run of that    *)
(* task begins: the one the flight had decided on.                         *)
OneLateCall == late <= 1

(* No tool runs for a task that the ledger does not name: whoever stops    *)
(* the process there leaves a task that can be seen, resumed or cancelled. *)
LedgerBeforeTools ==
    At("exec") \/ At("batch") => doc # None /\ doc.task = flight.task
                                 /\ doc.status \in {"running", "cancelled"}

(* current.md:397 "incomplete resumed history are explicit": a closed task *)
(* whose ledger calls its history complete has a row for every call that   *)
(* was ever executed for it, and if it is done none of them failed.        *)
HistoryHonest ==
    doc # None /\ doc.status \in {"done", "failed"} /\ doc.complete =>
        /\ doc.rows = executed[doc.task]
        /\ doc.status = "done" => doc.task \notin failed

(* The slot is given back: every flight ends, by an answer or an error.    *)
SlotFreed == flight # None ~> flight = None

(* main.cpp:6207 "Chain cancelled. Ask the question again.": a flight that *)
(* is answered "chain cancelled" belongs to a task that was cancelled.     *)
OnlyCancelledAreTold == told \subseteq cancelled
=============================================================================
