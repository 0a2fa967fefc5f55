------------------------------ MODULE JarvisJob ------------------------------
(***************************************************************************)
(* The offline edit job of the kernel (jarvis_job.cpp): one file of a work *)
(* directory is patched, a verifier judges the patch, and the file is      *)
(* restored if it fails.  jarvis-job.json beside the file is all that      *)
(* survives a call; a call may stop between any two writes, and each write *)
(* (write_all: a temporary file moved over the old one) may fail.          *)
(***************************************************************************)
EXTENDS Naturals

CONSTANTS Missing, Other,  \* no file; a text unrelated to the patch
          None,
          Requests,        \* what an owner asks for: see Request
          MaxEdits, MaxFaults   \* bounds on the owner's edits, on failures and crashes

(* The texts in which old_text occurs, and the stop_after of the calls.     *)
Request == [patchable : SUBSET (0..1) \ {{}}, stops : SUBSET {"proposed", "applied", "verified"}]

ASSUME RequestsAssumption == Requests \subseteq Request
ASSUME ConstantAssumption == /\ {Missing, Other, None} \cap Nat = {} /\ None \notin {Missing, Other}
                             /\ MaxEdits \in Nat /\ MaxFaults \in Nat

(* A text that counts the patches it has seen.  original.replace(old_text, *)
(* new_text) makes the next one.                                           *)
Patched(text) == text + 1

VARIABLES request, \* the request, always the same
          file,    \* the text of the file
          saved,   \* jarvis-job.json, or None
          job,     \* the State of the running call, or None
          base,    \* auxiliary: the text a patch that is in place was made from, or None
          patches, \* auxiliary: patches written since the owner's last edit
          edits, faults

vars == <<request, file, saved, job, base, patches, edits, faults>>

Patchable == request.patchable
Stops == request.stops
Text == {Missing, Other} \cup Patchable \cup {Patched(t) : t \in Patchable}

Status == {"denied", "proposed", "applied", "verified", "rolled_back", "failed", "cancelled"}
Terminal == Status \ {"proposed", "applied"}
State == [status : Status, original : Text \cup {None}, writes : 0..1, passed : BOOLEAN]

ASSUME NoneAssumption ==
    None \notin [status : Status, original : {Missing, Other, None} \cup 0..2,
                writes : 0..1, passed : BOOLEAN]

Pc == {"continue", "save", "verify", "restore", "cancel", "close"}

TypeOK ==
    /\ request \in Requests
    /\ file \in Text
    /\ saved \in State \cup {None}
    /\ job = None \/ /\ job.pc \in Pc /\ job.stop \in Stops \cup {"verified"} /\ job.st \in State
                     /\ job.pc \in {"verify", "restore"} => job.st.status = "applied"
    /\ base \in Text \cup {None} /\ patches \in 0..2
    /\ edits \in 0..MaxEdits /\ faults \in 0..MaxFaults

Init ==
    /\ request \in Requests
    /\ file \in Patchable
    /\ saved = None /\ job = None
    /\ base = None /\ patches = 0 /\ edits = 0 /\ faults = 0

At(pc, st, stop) == job' = [pc |-> pc, st |-> st, stop |-> stop]
Goto(pc, st) == At(pc, st, job.stop)
Close(status) == Goto("close", [job.st EXCEPT !.status = status])

-----------------------------------------------------------------------------
(* The calls: run, resume, cancel. *)

NewState(status) == [status |-> status, original |-> file, writes |-> 0, passed |-> FALSE]

(* Mutant: a request that stops at "proposed" goes on all the same. *)
NeverPauses(stop) == "continue"

(* A request that stops at "proposed" only saves the state. *)
FirstStep(stop) == IF stop = "proposed" THEN "close" ELSE "continue"

(* A job of this directory is refused if there is one already. *)
Run(stop, authorized) ==
    /\ job = None /\ saved = None
    /\ \/ file = Missing /\ At("close", NewState("failed"), stop)
       \/ file # Missing /\ ~authorized /\ At("close", NewState("denied"), stop)
       \/ file # Missing /\ authorized           \* the request does not fit the file
          /\ At("close", NewState("failed"), stop)
       \/ authorized /\ file \in Patchable /\ At(FirstStep(stop), NewState("proposed"), stop)
    /\ UNCHANGED <<file, saved, base, patches, edits, faults, request>>

(* The file is there and cannot be read. *)
RunUnread(stop) ==
    /\ job = None /\ saved = None
    /\ faults < MaxFaults /\ faults' = faults + 1
    /\ At("close", [NewState("failed") EXCEPT !.original = Missing], stop)
    /\ UNCHANGED <<file, saved, base, patches, edits, request>>

(* Mutant: a job that failed may be taken up again. *)
OpenOrFailed == saved # None /\ saved.status \notin Terminal \ {"failed"}

Open == saved # None /\ saved.status \notin Terminal

Resume ==
    /\ job = None /\ Open
    /\ At("continue", saved, "verified")
    /\ UNCHANGED <<file, saved, base, patches, edits, faults, request>>

Cancel ==
    /\ job = None /\ Open
    /\ At("cancel", saved, "verified")
    /\ UNCHANGED <<file, saved, base, patches, edits, faults, request>>

-----------------------------------------------------------------------------
(* continue_job. *)

Proposed == job # None /\ job.pc = "continue" /\ job.st.status = "proposed"

(* Mutant: the patch is written whatever the file holds. *)
UnpatchedOrNot == file # Missing

Unpatched == file = job.st.original

(* An earlier call wrote the patch and could not say so: not written again. *)
AlreadyPatched ==
    /\ Proposed /\ file = Patched(job.st.original)
    /\ Goto("save", [job.st EXCEPT !.status = "applied"])
    /\ UNCHANGED <<file, saved, base, patches, edits, faults, request>>

WritePatch ==
    /\ Proposed /\ Unpatched
    /\ file' = Patched(job.st.original)
    /\ base' = file /\ patches' = patches + 1
    /\ \/ Goto("save", [job.st EXCEPT !.status = "applied", !.writes = @ + 1])
          /\ UNCHANGED faults
       \/ faults < MaxFaults /\ faults' = faults + 1 /\ Close("failed")  \* not read back
    /\ UNCHANGED <<saved, edits, request>>

(* The file cannot be read, or the patch cannot be written. *)
ContinueFails ==
    /\ job # None /\ job.pc = "continue"
    /\ faults < MaxFaults /\ faults' = faults + 1
    /\ Close("failed")
    /\ UNCHANGED <<file, saved, base, patches, edits, request>>

EditedMeanwhile ==
    /\ Proposed /\ file \notin {job.st.original, Patched(job.st.original)}
    /\ Close("failed")
    /\ UNCHANGED <<file, saved, base, patches, edits, faults, request>>

(* The state is "applied" before the verifier runs. *)
SaveApplied ==
    /\ job # None /\ job.pc = "save"
    /\ \/ saved' = job.st /\ UNCHANGED faults
          /\ IF job.stop = "applied" THEN job' = None ELSE Goto("continue", job.st)
       \/ /\ faults < MaxFaults /\ faults' = faults + 1 /\ UNCHANGED saved
          /\ IF job.stop = "applied" THEN job' = None ELSE Close("failed")
    /\ UNCHANGED <<file, base, patches, edits, request>>

TakeUpApplied ==
    /\ job # None /\ job.pc = "continue" /\ job.st.status = "applied"
    /\ IF file = Patched(job.st.original) THEN Goto("verify", job.st) ELSE Close("failed")
    /\ UNCHANGED <<file, saved, base, patches, edits, faults, request>>

(* Mutant: an exit of zero is enough. *)
PassesByExit(exit, text) == exit = 0

(* The verifier exits with zero and leaves the patch as it is. *)
Passes(exit, text) == exit = 0 /\ text = Patched(job.st.original)

(* The verifier is a script: it may do anything to the file.  A patch that *)
(* passes and then cannot be read is restored like one that fails.         *)
Verify(exit, text) ==
    /\ job # None /\ job.pc = "verify"
    /\ file' = text
    /\ base' = IF text = file THEN base ELSE None
    /\ \/ Passes(exit, text) /\ UNCHANGED faults
          /\ Goto("close", [job.st EXCEPT !.status = "verified", !.passed = TRUE])
       \/ /\ IF Passes(exit, text) THEN faults < MaxFaults /\ faults' = faults + 1
                                  ELSE UNCHANGED faults
          /\ Goto("restore", [job.st EXCEPT !.passed = exit = 0])
    /\ UNCHANGED <<saved, patches, edits, request>>

(* restore_original: of a failed patch, and of one that is cancelled. *)
Restore(status) ==
    /\ \/ file' = job.st.original /\ base' = None /\ Close(status) /\ UNCHANGED faults
       \/ /\ faults < MaxFaults /\ faults' = faults + 1
          /\ file' \in {file, job.st.original}       \* not written, or not read back
          /\ base' = IF file' = file THEN base ELSE None
          /\ Close("failed")
    /\ UNCHANGED <<saved, patches, edits, request>>

RollBack ==
    /\ job # None /\ job.pc = "restore"
    /\ Restore("rolled_back")

CancelUnapplied ==
    /\ job # None /\ job.pc = "cancel" /\ job.st.status # "applied"
    /\ Close("cancelled")
    /\ UNCHANGED <<file, saved, base, patches, edits, faults, request>>

CancelApplied ==
    /\ job # None /\ job.pc = "cancel" /\ job.st.status = "applied"
    /\ Restore("cancelled")

(* finish_saved: the call returns, whether the state is on disk or not. *)
Finish ==
    /\ job # None /\ job.pc = "close"
    /\ job' = None
    /\ \/ saved' = job.st /\ UNCHANGED faults
       \/ faults < MaxFaults /\ faults' = faults + 1 /\ UNCHANGED saved
    /\ UNCHANGED <<file, base, patches, edits, request>>

Crash ==
    /\ job # None
    /\ faults < MaxFaults /\ faults' = faults + 1
    /\ job' = None
    /\ UNCHANGED <<file, saved, base, patches, edits, request>>

(* The owner edits the file between two calls. *)
Edit(text) ==
    /\ job = None /\ text # file
    /\ edits < MaxEdits /\ edits' = edits + 1
    /\ file' = text /\ base' = None /\ patches' = 0
    /\ UNCHANGED <<saved, job, faults, request>>

Continue ==
    \/ AlreadyPatched \/ WritePatch \/ ContinueFails \/ EditedMeanwhile
    \/ SaveApplied \/ TakeUpApplied

Next ==
    \/ \E stop \in Stops : RunUnread(stop) \/ \E authorized \in BOOLEAN : Run(stop, authorized)
    \/ Resume \/ Cancel
    \/ Continue
    \/ \E exit \in 0..1, text \in Text : Verify(exit, text)
    \/ RollBack \/ CancelUnapplied \/ CancelApplied
    \/ Finish \/ Crash
    \/ \E text \in Text : Edit(text)

Spec == Init /\ [][Next]_vars
-----------------------------------------------------------------------------
(* Properties. *)

(* A receipt says what is on disk: "verified" is saved over the patched text *)
(* and "rolled_back" over the original, whatever the verifier did to the     *)
(* file, and whatever an interrupted call had left behind.                   *)
ReceiptsAreTrue ==
    [][saved' # saved =>
         /\ saved'.status = "verified" => file = Patched(saved'.original) /\ saved'.passed
         /\ saved'.status = "rolled_back" => file = saved'.original]_vars

(* A closed job stays closed: no later call touches its state or the file,   *)
(* also when the receipt was written by a call that then crashed.            *)
ClosedIsFinal ==
    [][saved # None /\ saved.status \in Terminal =>
         saved' = saved /\ (file' # file => edits' # edits)]_vars

(* "Resume does not write again": between two edits of the owner the patch   *)
(* is written once, however often calls crash or fail to save and the job is *)
(* resumed or asked for again.                                               *)
PatchedOnce == patches <= 1

(* A patch that is in place can be undone: the state on disk has the text it *)
(* was made from, if the job was proposed in a call of its own.              *)
PatchRecoverable ==
    Stops = {"proposed"} /\ base # None => saved # None /\ saved.original = base

(* Stated by the tests (jarvis_job_test.cpp:89, 159) and not kept: the file  *)
(* of a cancelled job is as it was before the job.                           *)
CancelledRestored == saved # None /\ saved.status = "cancelled" => base = None
=============================================================================
